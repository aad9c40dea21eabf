------------------------- MODULE DecisionReliability -------------------------
(***************************************************************************)
(* The reliability report beside a published transfer decision             *)
(* (decision_reliability.py).                                              *)
(*                                                                         *)
(* The report never trusts the decision: it verifies the hash of every     *)
(* file the decision names, computes the result of the owned squad and of  *)
(* every candidate again with an algorithm of its own, and refuses a       *)
(* decision it does not reproduce.  Then it asks what the decision would   *)
(* be under other assumptions.  The owner may replace a file in between.   *)
(***************************************************************************)
EXTENDS SquadDecision

CONSTANTS
  Screens,   \* for each threshold, the players an acquisition screen hides
  Caps       \* for each quantile, the most a player's capped projection can be

ASSUME ReliabilityAssumption == Screens \subseteq SUBSET Player

VARIABLE intact   \* whether the files a published decision names are still those

vars == <<rows, decision, shown, intact>>

-----------------------------------------------------------------------------
(* The second algorithm: for each formation, the best of each position. *)

FormationSet ==
  {f \in [Positions \ {"GK"} -> 0 .. StartingSize] :
     /\ f["DEF"] + f["MID"] + f["FWD"] = StartingSize - 1
     /\ \A pos \in DOMAIN f : f[pos] \in StartLeast[pos] .. StartMost[pos]}
FewerBack(f, g) == f["DEF"] < g["DEF"] \/ (f["DEF"] = g["DEF"] /\ f["MID"] < g["MID"])
Formations      == Tabulated(InOrder(FormationSet, FewerBack))

(* A mistake to check against: tied players are taken from the highest id. *)
TopFromTheEnd(v, S, k) ==
  {p \in S : Cardinality({q \in S : v[q] > v[p] \/ (v[q] = v[p] /\ q > p)}) < k}
Top(v, S, k) == {p \in S : Cardinality({q \in S : Ahead(v, q, p)}) < k}

FormationXI(v, S, f) ==
  Top(v, Of(S, "GK"), 1) \cup UNION {Top(v, Of(S, pos), f[pos]) : pos \in DOMAIN f}

(* The best formation, with the captain's points or without. *)
FixedSquadDiagnostic(v, S, captained) ==
  LET best == Kept(v, captained,
                   [i \in DOMAIN Formations |-> FormationXI(v, S, Formations[i])])
  IN  [Selection(v, S, best) EXCEPT !.objective = Score(v, best, captained)]

(* The line-up itself is not compared, only what the decision says of it. *)
Matches(v, computed, persisted) ==
  /\ Formation(computed.xi) = Formation(persisted.xi)
  /\ computed.captain = persisted.captain /\ computed.vice = persisted.vice
  /\ Near(Base(v, computed.xi), Base(v, persisted.xi))
  /\ Near(v[computed.captain], v[persisted.captain])
  /\ Near(computed.objective, persisted.objective)

SurfaceValid(v) ==
  \A r \in {decision.roll} \cup {c.result : c \in decision.candidates} :
    Matches(v, FixedSquadDiagnostic(v, r.squad, TRUE), r)

-----------------------------------------------------------------------------
(* What the decision would be if. *)

(* Reports rank without the tolerance and recommend with it. *)
Ranked(scored) ==
  CHOOSE c \in scored : \A d \in scored \ {c} :
    c.objective > d.objective \/ (c.objective = d.objective /\ LowerPair(c, d))
ActionOf(scored, roll) ==
  IF scored = {} THEN Roll
  ELSE LET best == Ranked(scored) IN
       IF best.objective > roll + Tolerance THEN Transfer(best) ELSE Roll

Scored(result) ==
  {[out |-> c.out, in |-> c.in, objective |-> result[c].objective] : c \in decision.candidates}

(* An acquisition screen hides incoming players and leaves the owned squad alone. *)
ScreenView(hidden) ==
  LET stored == [c \in decision.candidates |-> c.result] IN
  ActionOf({c \in Scored(stored) : c.in \notin hidden}, decision.roll.objective)

(* A capped rate lowers the complete projections of both sides alike. *)
Capped(v, cap) ==
  [p \in Player |-> IF State(p) = "valid" /\ v[p] > cap[p] THEN cap[p] ELSE v[p]]
Reoptimized(v, captained) ==
  LET again == [c \in decision.candidates |-> FixedSquadDiagnostic(v, c.result.squad, captained)]
  IN  ActionOf(Scored(again), FixedSquadDiagnostic(v, Owned, captained).objective)

Views(v) ==
  [screens |-> [h \in Screens |-> ScreenView(h)],
   caps    |-> [cap \in Caps |-> Reoptimized(Capped(v, cap), TRUE)],
   xi_only |-> Reoptimized(v, FALSE)]

(* The actions the views recommend, and whether they all are the official one. *)
Stability(official, views) ==
  LET actions == {views.screens[h] : h \in Screens} \cup {views.caps[cap] : cap \in Caps}
                 \cup {views.xi_only}
  IN  [distinct |-> actions, stable |-> actions = {official}]

(* A decision without any candidate leaves the report nothing to index: it ends
   with an exception of the interpreter instead of a refusal. *)
Analyze ==
  /\ shown = Idle /\ decision # None
  /\ LET views == Views(Value) IN
     shown' = IF ~intact \/ ~SurfaceValid(Value) THEN Refused
              ELSE IF decision.candidates = {} THEN [command |-> "crashed"]
              ELSE [command |-> "analyze", official |-> decision.action, views |-> views,
                    stability |-> Stability(decision.action, views)]
  /\ UNCHANGED <<rows, decision, intact>>

(* The owner replaces one of the named files; the decision stays what it was. *)
ReplaceNamedFile ==
  /\ shown = Idle /\ decision # None /\ intact
  /\ intact' = FALSE
  /\ UNCHANGED <<rows, decision, shown>>

-----------------------------------------------------------------------------
Init == DecisionInit /\ intact = TRUE

Next ==
  \/ DecisionNext /\ UNCHANGED intact
  \/ Analyze
  \/ ReplaceNamedFile

Spec == Init /\ [][Next]_vars

-----------------------------------------------------------------------------
(* Two projections that differ by no more than the tolerance. *)
NearTie == \E p, q \in Player : /\ None \notin {Value[p], Value[q]}
                                /\ Value[p] # Value[q] /\ Near(Value[p], Value[q])

CandidatesNearTie ==
  \E c, d \in decision.candidates : /\ c.result.objective # d.result.objective
                                    /\ Near(c.result.objective, d.result.objective)

(* The greedy diagnostic reproduces every result of the exhaustive scan - same
   formation, captain, vice-captain and objective - so a decision over unchanged
   files always gets its report (the comment at decision_reliability.py:690).  That
   takes projections that are equal or clearly apart: two that differ by less
   than the tolerance are ranked by the one algorithm and tied by the other.  The
   report is about the official action, and a decision whose incoming player some
   screen hides is not called stable.  A view that hides nobody and caps nothing
   repeats the official action, unless two candidates' objectives differ by less
   than the tolerance: the decision ties them, the views rank them. *)
ReportReproducesDecision ==
  decision # None =>
    /\ intact /\ ~NearTie => SurfaceValid(Value)
    /\ shown.command = "analyze" =>
         /\ shown.official = decision.action
         /\ shown.stability.stable => \A h \in Screens : decision.action.in \notin h
         /\ ~NearTie /\ ~CandidatesNearTie =>
              /\ {} \in Screens => shown.views.screens[{}] = decision.action
              /\ \A cap \in Caps :
                   Capped(Value, cap) = Value => shown.views.caps[cap] = decision.action
==============================================================================
