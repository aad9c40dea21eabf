---------------------------- MODULE SquadDecision ----------------------------
(***************************************************************************)
(* What the engine advises from one frozen projection artifact: the best   *)
(* squad (decision.py), the best line-up of the squad the manager locked   *)
(* (manager_state.py, manager_decision.py) or can still edit               *)
(* (editable_manager.py), and the best of keeping the squad and of one     *)
(* transfer (transfer_decision.py).                                        *)
(*                                                                         *)
(* Every algorithm is written as the code runs it: line-ups are scanned in *)
(* the code's order and one is kept while the next is not better by more   *)
(* than the tolerance.  Projections are integers, of which a small amount  *)
(* stands for what rounding adds: two sums the code means to be equal may  *)
(* differ by it.  A command reads the same artifact again each time; what  *)
(* it shows is gone with the next command, except the published decision.  *)
(***************************************************************************)
EXTENDS Integers, FiniteSets, SequencesExt

CONSTANTS
  Player,       \* ids of the players of the projection artifact
  Position,     \* [Player -> {"GK", "DEF", "MID", "FWD"}]
  Club,         \* [Player -> a club]
  Price,        \* [Player -> price in the frozen snapshot]
  SquadCount,   \* players of each position in a squad
  StartLeast,   \* and the least and the most of them that start
  StartMost,
  StartingSize,
  ClubLimit,    \* players a squad may have of one club
  Tolerance,    \* objectives that close are equal
  Artifact,     \* projection artifacts: functions from Player to rows
  Owned,        \* the squad the manager owns
  Selling,      \* [Owned -> the manager's selling price]
  Bank,         \* amounts in the bank
  Budget,       \* budgets of an unconstrained squad
  Locked,       \* what the service answers for the past events, newest first:
                \* the selection the manager locked, or None
  None

Positions == {"GK", "DEF", "MID", "FWD"}

(* A row of an artifact, and a selection of a squad the manager locked. *)
ProjectionRow == [fixtures : Nat, projection : Int \cup {None}, complete : BOOLEAN, minutes : Nat]
Picks         == [squad : SUBSET Player, xi : SUBSET Player, captain : Player, vice : Player,
                  chip : BOOLEAN]

(* A line-up as the engine tells it, and a transfer with the line-up it leads to. *)
Result   == [squad : SUBSET Player, xi : SUBSET Player, captain : Player, vice : Player,
             objective : Int]
Swapping == [out : Player, in : Player, result : Result]

ASSUME SquadAssumption ==
  /\ Player \subseteq Nat /\ IsFiniteSet(Player) /\ Owned \subseteq Player
  /\ None \notin Int \cup Swapping
  /\ \A c \in {SquadCount, StartLeast, StartMost} : c \in [Positions -> Nat]
  /\ Position \in [Player -> Positions] /\ Price \in [Player -> Nat]
  /\ Selling \in [Owned -> Nat] /\ Bank \subseteq Nat /\ Budget \subseteq Nat
  /\ Tolerance \in Nat /\ StartingSize \in Nat /\ ClubLimit \in Nat
  /\ Artifact \subseteq [Player -> ProjectionRow]
  /\ \A history \in Locked : history \in Seq(Picks \cup {None})

(* A captain and a vice-captain start, some formation is possible, and a squad has
   the players of every possible one. *)
ASSUME FormationAssumption ==
  /\ 2 =< StartingSize
  /\ StartLeast["GK"] =< 1 /\ 1 =< StartMost["GK"]
  /\ \A pos \in Positions : StartMost[pos] =< SquadCount[pos]
  /\ \E d, m, f \in 0 .. StartingSize :
       /\ d + m + f = StartingSize - 1
       /\ d \in StartLeast["DEF"] .. StartMost["DEF"]
       /\ m \in StartLeast["MID"] .. StartMost["MID"]
       /\ f \in StartLeast["FWD"] .. StartMost["FWD"]

VARIABLES
  rows,       \* the projection artifact: a row for each player
  decision,   \* the published transfer decision, or None
  shown       \* what the last command of the engine told the manager

decisionVars == <<rows, decision, shown>>

Idle    == [command |-> "none"]
Refused == [command |-> "refused"]

-----------------------------------------------------------------------------
(* The provider's reading of the artifact. *)

(* A player without a fixture must project exactly zero; the state of any other
   tells whether the projection is there and complete. *)
RowLoads(row) == row.fixtures = 0 => row.projection = 0
StateOf(row) ==
  IF row.fixtures = 0 THEN "blank"
  ELSE IF row.projection = None THEN "missing"
  ELSE IF row.complete THEN "valid" ELSE "incomplete"

Loads    == \A p \in Player : RowLoads(rows[p])
State(p) == StateOf(rows[p])
Value    == [p \in Player |-> rows[p].projection]

Policy == {"strict_complete_only", "appearance_only_allowed"}
Eligible(p) == State(p) \in {"valid", "blank"}

(* An incomplete projection is admitted by the second policy, which insists that
   the player is expected to play no minute. *)
BreaksPolicy(p, policy) ==
  policy = "appearance_only_allowed" /\ State(p) = "incomplete" /\ rows[p].minutes # 0
Admitted(p, policy) ==
  Eligible(p) \/ (policy = "appearance_only_allowed" /\ State(p) = "incomplete")

-----------------------------------------------------------------------------
(* Squads and line-ups. *)

Of(S, position) == {p \in S : Position[p] = position}

SquadShape(S)  == \A pos \in Positions : Cardinality(Of(S, pos)) = SquadCount[pos]
ClubsWithin(S) == \A p \in S : Cardinality({q \in S : Club[q] = Club[p]}) =< ClubLimit
Sum(f, S)      == MapThenSumSet(LAMBDA p : f[p], S)
Cost(S)        == Sum(Price, S)

SquadValid(S, policy) ==
  /\ SquadShape(S) /\ ClubsWithin(S)
  /\ \A p \in S : Admitted(p, policy) /\ ~BreaksPolicy(p, policy)

LineUp(S, xi) ==
  /\ xi \subseteq S /\ Cardinality(xi) = StartingSize
  /\ Cardinality(Of(xi, "GK")) = 1
  /\ \A pos \in Positions : Cardinality(Of(xi, pos)) \in StartLeast[pos] .. StartMost[pos]

Squads == {S \in SUBSET Player : SquadShape(S)}

Tabulated(f) == CHOOSE g \in {f} : g = f   \* f itself, which the comparison makes a table

LineUps == Tabulated([S \in Squads |-> {xi \in SUBSET S : LineUp(S, xi)}])

Formation(xi) == [pos \in Positions \ {"GK"} |-> Cardinality(Of(xi, pos))]

(* Of two sets of as many ids, the one whose sorted tuple is lower. *)
LowerIds(S, T) == S # T /\ Min(SymDiff(S, T)) \in S

(* The code's nested loops: goalkeeper, number of defenders, of midfielders, and
   the combinations of each position in the order of their ids. *)
ScannedBefore(x, y) ==
  LET fx == Formation(x)  fy == Formation(y)
      same(pos)  == Of(x, pos) = Of(y, pos)
      lower(pos) == LowerIds(Of(x, pos), Of(y, pos)) IN
  \/ lower("GK")
  \/ /\ same("GK")
     /\ \/ fx["DEF"] < fy["DEF"]
        \/ fx["DEF"] = fy["DEF"] /\ fx["MID"] < fy["MID"]
        \/ /\ fx = fy
           /\ \/ lower("DEF")
              \/ same("DEF") /\ lower("MID")
              \/ same("DEF") /\ same("MID") /\ lower("FWD")

(* The elements of a finite set, each after as many as come before it. *)
InOrder(S, Before(_, _)) ==
  [i \in 1 .. Cardinality(S) |->
     CHOOSE x \in S : Cardinality({y \in S : Before(y, x)}) = i - 1]

ScanOrder == Tabulated([S \in Squads |-> InOrder(LineUps[S], ScannedBefore)])

Ahead(v, p, q) == v[p] > v[q] \/ (v[p] = v[q] /\ p < q)
Leader(v, S)   == CHOOSE p \in S : \A q \in S \ {p} : Ahead(v, p, q)

Near(a, b)       == a - b \in -Tolerance .. Tolerance
Base(v, xi)      == Sum(v, xi)
Objective(v, xi) == Base(v, xi) + v[Leader(v, xi)]

(* Every score of a line-up of players who all have a projection.  The code calls
   scores within the tolerance tied, as if that were transitive; the artifacts
   considered are those where it is.  For others the order the candidates are
   sorted by is no order, and what a scan keeps depends on what it met before. *)
Scores(v) ==
  {Objective(v, xi) :
     xi \in UNION {LineUps[S] : S \in {S \in Squads : \A p \in S : v[p] # None}}}
TiesSeparate(v) ==
  \A x, y \in Scores(v) : x - y \in -(2 * Tolerance) .. 2 * Tolerance => Near(x, y)

ASSUME ToleranceAssumption ==
  \A a \in Artifact : TiesSeparate([p \in Player |-> a[p].projection])

(* What a line-up scores, with the captain's points again or without. *)
Score(v, xi, captained) == IF captained THEN Objective(v, xi) ELSE Base(v, xi)

(* The line-up a scan keeps when it meets the next one. *)
Keep(v, captained, best, xi) ==
  LET new == Score(v, xi, captained)  old == Score(v, best, captained) IN
  IF \/ best = {}
     \/ new > old + Tolerance
     \/ Near(new, old) /\ LowerIds(xi, best)
  THEN xi ELSE best

(* What a scan has kept at its end. *)
Kept(v, captained, lineUps) ==
  FoldLeft(LAMBDA best, xi : Keep(v, captained, best, xi), {}, lineUps)

Selection(v, S, xi) ==
  LET captain == Leader(v, xi) IN
  [squad |-> S, xi |-> xi, captain |-> captain, vice |-> Leader(v, xi \ {captain}),
   objective |-> Objective(v, xi)]

(* The exhaustive scan of one squad. *)
OptimizeXI(v, S) == Selection(v, S, Kept(v, TRUE, ScanOrder[S]))

-----------------------------------------------------------------------------
(* The unconstrained squad. *)

Pool == {p \in Player : Eligible(p)}

(* The solver maximises the objective over squads, line-ups and captains, then
   among the squads tied with it takes the cheapest, then the lowest ids; the
   scan must find the solver's objective again. *)
OptimizeSquad(v, pool, budget) ==
  LET squads == {S \in Squads : S \subseteq pool /\ ClubsWithin(S) /\ Cost(S) =< budget}
      scores == [S \in squads |-> {Objective(v, xi) : xi \in LineUps[S]}]
      top    == Max(UNION {scores[S] : S \in squads})
      tied   == {S \in squads : \E o \in scores[S] : Near(o, top)}
      cheap  == {S \in tied : \A T \in tied : Cost(S) =< Cost(T)}
      best   == OptimizeXI(v, CHOOSE S \in cheap : \A T \in cheap \ {S} : LowerIds(S, T))
  IN  IF squads = {} \/ ~Near(best.objective, top) THEN None ELSE best

Optimize(budget) ==
  /\ shown = Idle
  /\ LET best == OptimizeSquad(Value, Pool, budget) IN
     shown' = IF Loads /\ best # None
              THEN [command |-> "optimize", budget |-> budget, best |-> best]
              ELSE Refused
  /\ UNCHANGED <<rows, decision>>

-----------------------------------------------------------------------------
(* The squad the manager locked, read from the public endpoints. *)

(* What fetch insists on in the picks: a squad, and a selection of it. *)
PicksValid(lock) ==
  /\ SquadShape(lock.squad) /\ ClubsWithin(lock.squad)
  /\ lock.xi \in LineUps[lock.squad]
  /\ lock.captain \in lock.xi /\ lock.vice \in lock.xi \ {lock.captain}

(* The k-th lowest id of one set is paired with the k-th lowest of the other. *)
Zipped(S, T) ==
  LET rank(p, U) == Cardinality({q \in U : q < p}) IN
  {s \in S \X T : rank(s[1], S) = rank(s[2], T)}

(* Swaps within a position first, then whatever a change of formation leaves. *)
ChangeList(started, benched) ==
  LET same == UNION {Zipped(Of(started, pos), Of(benched, pos)) : pos \in Positions} IN
  same \cup Zipped(started \ {s[1] : s \in same}, benched \ {s[2] : s \in same})

LockedScore(v, lock) == Base(v, lock.xi) + v[lock.captain]

(* The standard objective is compared with the manager's own selection, unless a
   chip changes how that one scores; an incomplete projection of an owned player
   leaves nothing to compare. *)
Comparison(lock) ==
  LET complete == \A p \in lock.squad : Eligible(p)
      best     == OptimizeXI(Value, lock.squad)
      compared == complete /\ ~lock.chip
  IN  [lock |-> lock,
       best |-> IF complete THEN best ELSE None,
       difference |-> IF compared THEN best.objective - LockedScore(Value, lock) ELSE None,
       changes |-> IF compared THEN ChangeList(best.xi \ lock.xi, lock.xi \ best.xi) ELSE {}]

(* Of the past events, newest first, the newest the service answers for; an event
   the manager asks for is not exchanged for an older one. *)
Represented(history, asked) ==
  LET answered == {i \in DOMAIN history : history[i] # None}
  IN  IF asked # None THEN answered \cap {asked}
      ELSE IF answered = {} THEN {} ELSE {Min(answered)}

(* The projections are those of the represented event.  A selection that is not a
   legal one is refused, and never exchanged for an older one. *)
ReviewLocked(history, asked) ==
  /\ shown = Idle
  /\ LET events == Represented(history, asked) IN
     \/ /\ \/ events = {} \/ ~Loads
           \/ \E i \in events : ~PicksValid(history[i])
        /\ shown' = Refused
     \/ \E i \in events :
          /\ Loads /\ PicksValid(history[i])
          /\ shown' = [command |-> "locked", event |-> i, comparison |-> Comparison(history[i])]
  /\ UNCHANGED <<rows, decision>>

-----------------------------------------------------------------------------
(* The squad the manager can still edit. *)

(* What is recorded by hand is a squad, with a selling price for each player. *)
ManualStateValid == SquadShape(Owned) /\ DOMAIN Selling = Owned

(* Only a squad whose every player the policy admits is optimised. *)
EditableAdvice(policy) ==
  LET covered == {p \in Owned : Admitted(p, policy)} IN
  [policy |-> policy, covered |-> covered,
   best |-> IF covered = Owned THEN OptimizeXI(Value, Owned) ELSE None]

(* The part of the objective that rests on incomplete projections. *)
IncompleteShare(best) ==
  LET incomplete == {p \in best.xi : State(p) = "incomplete"} IN
  Base(Value, incomplete) + Base(Value, incomplete \cap {best.captain})

ReviewEditable(policy) ==
  /\ shown = Idle
  /\ LET broken == \E p \in Owned : BreaksPolicy(p, policy)
         advice == EditableAdvice(policy)
     IN  shown' =
           IF ~Loads \/ broken \/ ~ManualStateValid \/ ~ClubsWithin(Owned) THEN Refused
           ELSE [command |-> "editable", advice |-> advice,
                 incomplete |-> IF advice.best = None THEN 0 ELSE IncompleteShare(advice.best)]
  /\ UNCHANGED <<rows, decision>>

-----------------------------------------------------------------------------
(* Keeping the squad, or one transfer. *)

Swap(out, in) == (Owned \ {out}) \cup {in}

(* A mistake to check against: the club of the leaving player still counts. *)
StaleClubSwap(out, in, bank) ==
  /\ in \in Player \ Owned /\ Admitted(in, "appearance_only_allowed")
  /\ Position[in] = Position[out]
  /\ Price[in] =< Selling[out] + bank
  /\ Cardinality({p \in Owned : Club[p] = Club[in]}) < ClubLimit

(* Incoming players the manager can pay, of the same position, from a club that
   the rest of the squad leaves room for. *)
LegalSwap(out, in, bank) ==
  /\ in \in Player \ Owned /\ Admitted(in, "appearance_only_allowed")
  /\ Position[in] = Position[out]
  /\ Price[in] =< Selling[out] + bank
  /\ Cardinality({p \in Owned \ {out} : Club[p] = Club[in]}) < ClubLimit

Candidates(v, bank) ==
  {[out |-> s[1], in |-> s[2], result |-> OptimizeXI(v, Swap(s[1], s[2]))] :
     s \in {s \in Owned \X Player : LegalSwap(s[1], s[2], bank)}}

LowerPair(c, d) == c.out < d.out \/ (c.out = d.out /\ c.in < d.in)
Preferred(c, d) ==
  IF Near(c.result.objective, d.result.objective)
  THEN LowerPair(c, d)
  ELSE c.result.objective > d.result.objective
First(cands) == CHOOSE c \in cands : \A d \in cands \ {c} : Preferred(c, d)

Roll == [action |-> "ROLL", out |-> None, in |-> None]
Transfer(c) == [action |-> "TRANSFER", out |-> c.out, in |-> c.in]

(* A transfer is recommended only when it gains more than the tolerance. *)
Recommend(best, roll) ==
  IF best # None /\ best.result.objective > roll.objective + Tolerance
  THEN Transfer(best) ELSE Roll

(* The universe is checked before any candidate: one player whose incomplete
   projection expects minutes stops the decision, owned or not. *)
EvaluateOneTransfer(v, bank) ==
  LET roll  == OptimizeXI(v, Owned)
      cands == Candidates(v, bank)
      best  == IF cands = {} THEN None ELSE First(cands)
  IN  [bank |-> bank, roll |-> roll, candidates |-> cands, best |-> best,
       action |-> Recommend(best, roll)]

Decide(bank) ==
  /\ shown = Idle /\ decision = None
  /\ LET policy == "appearance_only_allowed"
         broken == \E p \in Player : BreaksPolicy(p, policy)
     IN  IF Loads /\ ~broken /\ SquadValid(Owned, policy)
         THEN /\ decision' = EvaluateOneTransfer(Value, bank)
              /\ shown' = [command |-> "decide"]
         ELSE shown' = Refused /\ UNCHANGED decision
  /\ UNCHANGED rows

Close ==
  /\ shown # Idle
  /\ shown' = Idle
  /\ UNCHANGED <<rows, decision>>

-----------------------------------------------------------------------------
DecisionInit ==
  /\ rows \in Artifact
  /\ decision = None
  /\ shown = Idle

DecisionNext ==
  \/ \E b \in Budget : Optimize(b)
  \/ \E h \in Locked, asked \in {None, 1} : ReviewLocked(h, asked)
  \/ \E policy \in Policy : ReviewEditable(policy)
  \/ \E b \in Bank : Decide(b)
  \/ Close

-----------------------------------------------------------------------------
(* What the advice promises, said without the algorithms. *)

(* The best objective any legal selection of one of these squads reaches. *)
BestOf(v, squads) ==
  Max(UNION {{Base(v, xi) + v[c] : c \in xi} : xi \in UNION {LineUps[S] : S \in squads}})

(* The squads at most one transfer away that the manager can pay for. *)
Reachable(bank) ==
  {S \in Squads :
     /\ SquadValid(S, "appearance_only_allowed")
     /\ Cardinality(S \ Owned) =< 1
     /\ Cost(S \ Owned) =< bank + Sum(Selling, Owned \ S)}

Within(v, result, squads) ==
  /\ result.squad \in squads
  /\ LineUp(result.squad, result.xi)
  /\ result.objective = Base(v, result.xi) + v[result.captain]
  /\ result.vice \in result.xi \ {result.captain}
  /\ result.objective >= BestOf(v, squads) - Tolerance

(* Every recommendation is legal and no legal alternative beats it: no squad in
   the budget has a better line-up than the optimum or ties with it at a lower
   cost; the published decision is, of every squad one free transfer away, within
   the tolerance of the best, and moves a player only when no line-up of the
   owned squad does as well; the changes shown for a locked squad lead from the
   manager's selection to one that does not score less; no point of the default
   policy's advice rests on an incomplete projection (optimize_squad,
   evaluate_one_transfer, evaluate_current_squad, evaluate_editable_squad). *)
AdviceIsBest ==
  /\ shown.command = "optimize" =>
       LET squads == {S \in Squads : /\ \A p \in S : Eligible(p)
                                     /\ ClubsWithin(S)
                                     /\ Cost(S) =< shown.budget}
           best   == shown.best
       IN  /\ Within(Value, best, squads)
           /\ \A S \in squads \ {best.squad} :
                BestOf(Value, {S}) >= best.objective =>
                  \/ Cost(best.squad) < Cost(S)
                  \/ Cost(best.squad) = Cost(S) /\ LowerIds(best.squad, S)
  /\ shown.command = "locked" /\ shown.comparison.best # None =>
       LET lock == shown.comparison.lock  best == shown.comparison.best
           changes == shown.comparison.changes
       IN  /\ Within(Value, best, {lock.squad})
           /\ ~lock.chip =>
                /\ shown.comparison.difference >= -Tolerance
                /\ (lock.xi \ {c[2] : c \in changes}) \cup {c[1] : c \in changes} = best.xi
  /\ shown.command = "editable" /\ shown.advice.best # None =>
       /\ Within(Value, shown.advice.best, {Owned})
       /\ shown.incomplete # 0 => shown.advice.policy = "appearance_only_allowed"
  /\ decision # None =>
       LET squads == Reachable(decision.bank)
           chosen == IF decision.action = Roll THEN decision.roll ELSE decision.best.result
       IN  /\ {c.result.squad : c \in decision.candidates} = squads \ {Owned}
           /\ Within(Value, chosen, squads)
           /\ decision.action # Roll =>
                /\ chosen.squad = Swap(decision.action.out, decision.action.in)
                /\ chosen.objective > BestOf(Value, {Owned})
==============================================================================
