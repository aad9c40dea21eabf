-------------------------- MODULE GameweekOrderProofs --------------------------
(***************************************************************************)
(* What holds of a gameweek as long as no two runs worked on its evidence  *)
(* at once: runs that follow one another, each of which may have been      *)
(* killed anywhere.                                                        *)
(*                                                                         *)
(* Then everything that is found for the evidence is the only one of its   *)
(* kind, and the names lead from the receipt to the state, from the        *)
(* decision to the state and from the report to the decision.  What can    *)
(* still go wrong is a stage that refuses the data, or a file that a       *)
(* killed run left in its staging directory, and these proofs show that    *)
(* nothing else can.                                                       *)
(***************************************************************************)
EXTENDS GameweekProofs

-----------------------------------------------------------------------------
(* The inductive invariant of evidence nobody overlapped on *)

OneEach(e) ==
  \A a, b \in Run : run[a].ev = e /\ run[b].ev = e =>
    /\ statefile[a] # None /\ statefile[b] # None => a = b
    /\ decision[a] # None /\ decision[b] # None => a = b
    /\ reliability[a] # None /\ reliability[b] # None => a = b

ReceiptRow(e) ==
  receipt[e] # None => run[receipt[e].by].ev = e /\ Leads(statefile, receipt[e])

DecisionsFollow(e) ==
  \A d \in Run : run[d].ev = e /\ decision[d] # None =>
    receipt[e] # None /\ decision[d].state = receipt[e]

StatePending == {"newstate", "fillstate", "movestate", "receipt"}
Unfinished   == {"newdecision", "filldecision", "movedecision"} \cup (DecisionKnown \ {"unlinkfinal"})

(* What run r found out, and nobody else can have changed since. *)
WorkRow(r) ==
  LET t == run[r]
      e == t.ev IN
  /\ t.pc = "newstate" => \A a \in Run : run[a].ev = e => statefile[a] = None
  /\ t.pc \in StatePending => receipt[e] = None
  /\ t.pc = "receipt" => Leads(statefile, t.state)
  /\ t.pc \in HasState \ {"receipt"} => receipt[e] = t.state
  /\ t.pc = "newdecision" => \A a \in Run : run[a].ev = e => decision[a] = None
  /\ t.pc \in DecisionKnown => decision[t.decision] # None
  /\ t.pc = "newreliability" => \A a \in Run : run[a].ev = e => reliability[a] = None
  /\ t.pc = "gameweek" => Leads(reliability, t.reliability)
  /\ t.pc \in Unfinished => final[t.state.by] = None

Order(e) ==
  /\ OneEach(e) /\ ReceiptRow(e) /\ DecisionsFollow(e)
  /\ \A r \in Run : run[r].ev = e => WorkRow(r)

(* Why a run found the submission inconsistent. *)
Blocking == {"CONFLICT", "HASH_MISMATCH", "MISSING", "STAGE_FAILED", "UNEXPECTED"}
Refusals == {"STAGE_FAILED", "UNEXPECTED"}
Unsound  == prep # None /\ ~PreparationValid
Stuck(e) == \E q \in Run : run[q].ev = e /\ LeftStaged(q)

Refused(r) == run[r].error \in Refusals /\ run[r].ev \notin Computable

BlockedRow(r) ==
  run[r].error \in Blocking /\ run[r].ev \notin overlapped =>
    Unsound \/ Stuck(run[r].ev) \/ Refused(r)

OrderInv ==
  /\ \A e \in Evidence \ overlapped : Order(e)
  /\ \A r \in Run : BlockedRow(r)

-----------------------------------------------------------------------------
(* What a step leaves alone *)

LEMMA OwnersKnown ==
  ASSUME RunsInv, NEW r \in Run
  PROVE  /\ run[r].pc \in HasState => /\ run[r].state.by \in Run
                                      /\ run[run[r].state.by].ev = run[r].ev
         /\ run[r].pc \in DecisionKnown /\ decision[run[r].decision] # None =>
              /\ run[r].decision \in Run /\ run[run[r].decision].ev = run[r].ev
              /\ decision[run[r].decision].state.by = run[r].state.by
         /\ run[r].pc \in Binding /\ reliability[run[r].reliability.by] # None =>
              /\ run[r].reliability.by \in Run /\ run[run[r].reliability.by].ev = run[r].ev
<1>1. RunRow(r)
  BY DEF RunsInv
<1>2. run[r].pc \in HasState => run[r].state.by \in Run /\ run[run[r].state.by].ev = run[r].ev
  BY <1>1 DEF RunRow, NamedState
<1>3. ASSUME run[r].pc \in DecisionKnown, decision[run[r].decision] # None
      PROVE  /\ run[r].decision \in Run /\ run[run[r].decision].ev = run[r].ev
             /\ decision[run[r].decision].state.by = run[r].state.by
  <2>1. /\ run[r].decision \in Run
        /\ decision[run[r].decision].state.by = run[r].state.by
    BY <1>1, <1>3 DEF RunRow, FoundDecision
  <2>2. DecisionRow(run[r].decision)
    BY <2>1 DEF RunsInv
  <2> QED BY <1>2, <1>3, <2>1, <2>2 DEF DecisionRow, NamedState, HasState
<1>4. ASSUME run[r].pc \in Binding, reliability[run[r].reliability.by] # None
      PROVE  run[r].reliability.by \in Run /\ run[run[r].reliability.by].ev = run[r].ev
  <2>1. /\ run[r].reliability.by \in Run
        /\ reliability[run[r].reliability.by].state = run[r].state.by
    BY <1>1, <1>4 DEF RunRow, NamedReliability
  <2>2. ReliabilityRow(run[r].reliability.by)
    BY <2>1 DEF RunsInv
  <2> QED BY <1>2, <1>4, <2>1, <2>2 DEF ReliabilityRow, NamedState, HasState, DecisionKnown, Loaded
<1> QED BY <1>2, <1>3, <1>4

(* Evidence the step is not about. *)
LEMMA OtherEvidence ==
  ASSUME RunsInv, NEW r \in Run, ElseSame(r), NEW e \in Evidence, Order(e),
         run[r].ev # e, run'[r].ev # e, receipt'[e] = receipt[e],
         \A s \in Run : run[s].ev = e => final'[s] = final[s]
  PROVE  Order(e)'
<1>1. ASSUME NEW a \in Run, run'[a].ev = e
      PROVE  /\ a # r /\ run[a].ev = e /\ run'[a] = run[a] /\ statefile'[a] = statefile[a]
             /\ decision'[a] = decision[a] /\ reliability'[a] = reliability[a]
  BY <1>1 DEF ElseSame
<1>2. OneEach(e)'
  BY <1>1 DEF Order, OneEach
<1>3. ReceiptRow(e)'
  <2>1. receipt[e] # None => receipt[e].by \in Run
    BY DEF RunsInv, Shapes, Path
  <2> QED BY <1>1, <2>1 DEF Order, ReceiptRow, Leads, ElseSame
<1>4. DecisionsFollow(e)'
  BY <1>1 DEF Order, DecisionsFollow
<1>5. ASSUME NEW q \in Run, run'[q].ev = e PROVE WorkRow(q)'
  <2>1. q # r /\ run[q].ev = e /\ run'[q] = run[q] /\ WorkRow(q)
    BY <1>1, <1>5 DEF Order
  <2>2. run[q].pc \in HasState => /\ run[q].state.by \in Run
                                  /\ statefile'[run[q].state.by] = statefile[run[q].state.by]
                                  /\ final'[run[q].state.by] = final[run[q].state.by]
    BY <2>1, OwnersKnown DEF ElseSame
  <2>3. run[q].pc \in DecisionKnown => decision'[run[q].decision] = decision[run[q].decision]
    BY <2>1, OwnersKnown DEF ElseSame, WorkRow
  <2>4. run[q].pc = "gameweek" =>
          reliability'[run[q].reliability.by] = reliability[run[q].reliability.by]
    BY <2>1, OwnersKnown DEF ElseSame, WorkRow, Leads, Binding
  <2>5. /\ run'[q].pc = "newstate" => \A a \in Run : run'[a].ev = e => statefile'[a] = None
        /\ run'[q].pc = "newdecision" => \A a \in Run : run'[a].ev = e => decision'[a] = None
        /\ run'[q].pc = "newreliability" => \A a \in Run : run'[a].ev = e => reliability'[a] = None
    BY <1>1, <2>1 DEF WorkRow
  <2>6. /\ run[q].pc = "receipt" => run[q].pc \in HasState
        /\ run[q].pc \in Unfinished => run[q].pc \in HasState
    BY DEF HasState, Unfinished
  <2> QED BY <1>5, <2>1, <2>2, <2>3, <2>4, <2>5, <2>6 DEF WorkRow, Leads
<1> QED BY <1>2, <1>3, <1>4, <1>5 DEF Order

(* The other runs of the evidence are over. *)
Sole(r, e) == \A q \in Run \ {r} : run[q].ev = e => run[q].pc \in {"done", "failed", "dead"}

LEMMA SoleLive ==
  ASSUME RunsInv, NEW r \in Run, Live(r), NEW e \in Evidence, e = run[r].ev, e \notin overlapped
  PROVE  Sole(r, e)
<1>1. \A q \in Run : run[q].ev = e => run[q].pc # "idle"
  BY RunnerAssumption DEF RunsInv, RunRow
<1> QED BY <1>1 DEF RunsInv, OverlapsSeen, Sole, Live

(* A file that is still staged was left by a killed run. *)
LEMMA StagedIsLeft ==
  ASSUME RunsInv, NEW r \in Run, NEW e, Sole(r, e), NEW q \in Run \ {r}, run[q].ev = e,
         \/ statefile[q] # None /\ statefile[q].stage # "final"
         \/ decision[q] # None /\ decision[q].stage # "final"
         \/ reliability[q] # None /\ reliability[q].stage # "final"
  PROVE  Stuck(e)
<1>1. StateRow(q) /\ DecisionRow(q) /\ ReliabilityRow(q) /\ run[q].pc \in {"done", "failed", "dead"}
  BY DEF RunsInv, Sole
<1>2. run[q].pc = "dead"
  BY <1>1 DEF StateRow, DecisionRow, ReliabilityRow
<1> QED BY <1>2 DEF Stuck, LeftStaged

(* The evidence the step is about. *)
LEMMA SoleEvidence ==
  ASSUME RunsInv, NEW r \in Run, ElseSame(r), NEW e \in Evidence, Order(e), Sole(r, e),
         run[r].ev = e \/ run[r].pc = "idle",
         receipt[e] # None => receipt'[e] = receipt[e],
         \/ statefile'[r] = None \/ statefile[r] # None
         \/ \A a \in Run : run[a].ev = e => statefile[a] = None,
         \/ decision'[r] = None \/ decision[r] # None
         \/ \A a \in Run : run[a].ev = e => decision[a] = None,
         \/ reliability'[r] = None \/ reliability[r] # None
         \/ \A a \in Run : run[a].ev = e => reliability[a] = None,
         ReceiptRow(e)', DecisionsFollow(e)', WorkRow(r)'
  PROVE  Order(e)'
<1>1. ASSUME NEW a \in Run \ {r}
      PROVE  /\ run'[a] = run[a] /\ statefile'[a] = statefile[a]
             /\ decision'[a] = decision[a] /\ reliability'[a] = reliability[a]
  BY <1>1 DEF ElseSame
<1>2. statefile[r] # None \/ decision[r] # None \/ reliability[r] # None => run[r].ev = e
  BY DEF RunsInv, StateRow, DecisionRow, ReliabilityRow, BeforeState, BeforeDecision, StateOpen,
         BeforeReliability, DecisionOpen
<1>3. OneEach(e)'
  BY <1>1, <1>2 DEF Order, OneEach
<1>4. ASSUME NEW q \in Run \ {r}, run'[q].ev = e PROVE WorkRow(q)'
  <2>1. run[q].pc \in {"done", "failed", "dead"} /\ run[q].ev = e /\ WorkRow(q) /\ run'[q] = run[q]
    BY <1>1, <1>4 DEF Sole, Order
  <2>2. run[q].pc = "done" => run[q].state # None
    BY AbsentAssumption DEF RunsInv, RunRow, HasState
  <2>3. run'[q].pc = "done" => receipt'[e] = run'[q].state
    BY <2>1, <2>2 DEF WorkRow, HasState
  <2> QED BY <1>4, <2>1, <2>3
          DEF WorkRow, StatePending, HasState, DecisionKnown, Loaded, Binding, Timed,
              GameweekWritten, Unfinished
<1> QED BY <1>3, <1>4 DEF Order

(* The run itself goes on without a file of its own, or stops. *)
LEMMA OrderMove ==
  ASSUME RunsInv, NEW r \in Run, ElseSame(r), Live(r), NEW e \in Evidence, e = run[r].ev,
         e \notin overlapped, Order(e), run'[r].ev = e,
         UNCHANGED <<statefile, decision, reliability, receipt>>, WorkRow(r)'
  PROVE  Order(e)'
<1>1. Sole(r, e)
  BY SoleLive
<1>2. \A q \in Run : run'[q].ev = run[q].ev
  BY DEF ElseSame
<1>3. ReceiptRow(e)' /\ DecisionsFollow(e)'
  <2>1. receipt[e] # None => receipt[e].by \in Run
    BY DEF RunsInv, Shapes, Path
  <2> QED BY <1>2, <2>1 DEF Order, ReceiptRow, DecisionsFollow, Leads
<1> QED BY <1>1, <1>3, SoleEvidence

LEMMA StoppedWork ==
  ASSUME NEW r \in Run, run'[r].pc \in {"failed", "dead"} PROVE WorkRow(r)'
BY DEF WorkRow, StatePending, HasState, DecisionKnown, Loaded, Binding, Timed, GameweekWritten,
       Unfinished

(* How a run gets to a blocking error. *)
Blocked(r) == \/ run'[r].error = run[r].error
              \/ run'[r].error \notin Blocking
              \/ Stuck(run[r].ev)
              \/ run'[r].error \in Refusals /\ run[r].ev \notin Computable

LEMMA OrderFails ==
  ASSUME RunsInv, NEW r \in Run, Live(r), NEW e \in Evidence, e = run[r].ev,
         e \notin overlapped, Order(e), UNCHANGED chain,
         NEW why \in Errors, Fail(r, why),
         why \notin Blocking \/ Stuck(e) \/ (why \in Refusals /\ e \notin Computable)
  PROVE  Order(e)' /\ Blocked(r)
<1>1. Stops(r) /\ run'[r].pc = "failed" /\ run'[r].error = why
  BY RunFails
<1>2. ElseSame(r) /\ run'[r].ev = e
  BY <1>1 DEF Stops, ElseSame, chain
<1>3. WorkRow(r)'
  BY <1>1, StoppedWork
<1> QED BY <1>1, <1>2, <1>3, OrderMove DEF chain, Blocked

-----------------------------------------------------------------------------
(* The assignments of a step *)

Others(r) == \A q \in Run \ {r} : run'[q] = run[q]

LEMMA SetsState ==
  ASSUME RunsInv, NEW r \in Run, NEW l \in RunLabels, NEW p \in Path,
         \/ run' = [run EXCEPT ![r].state = p, ![r].pc = l]
         \/ run' = [run EXCEPT ![r].pc = l, ![r].state = p]
  PROVE  /\ Others(r) /\ run'[r].pc = l /\ run'[r].state = p
         /\ run'[r].ev = run[r].ev /\ run'[r].error = run[r].error
BY DEF RunsInv, Shapes, RunState, Others

LEMMA SetsDecision ==
  ASSUME RunsInv, NEW r \in Run, NEW l \in RunLabels, NEW d \in Run,
         run' = [run EXCEPT ![r].pc = l, ![r].decision = d]
  PROVE  /\ Others(r) /\ run'[r].pc = l /\ run'[r].decision = d
         /\ run'[r].ev = run[r].ev /\ run'[r].error = run[r].error
         /\ run'[r].state = run[r].state
BY DEF RunsInv, Shapes, RunState, Others

LEMMA SetsReliability ==
  ASSUME RunsInv, NEW r \in Run, NEW l \in RunLabels, NEW p \in Path,
         run' = [run EXCEPT ![r].pc = l, ![r].reliability = p]
  PROVE  /\ Others(r) /\ run'[r].pc = l /\ run'[r].reliability = p
         /\ run'[r].ev = run[r].ev /\ run'[r].error = run[r].error
         /\ run'[r].state = run[r].state /\ run'[r].decision = run[r].decision
BY DEF RunsInv, Shapes, RunState, Others

LEMMA SetsTime ==
  ASSUME RunsInv, NEW r \in Run, NEW l \in RunLabels,
         run' = [run EXCEPT ![r].pc = l, ![r].at = now]
  PROVE  /\ Others(r) /\ run'[r].pc = l /\ run'[r].reliability = run[r].reliability
         /\ run'[r].ev = run[r].ev /\ run'[r].error = run[r].error
         /\ run'[r].state = run[r].state /\ run'[r].decision = run[r].decision
<1> DEFINE t == [run[r] EXCEPT !.pc = l, !.at = now]
<1>1. /\ t \in RunState /\ t.pc = l /\ t.reliability = run[r].reliability
      /\ t.ev = run[r].ev /\ t.error = run[r].error
      /\ t.state = run[r].state /\ t.decision = run[r].decision
  BY DEF RunsInv, Shapes, RunState
<1>2. run' = [run EXCEPT ![r] = t] /\ run \in [Run -> RunState]
  BY DEF RunsInv, Shapes
<1> HIDE DEF t
<1> QED BY <1>1, <1>2 DEF Others

(* A run that goes on and writes nothing. *)
LEMMA OrderGoes ==
  ASSUME RunsInv, NEW r \in Run, Live(r), NEW e \in Evidence, e = run[r].ev,
         e \notin overlapped, Order(e), UNCHANGED chain, Others(r), run'[r].ev = e,
         run'[r].error = run[r].error, WorkRow(r)'
  PROVE  Order(e)' /\ Blocked(r)
<1>1. ElseSame(r)
  BY DEF Others, ElseSame, chain
<1> QED BY <1>1, OrderMove DEF chain, Blocked

(* In order, at most one of a kind is found. *)
LEMMA AtMostOne ==
  ASSUME NEW S, \A x, y \in S : x = y
  PROVE  ~(Cardinality(S) > 1) /\ \A x \in S : S = {x}
<1>1. \A x \in S : S = {x}
  OBVIOUS
<1>2. S = {} => Cardinality(S) = 0
  BY FS_EmptySet
<1>3. \A x \in S : Cardinality({x}) = 1
  BY FS_Singleton
<1> QED BY <1>1, <1>2, <1>3

LEMMA FindStateOrders ==
  ASSUME RunsInv, NEW r \in Run, NEW e \in Evidence, e = run[r].ev, e \notin overlapped,
         Order(e), FindState(r)
  PROVE  Order(e)' /\ Blocked(r)
<1>1. /\ run[r].pc = "state" /\ Live(r) /\ UNCHANGED chain /\ statefile[r] = None
  BY DEF FindState, At, Live, RunsInv, StateRow, BeforeState
<1>2. ASSUME NEW why \in Errors, Fail(r, why), why \notin Blocking \/ Stuck(e)
      PROVE  Order(e)' /\ Blocked(r)
  BY <1>1, <1>2, OrderFails
<1>3. \A q \in Run : q \in States(e) <=> run[q].ev = e /\ statefile[q] # None
  BY DEF RunsInv, StateRow, States
<1>4. ~(Cardinality(States(e)) > 1) /\ \A x \in States(e) : States(e) = {x}
  <2>1. \A x, y \in States(e) : x = y
    BY <1>3 DEF Order, OneEach, States
  <2> QED BY <2>1, AtMostOne
<1>5. receipt[e] # None => receipt[e].by \in States(e) /\ receipt[e] \in Path
                           /\ receipt[e].stage = statefile[receipt[e].by].stage
  BY <1>3 DEF Order, ReceiptRow, Leads, RunsInv, Shapes, Path
<1>6. CASE States(e) = {}
  <2>1. CASE BeforeDeadline
    <3>1. run' = [run EXCEPT ![r].pc = "newstate", ![r].at = now] /\ "newstate" \in RunLabels
      BY <1>4, <1>6, <2>1 DEF FindState, RunLabels
    <3>2. Others(r) /\ run'[r].pc = "newstate" /\ run'[r].ev = e /\ run'[r].error = run[r].error
      BY <3>1, SetsTime
    <3>3. receipt[e] = None /\ \A a \in Run : run'[a].ev = e => statefile[a] = None
      BY <1>3, <1>5, <1>6, <3>2 DEF Others
    <3>4. WorkRow(r)'
      BY <1>1, <3>2, <3>3
         DEF WorkRow, StatePending, HasState, DecisionKnown, Loaded, Binding, Timed,
             GameweekWritten, Unfinished, chain
    <3> QED BY <1>1, <3>2, <3>4, OrderGoes
  <2>2. CASE ~BeforeDeadline
    <3>1. Fail(r, "DEADLINE") /\ "DEADLINE" \in Errors /\ "DEADLINE" \notin Blocking
      BY <1>4, <1>6, <2>2 DEF FindState, Errors, Blocking
    <3> QED BY <1>2, <3>1
  <2> QED BY <2>1, <2>2
<1>7. ASSUME NEW q \in States(e), q = CHOOSE x \in States(e) : TRUE
      PROVE  Order(e)' /\ Blocked(r)
  <2> DEFINE path == [by |-> q, stage |-> statefile[q].stage]
  <2>1. /\ q \in Run /\ run[q].ev = e /\ statefile[q] # None /\ q # r
        /\ States(e) = {q}
    BY <1>1, <1>3, <1>4, <1>7 DEF States
  <2>2. path \in Path /\ path.by = q /\ path.stage = statefile[q].stage
    BY <2>1 DEF RunsInv, Shapes, StateFile, Path
  <2>3. receipt[e] # None => receipt[e] = path
    <3>1. receipt[e] # None => /\ receipt[e] \in Path /\ receipt[e].by = q
                               /\ receipt[e].stage = path.stage
      BY <1>5, <2>1, <2>2
    <3> QED BY <2>2, <3>1 DEF Path
  <2>4. ~Conflicts(receipt[e], path)
    BY <2>3 DEF Conflicts
  <2>5. CASE path.stage = "torn"
    <3>1. Fail(r, "HASH_MISMATCH") /\ "HASH_MISMATCH" \in Errors
      BY <1>4, <1>7, <2>1, <2>5 DEF FindState, Errors
    <3>2. Sole(r, e)
      BY <1>1, SoleLive
    <3>3. Stuck(e)
      BY <2>1, <2>2, <2>5, <3>2, StagedIsLeft
    <3> QED BY <1>2, <3>1, <3>3
  <2>6. CASE path.stage # "torn"
    <3>1. run' = [run EXCEPT ![r].state = path,
                             ![r].pc = IF receipt[e] = None THEN "receipt" ELSE "decision"]
      BY <1>4, <1>7, <2>1, <2>4, <2>6 DEF FindState
    <3> HIDE DEF path
    <3>2. PICK l \in {"receipt", "decision"} :
             /\ run' = [run EXCEPT ![r].state = path, ![r].pc = l]
             /\ l = "receipt" <=> receipt[e] = None
      BY <3>1
    <3>3. /\ Others(r) /\ run'[r].pc = l /\ run'[r].state = path
          /\ run'[r].ev = e /\ run'[r].error = run[r].error
      <4>1. l \in RunLabels
        BY DEF RunLabels
      <4>2. \/ run' = [run EXCEPT ![r].state = path, ![r].pc = l]
            \/ run' = [run EXCEPT ![r].pc = l, ![r].state = path]
        BY <3>2
      <4>3. path \in Path
        BY <2>2
      <4> QED BY ONLY RunsInv, r \in Run, e = run[r].ev, <4>1, <4>2, <4>3, SetsState
    <3>4. WorkRow(r)'
      BY <1>1, <2>1, <2>2, <2>3, <3>2, <3>3
         DEF WorkRow, StatePending, HasState, DecisionKnown, Loaded, Binding, Timed,
             GameweekWritten, Unfinished, chain, Leads
    <3> QED BY <1>1, <3>3, <3>4, OrderGoes
  <2> QED BY <2>5, <2>6
<1> QED BY <1>6, <1>7

LEMMA CreateStateOrders ==
  ASSUME RunsInv, NEW r \in Run, NEW e \in Evidence, e = run[r].ev, e \notin overlapped,
         Order(e), CreateState(r)
  PROVE  Order(e)' /\ Blocked(r)
<1>1. /\ run[r].pc \in {"newstate", "fillstate", "movestate"} /\ Live(r)
      /\ UNCHANGED <<receipt, decision, reliability, final>>
      /\ \A q \in Run \ {r} : statefile'[q] = statefile[q]
      /\ statefile \in [Run -> StateFile \cup {None}]
  BY DEF CreateState, At, Live, RunsInv, Shapes
<1>2. /\ receipt[e] = None
      /\ \/ statefile[r] # None
         \/ \A a \in Run : run[a].ev = e => statefile[a] = None
  BY <1>1 DEF Order, WorkRow, StatePending, RunsInv, StateRow
<1>3. Sole(r, e)
  BY <1>1, SoleLive
<1>4. ASSUME Others(r), run'[r].ev = e, run'[r].error = run[r].error,
             run'[r].pc \in {"fillstate", "movestate", "receipt"},
             run'[r].pc = "receipt" => Leads(statefile', run'[r].state)
      PROVE  Order(e)' /\ Blocked(r)
  <2>1. ElseSame(r) /\ Blocked(r) /\ \A q \in Run : run'[q].ev = run[q].ev
    BY <1>1, <1>4 DEF Others, ElseSame, Blocked
  <2>2. ReceiptRow(e)' /\ DecisionsFollow(e)'
    BY <1>1, <1>2, <2>1 DEF Order, ReceiptRow, DecisionsFollow
  <2>3. WorkRow(r)'
    BY <1>1, <1>2, <1>4
       DEF WorkRow, StatePending, HasState, DecisionKnown, Loaded, Binding, Timed,
           GameweekWritten, Unfinished, Leads
  <2> QED BY <1>1, <1>2, <1>3, <2>1, <2>2, <2>3, SoleEvidence
<1>5. CASE At(r, "newstate")
  <2>1. Goto(r, "fillstate") /\ "fillstate" \in RunLabels
    BY <1>5 DEF CreateState, At, RunLabels
  <2> QED BY <1>4, <2>1, GoesOn DEF Others
<1>6. CASE At(r, "fillstate")
  <2>1. Goto(r, "movestate") /\ "movestate" \in RunLabels
    BY <1>6 DEF CreateState, At, RunLabels
  <2> QED BY <1>4, <2>1, GoesOn DEF Others
<1>7. CASE At(r, "movestate")
  <2> DEFINE path == [by |-> r, stage |-> "final"]
  <2>1. /\ statefile' = [statefile EXCEPT ![r].stage = "final"]
        /\ run' = [run EXCEPT ![r].pc = "receipt", ![r].state = path]
    BY <1>7 DEF CreateState, At
  <2>2. path \in Path /\ path.by = r /\ path.stage = "final" /\ "receipt" \in RunLabels
    BY DEF Path, Stage, RunLabels
  <2>3. statefile[r] \in StateFile
    BY <1>1, <1>7 DEF At, RunsInv, StateRow
  <2>4. statefile'[r].stage = "final" /\ statefile'[r] # None
    <3>1. /\ statefile'[r] = [statefile[r] EXCEPT !.stage = "final"]
          /\ statefile'[r] \in StateFile /\ statefile'[r].stage = "final"
      BY <1>1, <2>1, <2>3 DEF StateFile, Stage
    <3> QED BY <3>1, AbsentAssumption
  <2> HIDE DEF path
  <2>5. /\ Others(r) /\ run'[r].pc = "receipt" /\ run'[r].state = path
        /\ run'[r].ev = run[r].ev /\ run'[r].error = run[r].error
    BY <2>1, <2>2, SetsState
  <2>6. Leads(statefile', run'[r].state)
    BY <2>2, <2>4, <2>5 DEF Leads
  <2> QED BY <1>4, <2>5, <2>6
<1> QED BY <1>1, <1>5, <1>6, <1>7 DEF At

LEMMA WriteReceiptOrders ==
  ASSUME RunsInv, NEW r \in Run, NEW e \in Evidence, e = run[r].ev, e \notin overlapped,
         Order(e), WriteReceipt(r)
  PROVE  Order(e)' /\ Blocked(r)
<1>1. /\ run[r].pc = "receipt" /\ Live(r) /\ run[r].pc \in HasState
      /\ UNCHANGED <<statefile, decision, reliability, final>>
      /\ receipt \in [Evidence -> Path \cup {None}]
  BY DEF WriteReceipt, At, Live, RunsInv, Shapes, HasState
<1>2. receipt[e] = None /\ Leads(statefile, run[r].state)
  BY <1>1 DEF Order, WorkRow, StatePending
<1>3. run[r].state.by \in Run /\ run[run[r].state.by].ev = e
  BY <1>1, OwnersKnown
<1>4. Goto(r, "decision") /\ receipt' = [receipt EXCEPT ![e] = run[r].state]
  BY <1>2 DEF WriteReceipt, Conflicts
<1>5. /\ Others(r) /\ run'[r].pc = "decision" /\ run'[r].ev = e /\ run'[r].state = run[r].state
      /\ run'[r].error = run[r].error
  <2>1. "decision" \in RunLabels
    BY DEF RunLabels
  <2> QED BY <1>4, <2>1, GoesOn DEF Others
<1>6. receipt'[e] = run[r].state
  BY <1>1, <1>4
<1>7. ElseSame(r) /\ Blocked(r) /\ \A q \in Run : run'[q].ev = run[q].ev
  BY <1>1, <1>5 DEF Others, ElseSame, Blocked
<1>8. ReceiptRow(e)' /\ DecisionsFollow(e)'
  BY <1>1, <1>2, <1>3, <1>6, <1>7 DEF Order, ReceiptRow, DecisionsFollow, Leads
<1>9. WorkRow(r)'
  BY <1>5, <1>6
     DEF WorkRow, StatePending, HasState, DecisionKnown, Loaded, Binding, Timed,
         GameweekWritten, Unfinished
<1>10. statefile'[r] = statefile[r] /\ decision'[r] = decision[r] /\ reliability'[r] = reliability[r]
  BY <1>1
<1>11. Sole(r, e)
  BY <1>1, SoleLive
<1> QED BY <1>2, <1>7, <1>8, <1>9, <1>10, <1>11, SoleEvidence

(* The decisions for a state are those of its evidence. *)
LEMMA DecisionsOf ==
  ASSUME RunsInv, NEW e \in Evidence, Order(e), NEW s, receipt[e] # None, receipt[e].by = s,
         NamedState(s, e)
  PROVE  /\ \A d \in Run : d \in Decisions(s) <=> run[d].ev = e /\ decision[d] # None
         /\ ~(Cardinality(Decisions(s)) > 1) /\ \A d \in Decisions(s) : Decisions(s) = {d}
<1>1. ASSUME NEW d \in Run, decision[d] # None, decision[d].state.by = s PROVE run[d].ev = e
  <2>1. NamedState(s, run[d].ev)
    BY <1>1 DEF RunsInv, DecisionRow
  <2> QED BY <2>1 DEF NamedState
<1>2. \A d \in Run : d \in Decisions(s) <=> run[d].ev = e /\ decision[d] # None
  BY <1>1 DEF Decisions, Order, DecisionsFollow
<1>3. \A x, y \in Decisions(s) : x = y
  BY <1>2 DEF Order, OneEach, Decisions
<1> QED BY <1>2, <1>3, AtMostOne

LEMMA FindDecisionOrders ==
  ASSUME RunsInv, NEW r \in Run, NEW e \in Evidence, e = run[r].ev, e \notin overlapped,
         Order(e), FindDecision(r)
  PROVE  Order(e)' /\ Blocked(r)
<1>1. /\ run[r].pc = "decision" /\ Live(r) /\ UNCHANGED chain /\ decision[r] = None
      /\ run[r].pc \in HasState
  BY DEF FindDecision, At, Live, RunsInv, DecisionRow, BeforeDecision, HasState
<1>2. PICK s \in Run : s = run[r].state.by /\ NamedState(s, e)
  BY <1>1 DEF RunsInv, RunRow, NamedState
<1>3. receipt[e] = run[r].state /\ receipt[e] # None
  BY <1>1, AbsentAssumption DEF Order, WorkRow, HasState, RunsInv, RunRow
<1>4. /\ \A d \in Run : d \in Decisions(s) <=> run[d].ev = e /\ decision[d] # None
      /\ ~(Cardinality(Decisions(s)) > 1) /\ \A d \in Decisions(s) : Decisions(s) = {d}
  BY <1>2, <1>3, DecisionsOf
<1>5. ASSUME NEW l \in {"verify", "newdecision"}, Goto(r, l),
             l = "newdecision" => final[s] = None /\ Decisions(s) = {}
      PROVE  Order(e)' /\ Blocked(r)
  <2>1. /\ Others(r) /\ run'[r].pc = l /\ run'[r].ev = e /\ run'[r].state = run[r].state
        /\ run'[r].error = run[r].error
    <3>1. l \in RunLabels
      BY DEF RunLabels
    <3> QED BY <1>5, <3>1, GoesOn DEF Others
  <2>2. WorkRow(r)'
    BY <1>1, <1>2, <1>3, <1>4, <1>5, <2>1
       DEF WorkRow, StatePending, HasState, DecisionKnown, Loaded, Binding, Timed,
           GameweekWritten, Unfinished, chain, Others
  <2> QED BY <1>1, <2>1, <2>2, OrderGoes
<1>6. CASE final[s] # None
  <2>1. Goto(r, "verify")
    BY <1>2, <1>6 DEF FindDecision
  <2> QED BY <1>5, <2>1
<1>7. CASE final[s] = None /\ Decisions(s) = {}
  <2>1. Goto(r, "newdecision")
    BY <1>2, <1>4, <1>7 DEF FindDecision
  <2> QED BY <1>5, <1>7, <2>1
<1>8. ASSUME final[s] = None, NEW d \in Decisions(s), d = CHOOSE x \in Decisions(s) : TRUE
      PROVE  Order(e)' /\ Blocked(r)
  <2>1. d \in Run /\ run[d].ev = e /\ decision[d] # None /\ d # r /\ Decisions(s) # {}
    BY <1>1, <1>4, <1>8 DEF Decisions
  <2>2. CASE decision[d].stage = "torn"
    <3>1. Fail(r, "MISSING") /\ "MISSING" \in Errors
      BY <1>2, <1>4, <1>8, <2>1, <2>2 DEF FindDecision, Errors
    <3>2. Sole(r, e)
      BY <1>1, SoleLive
    <3>3. Stuck(e)
      BY <2>1, <2>2, <3>2, StagedIsLeft
    <3> QED BY <1>1, <3>1, <3>3, OrderFails
  <2>3. CASE decision[d].stage # "torn"
    <3>1. run' = [run EXCEPT ![r].pc = "reliability", ![r].decision = d]
      BY <1>2, <1>4, <1>8, <2>1, <2>3 DEF FindDecision
    <3>2. /\ Others(r) /\ run'[r].pc = "reliability" /\ run'[r].decision = d
          /\ run'[r].ev = e /\ run'[r].error = run[r].error /\ run'[r].state = run[r].state
      <4>1. "reliability" \in RunLabels
        BY DEF RunLabels
      <4> QED BY <2>1, <3>1, <4>1, SetsDecision
    <3>3. WorkRow(r)'
      BY <1>1, <1>2, <1>3, <1>8, <2>1, <3>2
         DEF WorkRow, StatePending, HasState, DecisionKnown, Loaded, Binding, Timed,
             GameweekWritten, Unfinished, chain
    <3> QED BY <1>1, <3>2, <3>3, OrderGoes
  <2> QED BY <2>2, <2>3
<1> QED BY <1>6, <1>7, <1>8

LEMMA CreateDecisionOrders ==
  ASSUME RunsInv, NEW r \in Run, NEW e \in Evidence, e = run[r].ev, e \notin overlapped,
         Order(e), CreateDecision(r)
  PROVE  Order(e)' /\ Blocked(r)
<1>1. /\ run[r].pc \in {"newdecision", "filldecision", "movedecision"} /\ Live(r)
      /\ UNCHANGED <<receipt, statefile, reliability, final>>
      /\ \A q \in Run \ {r} : decision'[q] = decision[q]
      /\ decision \in [Run -> Decision \cup {None}]
      /\ run[r].pc \in HasState /\ run[r].pc \in Unfinished
  BY DEF CreateDecision, At, Live, RunsInv, Shapes, HasState, Unfinished
<1>2. /\ receipt[e] = run[r].state /\ receipt[e] # None /\ run[r].state \in Path
      /\ final[run[r].state.by] = None
      /\ \/ decision[r] # None
         \/ \A a \in Run : run[a].ev = e => decision[a] = None
  BY <1>1, AbsentAssumption DEF Order, WorkRow, HasState, RunsInv, DecisionRow, RunRow
<1>3. Sole(r, e)
  BY <1>1, SoleLive
<1>4. ASSUME Others(r), run'[r].ev = e, run'[r].error = run[r].error,
             run'[r].state = run[r].state,
             run'[r].pc \in {"filldecision", "movedecision", "reliability"},
             run'[r].pc = "reliability" => run'[r].decision = r,
             decision'[r] # None, decision'[r].state = run[r].state
      PROVE  Order(e)' /\ Blocked(r)
  <2>1. ElseSame(r) /\ Blocked(r) /\ \A q \in Run : run'[q].ev = run[q].ev
    BY <1>1, <1>4 DEF Others, ElseSame, Blocked
  <2>2. ReceiptRow(e)' /\ DecisionsFollow(e)'
    <3>1. receipt[e].by \in Run /\ receipt'[e] = receipt[e]
      BY <1>1, <1>2 DEF Path
    <3>2. ReceiptRow(e)'
      BY <1>1, <2>1, <3>1 DEF Order, ReceiptRow, Leads
    <3>3. DecisionsFollow(e)'
      BY <1>1, <1>2, <1>4, <2>1, <3>1 DEF Order, DecisionsFollow
    <3> QED BY <3>2, <3>3
  <2>3. WorkRow(r)'
    BY <1>1, <1>2, <1>4
       DEF WorkRow, StatePending, HasState, DecisionKnown, Loaded, Binding, Timed,
           GameweekWritten, Unfinished
  <2> QED BY <1>1, <1>2, <1>3, <2>1, <2>2, <2>3, SoleEvidence
<1>5. CASE At(r, "newdecision")
  <2> DEFINE t == [stage |-> "torn", state |-> run[r].state]
  <2>1. Goto(r, "filldecision") /\ "filldecision" \in RunLabels /\ decision' = [decision EXCEPT ![r] = t]
    BY <1>5 DEF CreateDecision, At, RunLabels
  <2>2. t \in Decision /\ t.state = run[r].state
    BY <1>2 DEF Decision, Stage
  <2> HIDE DEF t
  <2>3. decision'[r] = t /\ t # None
    BY <1>1, <2>1, <2>2, AbsentAssumption
  <2> QED BY <1>4, <2>1, <2>2, <2>3, GoesOn DEF Others
<1>6. ASSUME NEW stage \in Stage, run[r].pc # "newdecision",
             decision' = [decision EXCEPT ![r].stage = stage]
      PROVE  decision'[r] # None /\ decision'[r].state = run[r].state
  <2>1. decision[r] \in Decision /\ decision[r].state = run[r].state
    BY <1>1, <1>6 DEF RunsInv, DecisionRow
  <2>2. decision'[r] = [decision[r] EXCEPT !.stage = stage]
    BY <1>1, <1>6
  <2>3. decision'[r] \in Decision /\ decision'[r].state = decision[r].state
    BY <2>1, <2>2 DEF Decision
  <2> QED BY <2>1, <2>3, AbsentAssumption
<1>7. CASE At(r, "filldecision")
  <2>1. /\ Goto(r, "movedecision") /\ "movedecision" \in RunLabels /\ "whole" \in Stage
        /\ decision' = [decision EXCEPT ![r].stage = "whole"] /\ run[r].pc # "newdecision"
    BY <1>7 DEF CreateDecision, At, RunLabels, Stage
  <2> QED BY <1>4, <1>6, <2>1, GoesOn DEF Others
<1>8. CASE At(r, "movedecision")
  <2>1. /\ decision' = [decision EXCEPT ![r].stage = "final"] /\ "final" \in Stage
        /\ run' = [run EXCEPT ![r].pc = "reliability", ![r].decision = r]
        /\ "reliability" \in RunLabels /\ run[r].pc # "newdecision"
    BY <1>8 DEF CreateDecision, At, RunLabels, Stage
  <2> QED BY <1>4, <1>6, <2>1, SetsDecision
<1> QED BY <1>1, <1>5, <1>7, <1>8 DEF At

(* The only decision for the state that the receipt names can be loaded unless
   it is still in its staging directory. *)
LEMMA DecisionLoads ==
  ASSUME NEW e \in Evidence, Order(e), NEW d \in Run, run[d].ev = e, decision[d] # None
  PROVE  ContextLoads(d) <=> decision[d].stage = "final"
BY DEF Order, ReceiptRow, DecisionsFollow, ContextLoads

(* The reports for the state of that decision are those of its evidence, and
   they are for that decision. *)
LEMMA ReliabilitiesOf ==
  ASSUME RunsInv, NEW e \in Evidence, Order(e), NEW d \in Run, run[d].ev = e,
         decision[d] # None, NEW s, decision[d].state.by = s
  PROVE  /\ \A q \in Run : q \in Reliabilities(s) <=> run[q].ev = e /\ reliability[q] # None
         /\ ~(Cardinality(Reliabilities(s)) > 1)
         /\ \A q \in Reliabilities(s) : /\ Reliabilities(s) = {q}
                                        /\ reliability[q].decision = d
<1>0. NamedState(s, e)
  BY DEF RunsInv, DecisionRow
<1>1. ASSUME NEW q \in Run, reliability[q] # None
      PROVE  /\ reliability[q].state = s <=> run[q].ev = e
             /\ run[q].ev = e => reliability[q].decision = d
  <2> DEFINE t == reliability[q].state
             c == reliability[q].decision
  <2>1. NamedState(t, run[q].ev) /\ NamedDecision(c, t)
    BY <1>1 DEF RunsInv, ReliabilityRow
  <2>2. c \in Run /\ decision[c] # None /\ decision[c].state.by = t /\ NamedState(t, run[c].ev)
    BY <2>1 DEF NamedDecision, RunsInv, DecisionRow
  <2>3. run[c].ev = run[q].ev
    BY <2>1, <2>2 DEF NamedState
  <2>4. t = s => run[q].ev = e
    BY <1>0, <2>1 DEF NamedState
  <2>5. run[q].ev = e => c = d
    BY <2>2, <2>3 DEF Order, OneEach
  <2> QED BY <2>2, <2>4, <2>5
<1>2. \A q \in Run : q \in Reliabilities(s) <=> run[q].ev = e /\ reliability[q] # None
  BY <1>1 DEF Reliabilities
<1>3. \A x, y \in Reliabilities(s) : x = y
  BY <1>2 DEF Order, OneEach, Reliabilities
<1>4. \A q \in Reliabilities(s) : reliability[q].decision = d
  BY <1>1, <1>2 DEF Reliabilities
<1> QED BY <1>2, <1>3, <1>4, AtMostOne

LEMMA FindReliabilityOrders ==
  ASSUME RunsInv, NEW r \in Run, NEW e \in Evidence, e = run[r].ev, e \notin overlapped,
         Order(e), FindReliability(r)
  PROVE  Order(e)' /\ Blocked(r)
<1>1. /\ run[r].pc = "reliability" /\ Live(r) /\ UNCHANGED chain /\ reliability[r] = None
      /\ run[r].pc \in HasState /\ run[r].pc \in DecisionKnown /\ run[r].pc \in Unfinished
  BY DEF FindReliability, At, Live, RunsInv, ReliabilityRow, BeforeReliability, HasState,
         DecisionKnown, Unfinished
<1>2. /\ run[r].state.by \in Run /\ receipt[e] = run[r].state /\ final[run[r].state.by] = None
      /\ decision[run[r].decision] # None /\ run[r].decision \in Run
      /\ run[run[r].decision].ev = e /\ decision[run[r].decision].state.by = run[r].state.by
  BY <1>1, OwnersKnown DEF Order, WorkRow, HasState
<1>3. PICK d \in Run, s \in Run :
         /\ s = run[r].state.by /\ d = run[r].decision /\ run[d].ev = e
         /\ decision[d] # None /\ decision[d].state.by = s
  BY <1>2
<1>4. /\ \A q \in Run : q \in Reliabilities(s) <=> run[q].ev = e /\ reliability[q] # None
      /\ ~(Cardinality(Reliabilities(s)) > 1)
      /\ \A q \in Reliabilities(s) : Reliabilities(s) = {q} /\ reliability[q].decision = d
  BY <1>3, ReliabilitiesOf
<1>5. Sole(r, e)
  BY <1>1, SoleLive
<1>6. CASE ~ContextLoads(d)
  <2>1. Fail(r, "STAGE_FAILED") /\ "STAGE_FAILED" \in Errors
    BY <1>3, <1>6 DEF FindReliability, Errors
  <2>2. decision[d].stage # "final"
    BY <1>3, <1>6, DecisionLoads
  <2>3. d # r
    BY <1>1, <1>3, <2>2 DEF RunsInv, DecisionRow
  <2>4. Stuck(e)
    BY <1>3, <1>5, <2>2, <2>3, StagedIsLeft
  <2> QED BY <1>1, <2>1, <2>4, OrderFails
<1>7. CASE ContextLoads(d) /\ Reliabilities(s) = {}
  <2>1. Goto(r, "newreliability") /\ "newreliability" \in RunLabels
    BY <1>3, <1>4, <1>7 DEF FindReliability, RunLabels
  <2>2. /\ Others(r) /\ run'[r].pc = "newreliability" /\ run'[r].ev = e
        /\ run'[r].state = run[r].state /\ run'[r].decision = run[r].decision
        /\ run'[r].error = run[r].error
    BY <2>1, GoesOn DEF Others
  <2>3. WorkRow(r)'
    BY <1>1, <1>2, <1>4, <1>7, <2>2
       DEF WorkRow, StatePending, HasState, DecisionKnown, Loaded, Binding, Timed,
           GameweekWritten, Unfinished, chain, Others
  <2> QED BY <1>1, <2>2, <2>3, OrderGoes
<1>8. ASSUME ContextLoads(d), NEW q \in Reliabilities(s),
             q = CHOOSE x \in Reliabilities(s) : TRUE
      PROVE  Order(e)' /\ Blocked(r)
  <2>1. /\ q \in Run /\ run[q].ev = e /\ reliability[q] # None /\ q # r
        /\ Reliabilities(s) # {} /\ reliability[q].decision = d
    BY <1>1, <1>4, <1>8 DEF Reliabilities
  <2>2. CASE reliability[q].stage = "torn"
    <3>1. Fail(r, "STAGE_FAILED") /\ "STAGE_FAILED" \in Errors
      BY <1>3, <1>4, <1>8, <2>1, <2>2 DEF FindReliability, Errors, Builds
    <3>2. Stuck(e)
      BY <1>5, <2>1, <2>2, StagedIsLeft
    <3> QED BY <1>1, <3>1, <3>2, OrderFails
  <2>3. CASE reliability[q].stage # "torn"
    <3> DEFINE path == [by |-> q, stage |-> reliability[q].stage]
    <3>1. Builds(d, q)
      BY <1>8, <2>1, <2>3 DEF Builds
    <3>2. run' = [run EXCEPT ![r].pc = "gameweek", ![r].reliability = path]
      BY <1>3, <1>4, <1>8, <2>1, <3>1 DEF FindReliability
    <3>3. path \in Path /\ path.by = q /\ path.stage = reliability[q].stage
      BY <2>1 DEF RunsInv, Shapes, Reliability, Path
    <3> HIDE DEF path
    <3>4. "gameweek" \in RunLabels
      BY DEF RunLabels
    <3>5. /\ Others(r) /\ run'[r].pc = "gameweek" /\ run'[r].reliability = path
          /\ run'[r].ev = e /\ run'[r].error = run[r].error
          /\ run'[r].state = run[r].state /\ run'[r].decision = run[r].decision
      BY <3>2, <3>3, <3>4, SetsReliability
    <3>6. WorkRow(r)'
      BY <1>1, <1>2, <2>1, <3>3, <3>5
         DEF WorkRow, StatePending, HasState, DecisionKnown, Loaded, Binding, Timed,
             GameweekWritten, Unfinished, chain, Leads
    <3> QED BY <1>1, <3>5, <3>6, OrderGoes
  <2> QED BY <2>2, <2>3
<1> QED BY <1>6, <1>7, <1>8

(* A stage refuses the data: nothing is written. *)
LEMMA StageRefusesOrders ==
  ASSUME RunsInv, NEW r \in Run, NEW e \in Evidence, e = run[r].ev, e \notin overlapped,
         Order(e), StageRefuses(r)
  PROVE  Order(e)' /\ Blocked(r)
<1>1. /\ run[r].pc \in {"newdecision", "reliability", "newreliability", "gameweek"}
      /\ UNCHANGED chain /\ e \notin Computable
  BY DEF StageRefuses, At, RunnerIdle
<1>2. Live(r)
  BY <1>1 DEF Live
<1>3. PICK why \in Refusals : why \in Errors /\ Fail(r, why)
  BY DEF StageRefuses, Errors, Refusals
<1> QED BY <1>1, <1>2, <1>3, OrderFails

LEMMA CreateReliabilityOrders ==
  ASSUME RunsInv, NEW r \in Run, NEW e \in Evidence, e = run[r].ev, e \notin overlapped,
         Order(e), CreateReliability(r)
  PROVE  Order(e)' /\ Blocked(r)
<1>1. /\ run[r].pc \in {"newreliability", "fillreliability", "movereliability"} /\ Live(r)
      /\ UNCHANGED <<receipt, statefile, decision, final>>
      /\ \A q \in Run \ {r} : reliability'[q] = reliability[q]
      /\ reliability \in [Run -> Reliability \cup {None}]
      /\ run[r].pc \in HasState /\ run[r].pc \in DecisionKnown /\ run[r].pc \in Loaded
      /\ run[r].pc \in Unfinished
  BY DEF CreateReliability, At, Live, RunsInv, Shapes, HasState, DecisionKnown, Loaded, Unfinished
<1>2. /\ receipt[e] = run[r].state /\ final[run[r].state.by] = None
      /\ decision[run[r].decision] # None /\ run[r].decision \in Run
      /\ run[run[r].decision].ev = e
      /\ \/ reliability[r] # None
         \/ \A a \in Run : run[a].ev = e => reliability[a] = None
  BY <1>1, OwnersKnown DEF Order, WorkRow, HasState, RunsInv, ReliabilityRow
<1>3. Sole(r, e)
  BY <1>1, SoleLive
<1>4. ASSUME Others(r), run'[r].ev = e, run'[r].error = run[r].error,
             run'[r].state = run[r].state, run'[r].decision = run[r].decision,
             run'[r].pc \in {"fillreliability", "movereliability", "gameweek"},
             run'[r].pc = "gameweek" => Leads(reliability', run'[r].reliability)
      PROVE  Order(e)' /\ Blocked(r)
  <2>1. ElseSame(r) /\ Blocked(r) /\ \A q \in Run : run'[q].ev = run[q].ev
    BY <1>1, <1>4 DEF Others, ElseSame, Blocked
  <2>2. ReceiptRow(e)' /\ DecisionsFollow(e)'
    <3>1. receipt[e] # None => receipt[e].by \in Run
      BY DEF RunsInv, Shapes, Path
    <3> QED BY <1>1, <2>1, <3>1 DEF Order, ReceiptRow, DecisionsFollow, Leads
  <2>3. WorkRow(r)'
    BY <1>1, <1>2, <1>4
       DEF WorkRow, StatePending, HasState, DecisionKnown, Loaded, Binding, Timed,
           GameweekWritten, Unfinished, Leads
  <2> QED BY <1>1, <1>2, <1>3, <2>1, <2>2, <2>3, SoleEvidence
<1>5. CASE At(r, "newreliability")
  <2>1. Goto(r, "fillreliability") /\ "fillreliability" \in RunLabels
    BY <1>5 DEF CreateReliability, At, RunLabels
  <2> QED BY <1>4, <2>1, GoesOn DEF Others
<1>6. CASE At(r, "fillreliability")
  <2>1. Goto(r, "movereliability") /\ "movereliability" \in RunLabels
    BY <1>6 DEF CreateReliability, At, RunLabels
  <2> QED BY <1>4, <2>1, GoesOn DEF Others
<1>7. CASE At(r, "movereliability")
  <2> DEFINE path == [by |-> r, stage |-> "final"]
  <2>1. ContextLoads(run[r].decision)
    <3>1. decision[run[r].decision].stage = "final"
      BY <1>1 DEF RunsInv, RunRow, NamedDecision
    <3> QED BY <1>2, <3>1, DecisionLoads
  <2>2. /\ reliability' = [reliability EXCEPT ![r].stage = "final"]
        /\ run' = [run EXCEPT ![r].pc = "gameweek", ![r].reliability = path]
    BY <1>7, <2>1 DEF CreateReliability, At
  <2>3. path \in Path /\ path.by = r /\ path.stage = "final" /\ "gameweek" \in RunLabels
    BY DEF Path, Stage, RunLabels
  <2>4. reliability[r] \in Reliability
    BY <1>1, <1>7 DEF At, RunsInv, ReliabilityRow
  <2>5. reliability'[r].stage = "final" /\ reliability'[r] # None
    <3>1. reliability'[r] = [reliability[r] EXCEPT !.stage = "final"]
      BY <1>1, <2>2
    <3>2. reliability'[r] \in Reliability /\ reliability'[r].stage = "final"
      BY <2>4, <3>1 DEF Reliability, Stage
    <3> QED BY <3>2, AbsentAssumption
  <2> HIDE DEF path
  <2>6. /\ Others(r) /\ run'[r].pc = "gameweek" /\ run'[r].reliability = path
        /\ run'[r].ev = run[r].ev /\ run'[r].error = run[r].error
        /\ run'[r].state = run[r].state /\ run'[r].decision = run[r].decision
    BY <2>2, <2>3, SetsReliability
  <2>7. Leads(reliability', run'[r].reliability)
    BY <2>3, <2>5, <2>6 DEF Leads
  <2> QED BY <1>4, <2>6, <2>7
<1> QED BY <1>1, <1>5, <1>6, <1>7 DEF At

(* What a run has bound that is about to publish the decision. *)
LEMMA Bound ==
  ASSUME RunsInv, NEW r \in Run, NEW e \in Evidence, e = run[r].ev, Order(e),
         run[r].pc \in Binding
  PROVE  /\ run[r].state.by \in Run /\ NamedState(run[r].state.by, e)
         /\ receipt[e] = run[r].state
         /\ run[r].decision \in Run /\ run[run[r].decision].ev = e
         /\ NamedDecision(run[r].decision, run[r].state.by)
         /\ run[r].pc # "unlinkfinal" => final[run[r].state.by] = None
<1>1. /\ run[r].pc \in HasState /\ run[r].pc \in DecisionKnown /\ run[r].pc \in Loaded
      /\ run[r].pc # "unlinkfinal" => run[r].pc \in Unfinished
  BY DEF HasState, DecisionKnown, Loaded, Unfinished
<1>2. RunRow(r) /\ WorkRow(r)
  BY DEF RunsInv, Order
<1>3. NamedState(run[r].state.by, e) /\ NamedDecision(run[r].decision, run[r].state.by)
  BY <1>1, <1>2 DEF RunRow
<1>4. receipt[e] = run[r].state
  BY <1>1, <1>2 DEF WorkRow, HasState, Binding, Timed, GameweekWritten
<1>5. run[run[r].decision].ev = e
  BY <1>1, <1>3, OwnersKnown DEF NamedDecision
<1> QED BY <1>1, <1>2, <1>3, <1>4, <1>5 DEF WorkRow, NamedState, NamedDecision

(* The gameweek decision that is there has the decision and the report that
   any later run finds. *)
LEMMA GameweekAgrees ==
  ASSUME RunsInv, NEW r \in Run, NEW e \in Evidence, e = run[r].ev, e \notin overlapped,
         Order(e), run[r].pc \in {"gameweek", "assemble"}, gameweek[run[r].state.by] # None
  PROVE  gameweek[run[r].state.by] = Built(r)
<1>1. run[r].pc \in Binding /\ Live(r)
  BY DEF Binding, Timed, Live
<1>2. /\ run[r].state.by \in Run /\ NamedState(run[r].state.by, e)
      /\ run[r].decision \in Run /\ run[run[r].decision].ev = e
      /\ NamedDecision(run[r].decision, run[r].state.by)
  BY <1>1, Bound
<1>3. PICK s \in Run : s = run[r].state.by /\ run[s].ev = e
  BY <1>2 DEF NamedState
<1>4. PICK g \in Gameweek : /\ g = gameweek[s] /\ NamedDecision(g.decision, s)
                            /\ NamedReliability(g.reliability, g.decision, s, e)
  BY <1>3 DEF RunsInv, Shapes, GameweekRow
<1>5. run[g.decision].ev = e
  <2>1. NamedState(s, run[g.decision].ev)
    BY <1>4 DEF RunsInv, DecisionRow, NamedDecision
  <2> QED BY <1>3, <2>1 DEF NamedState
<1>6. g.decision = run[r].decision
  BY <1>2, <1>4, <1>5 DEF Order, OneEach, NamedDecision
<1>7. run[g.reliability].ev = e /\ reliability[g.reliability] # None /\ g.reliability \in Run
  <2>1. /\ g.reliability \in Run /\ reliability[g.reliability] # None
        /\ reliability[g.reliability].state = s
    BY <1>4 DEF NamedReliability
  <2>2. NamedState(s, run[g.reliability].ev)
    BY <2>1 DEF RunsInv, ReliabilityRow
  <2> QED BY <1>3, <2>1, <2>2 DEF NamedState
<1>8. /\ run[r].reliability.by \in Run /\ reliability[run[r].reliability.by] # None
      /\ run[run[r].reliability.by].ev = e
  <2>1. NamedReliability(run[r].reliability.by, run[r].decision, s, e)
    BY <1>1, <1>3 DEF RunsInv, RunRow
  <2>2. /\ run[r].reliability.by \in Run /\ reliability[run[r].reliability.by] # None
    BY <2>1 DEF NamedReliability
  <2> QED BY <1>1, <2>2, OwnersKnown
<1>9. g.reliability = run[r].reliability.by
  BY <1>7, <1>8 DEF Order, OneEach
<1> QED BY <1>3, <1>4, <1>6, <1>9 DEF Gameweek, Built

LEMMA FinalizeOrders ==
  ASSUME RunsInv, NEW r \in Run, NEW e \in Evidence, e = run[r].ev, e \notin overlapped,
         Order(e), Finalize(r)
  PROVE  Order(e)' /\ Blocked(r)
<1>1. run[r].pc = "gameweek" /\ Live(r) /\ UNCHANGED chain /\ run[r].pc \in Binding
  BY DEF Finalize, At, Live, Binding
<1>2. Leads(reliability, run[r].reliability) /\ final[run[r].state.by] = None
  BY <1>1, Bound DEF Order, WorkRow
<1>3. receipt[e] = run[r].state /\ decision[run[r].decision] # None
  BY <1>1, Bound DEF NamedDecision
<1>4. ~Conflicts(gameweek[run[r].state.by], Built(r))
  BY <1>1, GameweekAgrees DEF Conflicts
<1>5. CASE ~BeforeDeadline
  <2>1. Fail(r, "DEADLINE") /\ "DEADLINE" \in Errors /\ "DEADLINE" \notin Blocking
    BY <1>4, <1>5 DEF Finalize, Errors, Blocking
  <2> QED BY <1>1, <2>1, OrderFails
<1>6. CASE BeforeDeadline
  <2>1. run' = [run EXCEPT ![r].pc = "assemble", ![r].at = now] /\ "assemble" \in RunLabels
    BY <1>2, <1>4, <1>6 DEF Finalize, RunLabels
  <2>2. /\ Others(r) /\ run'[r].pc = "assemble" /\ run'[r].ev = e /\ run'[r].state = run[r].state
        /\ run'[r].decision = run[r].decision /\ run'[r].error = run[r].error
    BY <2>1, SetsTime
  <2>3. WorkRow(r)'
    BY <1>1, <1>2, <1>3, <2>2
       DEF WorkRow, StatePending, HasState, DecisionKnown, Loaded, Binding, Timed,
           GameweekWritten, Unfinished, chain
  <2> QED BY <1>1, <2>2, <2>3, OrderGoes
<1> QED BY <1>5, <1>6

(* A step between the decision and the end of the run. *)
LEMMA Publishes ==
  ASSUME RunsInv, NEW r \in Run, NEW e \in Evidence, e = run[r].ev, e \notin overlapped,
         Order(e), run[r].pc \in Binding, NEW l \in Timed \cup {"verify"}, Goto(r, l),
         UNCHANGED <<statefile, decision, reliability, receipt>>,
         l \notin {"unlinkfinal", "verify"} => run[r].pc # "unlinkfinal" /\ final' = final
  PROVE  Order(e)' /\ Blocked(r)
<1>1. Live(r)
  BY DEF Live, Binding, Timed, GameweekWritten
<1>2. receipt[e] = run[r].state /\ decision[run[r].decision] # None
  BY Bound DEF NamedDecision
<1>3. l \notin {"unlinkfinal", "verify"} => final'[run[r].state.by] = None
  BY Bound
<1>4. /\ Others(r) /\ run'[r].pc = l /\ run'[r].ev = e /\ run'[r].state = run[r].state
      /\ run'[r].decision = run[r].decision /\ run'[r].error = run[r].error
  <2>1. l \in RunLabels
    BY DEF RunLabels, Timed, GameweekWritten
  <2> QED BY <2>1, GoesOn DEF Others
<1>5. ElseSame(r) /\ Blocked(r)
  BY <1>4 DEF Others, ElseSame, Blocked
<1>6. WorkRow(r)'
  BY <1>2, <1>3, <1>4
     DEF WorkRow, StatePending, HasState, DecisionKnown, Loaded, Binding, Timed,
         GameweekWritten, Unfinished
<1> QED BY <1>1, <1>4, <1>5, <1>6, OrderMove

LEMMA WriteGameweekOrders ==
  ASSUME RunsInv, NEW r \in Run, NEW e \in Evidence, e = run[r].ev, e \notin overlapped,
         Order(e), WriteGameweek(r)
  PROVE  Order(e)' /\ Blocked(r)
<1>1. /\ run[r].pc = "assemble" /\ run[r].pc \in Binding
      /\ UNCHANGED <<statefile, decision, reliability, receipt, final>>
  BY DEF WriteGameweek, At, Binding, Timed
<1>2. PICK l \in {"unlinkgameweek", "final"} : Goto(r, l)
  BY <1>1, GameweekAgrees DEF WriteGameweek
<1>3. l \in Timed \cup {"verify"}
  BY DEF Timed, GameweekWritten
<1> QED BY <1>1, <1>2, <1>3, Publishes

LEMMA WriteFinalOrders ==
  ASSUME RunsInv, NEW r \in Run, NEW e \in Evidence, e = run[r].ev, e \notin overlapped,
         Order(e), WriteFinal(r)
  PROVE  Order(e)' /\ Blocked(r)
<1>1. /\ run[r].pc = "final" /\ run[r].pc \in Binding
      /\ UNCHANGED <<statefile, decision, reliability, receipt>>
  BY DEF WriteFinal, At, Binding, Timed, GameweekWritten
<1>2. Goto(r, "unlinkfinal")
  <2>1. final[run[r].state.by] = None
    BY <1>1, Bound
  <2>2. Manifest(r) # None
    BY <1>1, BuiltIsFile
  <2> QED BY <2>1, <2>2 DEF WriteFinal
<1>3. "unlinkfinal" \in Timed
  BY DEF Timed, GameweekWritten
<1> QED BY <1>1, <1>2, <1>3, Publishes

LEMMA UnlinkOrders ==
  ASSUME RunsInv, NEW r \in Run, NEW e \in Evidence, e = run[r].ev, e \notin overlapped,
         Order(e), Unlink(r)
  PROVE  Order(e)' /\ Blocked(r)
<1>1. /\ run[r].pc \in {"unlinkgameweek", "unlinkfinal"} /\ run[r].pc \in Binding
      /\ UNCHANGED <<statefile, decision, reliability, receipt, final>>
  BY DEF Unlink, At, Binding, Timed, GameweekWritten
<1>2. PICK l \in {"final", "verify"} : Goto(r, l) /\ (l = "final" => run[r].pc = "unlinkgameweek")
  BY DEF Unlink, At
<1>3. l \in Timed \cup {"verify"}
  BY DEF Timed, GameweekWritten
<1> QED BY <1>1, <1>2, <1>3, Publishes

(* What makes a completed decision readable, and its state the only one. *)
LEMMA CompletedHolds ==
  ASSUME RunsInv, NEW e \in Evidence, e \notin overlapped, Order(e),
         NEW s \in Run, run[s].ev = e, final[s] # None
  PROVE  States(e) = {s} /\ CompletedChainValid(s)
<1> DEFINE f == final[s]
<1>1. /\ f \in Final /\ f.decision \in Run /\ f.reliability \in Run
      /\ gameweek[s] = [decision |-> f.decision, reliability |-> f.reliability]
  BY DEF RunsInv, Shapes, FinalRow, Final
<1>2. gameweek[s] # None /\ gameweek[s].decision = f.decision /\ gameweek[s].reliability = f.reliability
  <2>1. gameweek[s] \in Gameweek
    BY <1>1 DEF Gameweek
  <2> QED BY <1>1, <2>1, AbsentAssumption
<1>3. PICK d \in Run, q \in Run : d = f.decision /\ q = f.reliability
  BY <1>1
<1>4. NamedState(s, e) /\ NamedDecision(d, s) /\ NamedReliability(q, d, s, e)
  BY <1>2, <1>3 DEF RunsInv, GameweekRow
<1>5. /\ decision[d] # None /\ decision[d].stage = "final" /\ decision[d].state.by = s
      /\ run[d].ev = e
  <2>1. decision[d] # None /\ decision[d].state.by = s /\ decision[d].stage = "final"
    BY <1>4 DEF NamedDecision
  <2>2. NamedState(s, run[d].ev)
    BY <2>1 DEF RunsInv, DecisionRow
  <2> QED BY <2>1, <2>2 DEF NamedState
<1>6. /\ reliability[q] # None /\ reliability[q].stage # "torn"
      /\ reliability[q].decision = d /\ reliability[q].state = s
  BY <1>4 DEF NamedReliability
<1>7. ContextLoads(d)
  BY <1>5, DecisionLoads
<1>8. Decisions(s) = {d}
  <2>1. receipt[e] # None /\ receipt[e].by = s
    BY <1>5 DEF Order, DecisionsFollow
  <2> QED BY <1>4, <1>5, <2>1, DecisionsOf
<1>9. Reliabilities(s) = {q}
  <2>1. q \in Reliabilities(s)
    BY <1>6 DEF Reliabilities
  <2> QED BY <1>5, <2>1, ReliabilitiesOf
<1>10. States(e) = {s}
  <2>1. statefile[s] # None
    BY <1>4 DEF NamedState
  <2>2. \A x \in Run : x \in States(e) <=> run[x].ev = e /\ statefile[x] # None
    BY DEF RunsInv, StateRow, States
  <2>3. \A x \in States(e) : x = s
    BY <2>1, <2>2 DEF Order, OneEach, States
  <2> QED BY <2>1, <2>2, <2>3
<1> QED BY <1>1, <1>3, <1>6, <1>7, <1>8, <1>9, <1>10 DEF CompletedChainValid, Builds

LEMMA VerifyCompletedOrders ==
  ASSUME RunsInv, NEW r \in Run, NEW e \in Evidence, e = run[r].ev, e \notin overlapped,
         Order(e), VerifyCompleted(r)
  PROVE  Order(e)' /\ Blocked(r)
<1>1. /\ run[r].pc = "verify" /\ Live(r) /\ UNCHANGED chain /\ run[r].pc \in HasState
      /\ run[r].pc \in Completing
  BY DEF VerifyCompleted, At, Live, HasState, Completing
<1>2. receipt[e] = run[r].state /\ receipt[e] # None
  BY <1>1, AbsentAssumption DEF Order, WorkRow, HasState, RunsInv, RunRow
<1>3. run[r].state.by \in Run /\ run[run[r].state.by].ev = e /\ final[run[r].state.by] # None
  BY <1>1, OwnersKnown DEF RunsInv, RunRow
<1>4. CompletedChainValid(run[r].state.by)
  BY <1>3, CompletedHolds
<1>5. Leads(statefile, run[r].state)
  BY <1>2 DEF Order, ReceiptRow
<1>6. Goto(r, "done") /\ "done" \in RunLabels
  BY <1>4, <1>5 DEF VerifyCompleted, RunLabels
<1>7. /\ Others(r) /\ run'[r].pc = "done" /\ run'[r].ev = e /\ run'[r].state = run[r].state
      /\ run'[r].error = run[r].error
  BY <1>6, GoesOn DEF Others
<1>8. WorkRow(r)'
  BY <1>1, <1>2, <1>7
     DEF WorkRow, StatePending, HasState, DecisionKnown, Loaded, Binding, Timed,
         GameweekWritten, Unfinished, chain
<1> QED BY <1>1, <1>7, <1>8, OrderGoes

LEMMA StageFailsOrders ==
  ASSUME RunsInv, NEW r \in Run, NEW e \in Evidence, e = run[r].ev, e \notin overlapped,
         Order(e), StageFails(r)
  PROVE  Order(e)' /\ Blocked(r)
<1>1. Fail(r, "STORAGE") /\ "STORAGE" \in Errors /\ "STORAGE" \notin Blocking
  BY DEF StageFails, Errors, Blocking
<1>2. Stops(r) /\ run'[r].pc = "failed" /\ run'[r].error = "STORAGE"
  BY <1>1, RunFails
<1>3. /\ run[r].pc \in Writing /\ Live(r) /\ receipt' = receipt
      /\ statefile' = statefile \/ receipt[e] = None
      /\ \A q \in Run \ {r} : /\ statefile'[q] = statefile[q] /\ decision'[q] = decision[q]
                              /\ reliability'[q] = reliability[q]
      /\ statefile'[r] = None \/ statefile'[r] = statefile[r]
      /\ decision'[r] = None \/ decision'[r] = decision[r]
      /\ reliability'[r] = None \/ reliability'[r] = reliability[r]
  BY DEF StageFails, Writing, Live, Order, WorkRow, StatePending, RunsInv, Shapes
<1>4. ElseSame(r) /\ \A q \in Run : run'[q].ev = run[q].ev
  BY <1>2, <1>3 DEF Stops, ElseSame
<1>5. ReceiptRow(e)' /\ DecisionsFollow(e)'
  <2>1. receipt[e] # None => receipt[e].by \in Run
    BY DEF RunsInv, Shapes, Path
  <2>2. ReceiptRow(e)'
    BY <1>3, <1>4, <2>1 DEF Order, ReceiptRow, Leads
  <2>3. DecisionsFollow(e)'
    BY <1>3, <1>4 DEF Order, DecisionsFollow
  <2> QED BY <2>2, <2>3
<1>6. WorkRow(r)' /\ Blocked(r)
  BY <1>1, <1>2, StoppedWork DEF Blocked
<1>7. Sole(r, e)
  BY <1>3, SoleLive
<1>8. /\ statefile'[r] = None \/ statefile[r] # None
      /\ decision'[r] = None \/ decision[r] # None
      /\ reliability'[r] = None \/ reliability[r] # None
  BY <1>3
<1> QED BY <1>3, <1>4, <1>5, <1>6, <1>7, <1>8, SoleEvidence

LEMMA KilledOrders ==
  ASSUME RunsInv, NEW r \in Run, Live(r), NEW e \in Evidence, e = run[r].ev,
         e \notin overlapped, Order(e), UNCHANGED chain,
         run' = [run EXCEPT ![r] = Ended(r, "dead")]
  PROVE  Order(e)' /\ Blocked(r)
<1>1. Stops(r) /\ run'[r].pc = "dead" /\ run'[r].error = None
  BY RunKilled
<1>2. ElseSame(r) /\ run'[r].ev = e
  BY <1>1 DEF Stops, ElseSame, chain
<1>3. WorkRow(r)'
  BY <1>1, StoppedWork
<1>4. None \notin Blocking
  BY AbsentAssumption DEF Blocking, Errors
<1> QED BY <1>1, <1>2, <1>3, <1>4, OrderMove DEF chain, Blocked

LEMMA RunStepOrders ==
  ASSUME RunsInv, NEW r \in Run, NEW e \in Evidence, e = run[r].ev, e \notin overlapped,
         Order(e), ResumeStep(r) \/ StageFails(r) \/ KillRun(r)
  PROVE  Order(e)' /\ Blocked(r)
<1>1. CASE ResumeStep(r)
  BY <1>1, FindStateOrders, CreateStateOrders, WriteReceiptOrders, FindDecisionOrders,
     CreateDecisionOrders, FindReliabilityOrders, CreateReliabilityOrders, StageRefusesOrders, FinalizeOrders,
     WriteGameweekOrders, WriteFinalOrders, UnlinkOrders, VerifyCompletedOrders
     DEF ResumeStep
<1>2. CASE StageFails(r)
  BY <1>2, StageFailsOrders
<1>3. CASE KillRun(r)
  BY <1>3, KilledOrders DEF KillRun
<1> QED BY <1>1, <1>2, <1>3

(* What the steps of a run have to do with other evidence. *)
Apart(r) ==
  /\ ElseSame(r) /\ overlapped' = overlapped
  /\ run[r].ev \in Evidence /\ run'[r].ev = run[r].ev
  /\ \A e \in Evidence \ {run[r].ev} : receipt'[e] = receipt[e]
  /\ \A s \in Run : run[s].ev # run[r].ev => final'[s] = final[s]

LEMMA RunStepsApart ==
  ASSUME RunsInv, NEW r \in Run, ResumeStep(r) \/ StageFails(r) \/ KillRun(r)
  PROVE  Apart(r)
<1>1. /\ Others(r) /\ overlapped' = overlapped
      /\ \A q \in Run \ {r} : /\ statefile'[q] = statefile[q] /\ decision'[q] = decision[q]
                              /\ reliability'[q] = reliability[q]
      /\ run[r].pc # "idle"
  <2>1. Others(r)
    BY RunTouched DEF Others
  <2>2. CASE ResumeStep(r)
    BY <2>1, <2>2
       DEF ResumeStep, FindState, CreateState, WriteReceipt, FindDecision, CreateDecision,
           FindReliability, CreateReliability, StageRefuses, Finalize, WriteGameweek, WriteFinal, Unlink,
           VerifyCompleted, At, RunnerIdle, chain, RunsInv, Shapes
  <2>3. CASE StageFails(r)
    BY <2>1, <2>3 DEF StageFails, RunsInv, Shapes
  <2>4. CASE KillRun(r)
    BY <2>1, <2>4 DEF KillRun, Live, chain
  <2> QED BY <2>2, <2>3, <2>4
<1>2. run[r].ev \in Evidence
  BY <1>1 DEF RunsInv, RunRow
<1>3. run'[r].ev = run[r].ev
  BY <1>1, RunStepKeeps DEF Progress, Onward
<1>4. \A e \in Evidence \ {run[r].ev} : receipt'[e] = receipt[e]
  BY DEF ResumeStep, FindState, CreateState, WriteReceipt, FindDecision, CreateDecision,
         FindReliability, CreateReliability, StageRefuses, Finalize, WriteGameweek, WriteFinal, Unlink,
         VerifyCompleted, StageFails, KillRun, chain, RunsInv, Shapes
<1>5. ASSUME NEW s \in Run, run[s].ev # run[r].ev PROVE final'[s] = final[s]
  <2>1. CASE WriteFinal(r)
    <3>1. run[r].pc \in HasState
      BY <2>1 DEF WriteFinal, At, HasState, DecisionKnown, Loaded, Binding, Timed, GameweekWritten
    <3>2. s # run[r].state.by
      BY <1>5, <3>1, OwnersKnown
    <3> QED BY <2>1, <3>2 DEF WriteFinal, RunsInv, Shapes
  <2>2. CASE ~WriteFinal(r)
    BY <2>2 DEF ResumeStep, FindState, CreateState, WriteReceipt, FindDecision, CreateDecision,
         FindReliability, CreateReliability, StageRefuses, Finalize, WriteGameweek, Unlink,
         VerifyCompleted, StageFails, KillRun, chain
  <2> QED BY <2>1, <2>2
<1> QED BY <1>1, <1>2, <1>3, <1>4, <1>5 DEF Apart, ElseSame, Others

(* What blocked a run goes on blocking it. *)
LEMMA StuckStays ==
  ASSUME NEW r \in Run, ElseSame(r), NEW e, Stuck(e), run[r].pc # "dead"
  PROVE  Stuck(e)'
<1>1. PICK q \in Run : run[q].ev = e /\ LeftStaged(q)
  BY DEF Stuck
<1>2. q # r
  BY <1>1 DEF LeftStaged
<1> QED BY <1>1, <1>2 DEF ElseSame, Stuck, LeftStaged

LEMMA RunStepKeepsOrder ==
  ASSUME RunsInv, OrderInv, prep' = prep, NEW r \in Run, Apart(r), run[r].pc # "dead",
         NEW own, own = run[r].ev, own \notin overlapped /\ Order(own) => Order(own)' /\ Blocked(r)
  PROVE  OrderInv'
<1>1. ASSUME NEW e \in Evidence \ overlapped' PROVE Order(e)'
  <2>1. Order(e) /\ e \notin overlapped
    BY <1>1 DEF OrderInv, Apart
  <2>2. CASE e = run[r].ev
    <3>1. e = own
      BY <2>2
    <3>2. own \notin overlapped /\ Order(own) => Order(own)'
      OBVIOUS
    <3> QED BY <2>1, <3>1, <3>2
  <2>3. CASE e # run[r].ev
    BY <1>1, <2>1, <2>3, OtherEvidence DEF Apart
  <2> QED BY <2>2, <2>3
<1>2. Unsound => Unsound'
  BY DEF Unsound, PreparationValid, DirectoryValid
<1>3. ASSUME NEW e, Stuck(e) PROVE Stuck(e)'
  BY <1>3, StuckStays DEF Apart
<1>4. ASSUME NEW q \in Run PROVE BlockedRow(q)'
  <2>0. BlockedRow(q) /\ run'[q].ev = run[q].ev
    BY <1>4 DEF OrderInv, Apart, ElseSame
  <2>1. CASE q # r
    <3>1. run'[q] = run[q] /\ overlapped' = overlapped
      BY <2>1 DEF Apart, ElseSame
    <3>2. Stuck(run[q].ev) => \E p \in Run : run'[p].ev = run'[q].ev /\ LeftStaged(p)'
      BY <1>3, <2>0 DEF Stuck
    <3> QED BY <1>2, <2>0, <3>1, <3>2 DEF BlockedRow, Stuck, Refused
  <2>2. CASE q = r
    <3>1. overlapped' = overlapped /\ run[r].ev \in Evidence
      BY DEF Apart
    <3>2. run[r].ev \notin overlapped => Blocked(r)
      BY <3>1 DEF OrderInv
    <3>3. Stuck(run[q].ev) => \E p \in Run : run'[p].ev = run'[q].ev /\ LeftStaged(p)'
      BY <1>3, <2>0 DEF Stuck
    <3> QED BY <1>2, <2>0, <2>2, <3>1, <3>2, <3>3 DEF BlockedRow, Stuck, Blocked, Refused
  <2> QED BY <2>1, <2>2
<1> QED BY <1>1, <1>4 DEF OrderInv

LEMMA StartResumeKeepsOrder ==
  ASSUME RunsInv, OrderInv, NEW r \in Run, NEW e \in Evidence, StartResume(r, e)
  PROVE  OrderInv'
<1> DEFINE sound == PreparationValid /\ BeforeDeadline /\ e \in Supported
           l == IF sound THEN "state" ELSE "failed"
           why == CASE ~PreparationValid -> "HASH_MISMATCH"
                    [] PreparationValid /\ ~BeforeDeadline -> "DEADLINE"
                    [] PreparationValid /\ BeforeDeadline /\ e \notin Supported -> "INVALID_EVIDENCE"
                    [] OTHER -> None
           t == [IdleRun EXCEPT !.ev = e, !.pc = l, !.error = why]
<1>1. run[r].pc = "idle" /\ run[r].ev = None /\ prep # None /\ UNCHANGED <<prep, chain>>
  BY DEF StartResume, At, Handed, RunsInv, RunRow
<1>2. overlapped' = IF \E q \in Run \ {r} : Live(q) /\ run[q].ev = e
                      THEN overlapped \cup {e} ELSE overlapped
  BY DEF StartResume
<1>3. /\ run'[r].ev = e /\ run'[r].pc \in {"state", "failed"} /\ Others(r)
  BY StartResumeKeeps DEF Others
<1>4. run'[r].error \in Blocking => ~PreparationValid
  <2>1. run' = [run EXCEPT ![r] = t]
    BY DEF StartResume
  <2>2. t.error = why
    BY DEF IdleRun
  <2>3. why \in Blocking => ~PreparationValid
    BY AbsentAssumption DEF Blocking, Errors
  <2> HIDE DEF t, why
  <2> QED BY <2>1, <2>2, <2>3 DEF RunsInv, Shapes
<1> HIDE DEF sound, l, why, t
<1>5. /\ ElseSame(r) /\ UNCHANGED <<statefile, decision, reliability, receipt, final>>
      /\ statefile[r] = None /\ decision[r] = None /\ reliability[r] = None
  BY <1>1, <1>3 DEF Others, ElseSame, chain, RunsInv, StateRow, DecisionRow, ReliabilityRow,
                    BeforeState, BeforeDecision, BeforeReliability, StateOpen, DecisionOpen
<1>6. ASSUME NEW x \in Evidence \ overlapped' PROVE Order(x)'
  <2>1. x \notin overlapped /\ Order(x)
    BY <1>2, <1>6 DEF OrderInv
  <2>2. CASE x # e
    BY <1>1, <1>3, <1>5, <2>1, <2>2, RunnerAssumption, OtherEvidence
  <2>3. CASE x = e
    <3>1. Sole(r, x)
      <4>1. \A q \in Run \ {r} : run[q].ev = x => ~Live(q) /\ run[q].pc # "idle"
        BY <1>2, <1>6, <2>3, RunnerAssumption DEF RunsInv, RunRow
      <4> QED BY <4>1 DEF Sole, Live
    <3>2. receipt[x] # None => receipt[x].by \in Run /\ receipt[x].by # r
      BY <1>1, <2>1, RunnerAssumption DEF Order, ReceiptRow, RunsInv, Shapes, Path
    <3>3. ReceiptRow(x)'
      BY <1>5, <2>1, <3>2 DEF Order, ReceiptRow, Leads, ElseSame
    <3>4. DecisionsFollow(x)'
      BY <1>5, <2>1 DEF Order, DecisionsFollow, ElseSame
    <3>5. WorkRow(r)'
      BY <1>3 DEF WorkRow, StatePending, HasState, DecisionKnown, Loaded, Binding, Timed,
                  GameweekWritten, Unfinished
    <3> QED BY <1>1, <1>5, <2>1, <3>1, <3>3, <3>4, <3>5, SoleEvidence
  <2> QED BY <2>2, <2>3
<1>7. ASSUME NEW q \in Run PROVE BlockedRow(q)'
  <2>1. CASE q = r
    BY <1>1, <1>4, <2>1 DEF BlockedRow, Unsound, PreparationValid, DirectoryValid
  <2>2. CASE q # r
    <3>1. BlockedRow(q) /\ run'[q] = run[q] /\ overlapped \subseteq overlapped'
      BY <1>2, <1>5, <2>2 DEF OrderInv, ElseSame
    <3>2. Unsound => Unsound'
      BY <1>1 DEF Unsound, PreparationValid, DirectoryValid
    <3>3. Stuck(run[q].ev) => \E p \in Run : run'[p].ev = run'[q].ev /\ LeftStaged(p)'
      <4>1. \A x : Stuck(x) => Stuck(x)'
        BY <1>1, <1>5, StuckStays
      <4> QED BY <3>1, <4>1 DEF Stuck
    <3> QED BY <3>1, <3>2, <3>3 DEF BlockedRow, Stuck, Refused
  <2> QED BY <2>1, <2>2
<1> QED BY <1>6, <1>7 DEF OrderInv

(* A step that is not about the runs. *)
LEMMA ElsewhereKeepsOrder ==
  ASSUME OrderInv, UNCHANGED <<run, chain, overlapped>>, prep # None => prep' = prep
  PROVE  OrderInv'
<1>1. ASSUME NEW e \in Evidence, Order(e) PROVE Order(e)'
  <2>1. OneEach(e)' /\ ReceiptRow(e)' /\ DecisionsFollow(e)'
    BY <1>1 DEF Order, OneEach, ReceiptRow, DecisionsFollow, Leads, chain
  <2>2. \A r \in Run : run'[r].ev = e => WorkRow(r)'
    BY <1>1 DEF Order, WorkRow, Leads, chain
  <2> QED BY <2>1, <2>2 DEF Order
<1>2. ASSUME NEW r \in Run, BlockedRow(r) PROVE BlockedRow(r)'
  <2>1. Unsound => Unsound'
    BY DEF Unsound, PreparationValid, DirectoryValid
  <2>2. ASSUME NEW q \in Run, LeftStaged(q) PROVE LeftStaged(q)'
    BY <2>2 DEF LeftStaged, chain
  <2> QED BY <1>2, <2>1, <2>2 DEF BlockedRow, Stuck, Refused
<1> QED BY <1>1, <1>2 DEF OrderInv

(* What a session does to the runs. *)
LEMMA SessionMoves ==
  ASSUME SessInv, NEW r \in Run, SessionStep(r)
  PROVE  \/ UNCHANGED <<run, chain, overlapped, prep>>
         \/ \E e \in Evidence : StartResume(r, e)
         \/ /\ Live(r) /\ run' = [run EXCEPT ![r] = Ended(r, "dead")]
            /\ UNCHANGED <<chain, overlapped, prep>>
<1>1. CASE RunDecision(r)
  <2>1. session[r].draft \in Evidence
    BY <1>1, SessionTypes DEF RunDecision, In, SessionRow, Drafted, Agreed
  <2> QED BY <1>1, <2>1 DEF RunDecision, runnerVars
<1>2. CASE Interrupt(r)
  BY <1>2 DEF Interrupt
<1>3. CASE \E e \in Evidence : ResumeByHand(r, e)
  BY <1>3 DEF ResumeByHand
<1>4. CASE StorageFails(r)
  BY <1>4 DEF StorageFails
<1>5. CASE \/ StartSession(r) \/ UseSavedSquad(r) \/ SelectSquad(r) \/ Pick(r)
           \/ \E e \in Supported : PickLast(r, e)
           \/ AnswerFacts(r) \/ Review(r) \/ CheckPublication(r) \/ StageEvidence(r)
           \/ RenameEvidence(r) \/ ShowDecision(r)
  BY <1>5 DEF StartSession, UseSavedSquad, SelectSquad, Pick, PickLast, AnswerFacts, Review,
              CheckPublication, StageEvidence, RenameEvidence, ShowDecision, runnerVars
<1> QED BY <1>1, <1>2, <1>3, <1>4, <1>5 DEF SessionStep

LEMMA NextKeepsOrder ==
  ASSUME GameweekInv, OrderInv, [Next]_vars
  PROVE  OrderInv'
<1>0. RunsInv /\ SessInv /\ (prep # None => prep' = prep)
  BY NextKeeps DEF GameweekInv
<1>1. ASSUME NEW r \in Run, ResumeStep(r) \/ StageFails(r) \/ KillRun(r) PROVE OrderInv'
  <2>1. Apart(r) /\ prep' = prep
    BY <1>0, <1>1, RunStepsApart, RunTouched
  <2>2. PICK e \in Evidence : e = run[r].ev
    BY <2>1 DEF Apart
  <2>3. e \notin overlapped /\ Order(e) => Order(e)' /\ Blocked(r)
    BY <1>0, <1>1, <2>2, RunStepOrders
  <2>4. run[r].pc # "dead"
    BY <1>1 DEF ResumeStep, FindState, CreateState, WriteReceipt, FindDecision, CreateDecision,
                FindReliability, CreateReliability, StageRefuses, Finalize, WriteGameweek, WriteFinal, Unlink,
                VerifyCompleted, StageFails, KillRun, Live, At
  <2> QED BY <1>0, <2>1, <2>2, <2>3, <2>4, RunStepKeepsOrder
<1>2. ASSUME NEW r \in Run, Live(r), run' = [run EXCEPT ![r] = Ended(r, "dead")],
             UNCHANGED <<chain, overlapped, prep>>
      PROVE  OrderInv'
  <2>1. run[r].ev \in Evidence /\ run[r].pc # "dead"
    BY <1>0, <1>2 DEF Live, RunsInv, RunRow
  <2>2. Stops(r)
    BY <1>0, <1>2, RunKilled
  <2>3. Apart(r)
    BY <1>2, <2>1, <2>2 DEF Apart, Stops, ElseSame, chain
  <2>4. PICK e \in Evidence : e = run[r].ev
    BY <2>1
  <2>5. e \notin overlapped /\ Order(e) => Order(e)' /\ Blocked(r)
    BY <1>0, <1>2, <2>4, KilledOrders
  <2> QED BY <1>0, <1>2, <2>1, <2>3, <2>4, <2>5, RunStepKeepsOrder
<1>3. CASE RunnerNext
  <2>1. ASSUME NEW p \in Preparer, PrepareStep(p) PROVE UNCHANGED <<run, chain, overlapped>>
    BY <1>0, <2>1, PrepareStepKeeps DEF GameweekInv, RunsInv, Shapes
  <2>2. ASSUME \/ \E p \in Preparer : KillPreparer(p)
               \/ \E i \in Input : ReplaceInput(i)
               \/ Tick
        PROVE  UNCHANGED <<run, chain, overlapped>>
    BY <2>2 DEF KillPreparer, ReplaceInput, Tick
  <2> QED BY <1>0, <1>1, <1>3, <2>1, <2>2, ElsewhereKeepsOrder DEF RunnerNext
<1>4. ASSUME NEW r \in Run, SessionStep(r) PROVE OrderInv'
  BY <1>0, <1>2, <1>4, SessionMoves, StartResumeKeepsOrder, ElsewhereKeepsOrder
<1>5. CASE JournalStep \/ UNCHANGED vars
  <2>1. UNCHANGED runnerVars
    BY <1>5 DEF JournalStep, RecordEntry, RecordOutcome, vars
  <2> QED BY <1>0, <2>1, ElsewhereKeepsOrder DEF runnerVars
<1> QED BY <1>3, <1>4, <1>5 DEF Next

LEMMA OrderStarts ==
  ASSUME Init PROVE OrderInv
<1>1. /\ run = [r \in Run |-> IdleRun]
      /\ statefile = [r \in Run |-> None] /\ receipt = [e \in Evidence |-> None]
      /\ decision = [r \in Run |-> None] /\ reliability = [r \in Run |-> None]
  BY DEF Init, RunnerInit
<1>2. IdleRun.ev = None /\ IdleRun.error = None
  BY DEF IdleRun
<1>3. ASSUME NEW e \in Evidence PROVE Order(e)
  <2>1. \A r \in Run : run[r].ev # e
    BY <1>1, <1>2, RunnerAssumption
  <2> QED BY <1>1, <2>1 DEF Order, OneEach, ReceiptRow, DecisionsFollow
<1>4. ASSUME NEW r \in Run PROVE BlockedRow(r)
  BY <1>1, <1>2, AbsentAssumption DEF BlockedRow, Blocking, Errors
<1> QED BY <1>3, <1>4 DEF OrderInv

-----------------------------------------------------------------------------
(* Theorems *)

(* The inductive invariant of evidence that no two runs worked on at once, for
   any number of runs, kills and failed writes (resume_gameweek). *)
THEOREM OrderInvariance == Spec => [](GameweekInv /\ OrderInv)
<1>1. Init => GameweekInv /\ OrderInv
  BY GameweekStarts, OrderStarts
<1>2. GameweekInv /\ OrderInv /\ [Next]_vars => (GameweekInv /\ OrderInv)'
  BY NextKeeps, NextKeepsOrder
<1> QED BY <1>1, <1>2, PTL DEF Spec

(* A completed decision stays readable and the only one of its evidence while
   no two runs overlapped: no later run, killed or not, adds anything that makes
   its chain ambiguous (resume_gameweek, _completed_result). *)
THEOREM CompletedDecisionStands == Spec => []CompletionStands
<1>1. ASSUME GameweekInv, OrderInv, NEW s \in Run, final[s] # None, run[s].ev \notin overlapped
      PROVE  States(run[s].ev) = {s} /\ CompletedChainValid(s)
  <2>1. RunsInv
    BY <1>1 DEF GameweekInv
  <2>2. run[s].ev \in Evidence
    <3>1. gameweek[s] \in Gameweek
      BY <1>1, <2>1 DEF RunsInv, Shapes, FinalRow, Final, Gameweek
    <3>2. NamedState(s, run[s].ev)
      BY <2>1, <3>1, AbsentAssumption DEF RunsInv, GameweekRow
    <3> QED BY <3>2, RunnerAssumption DEF NamedState
  <2>3. Order(run[s].ev)
    BY <1>1, <2>2 DEF OrderInv
  <2> QED BY <1>1, <2>1, <2>2, <2>3, CompletedHolds
<1>2. GameweekInv /\ OrderInv => CompletionStands
  BY <1>1 DEF CompletionStands
<1> QED BY <1>2, OrderInvariance, PTL

(* With a sound preparation and without overlapping runs, a run of supported
   evidence that neither the clock nor the disk stopped ends without a decision only when a decision stage
   refuses the data of its evidence or an earlier run was killed while a file was
   still in its staging directory (resume_gameweek, _unique_artifact). *)
THEOREM BlockedWithCause == Spec => []BlockedOnlyWithCause
<1>1. OrderInv => BlockedOnlyWithCause
  BY DEF OrderInv, BlockedRow, Blocking, Unsound, Stuck, Refused, Refusals, PreparationValid,
         DirectoryValid, BlockedOnlyWithCause
<1> QED BY <1>1, OrderInvariance, PTL
=============================================================================
