------------------------- MODULE CompletionMonitor -------------------------
(***************************************************************************)
(* The one-shot completion monitor of one season/gameweek target           *)
(* (src/src/fpl_decision_engine/completion_monitor.py).                    *)
(*                                                                         *)
(* Every element of Proc is a place where an invocation can run: a         *)
(* scheduled "monitor-completion", a manual one, or a reset.  All of them  *)
(* share one control directory (state.json, two receipts, a lock file) and *)
(* the data roots.  Every file the code publishes is published by a step   *)
(* of its own, so that a kill or another invocation can come in between.   *)
(*                                                                         *)
(* Times are kept relative to the present, which is always Now: a tick of  *)
(* the clock moves every recorded time one back, and what has reached 0    *)
(* stays there (WindowAssumption makes that exact for the comparisons the  *)
(* code makes).                                                            *)
(***************************************************************************)
EXTENDS Integers, Sequences

CONSTANTS Proc,             \* invocations that may run at the same time
          Prediction,       \* frozen predictions that may be requested
          Version,          \* different final contents of the official event
          None,             \* absent file, absent field, "not requested"
          Stability,        \* STABILITY_INTERVAL
          MaxStall,         \* longest time from reading the clock to deciding
          Now,              \* the present, and so the width of the window
          MaxSnapshots,     \* bound on official snapshots on disk
          MaxFaults,        \* bound on kills and damaged artifacts
          CarefulOperator   \* unlock only after checking that nothing runs

ASSUME WindowAssumption ==
  /\ Stability \in Nat /\ MaxStall \in Nat /\ Now \in Nat
  /\ Now >= Stability + MaxStall
ASSUME BoundAssumption == MaxSnapshots \in Nat /\ MaxFaults \in Nat
ASSUME OperatorAssumption == CarefulOperator \in BOOLEAN
ASSUME NoneAssumption ==
  /\ None \notin Proc /\ None \notin Prediction /\ None \notin Int
  /\ "open" \notin Version

VARIABLES
  official,     \* what the public endpoints serve: target event and fixtures
  afterDeadline,\* the clock has passed the target's deadline
  lock,         \* .completion-monitor.lock: the invocation it names, or None
  state,        \* state.json
  archive,      \* scope of the review-history record of this state, or None
  realized,     \* realized-receipt.json: the snapshot it names, or None
  evaluation,   \* evaluation-receipt.json
  snapshots,    \* official snapshots, oldest first
  evaluations,  \* published evaluation manifests, counted by what they bind
  pc, mem,      \* control point and local variables of each invocation
  faults,       \* kills and damage so far
  attempts      \* history: refreshes begun since the last capture reset

control == <<lock, state, archive, realized, evaluation>>
data    == <<snapshots, evaluations>>
world   == <<official, afterDeadline, faults>>
vars    == <<world, control, data, pc, mem, attempts>>

-----------------------------------------------------------------------------
(* Values *)

EventValue   == Version \cup {"open"}      \* finished and data_checked, or not
FixtureValue == {"playing", "finished"}    \* are all target fixtures finished
Time         == 0..Now
SnapId       == 1..MaxSnapshots

Digest      == [event : EventValue, fixtures : FixtureValue]
Observation == [digest : Digest, at : Time, seen : Time]

Status == {"WAITING", "REFRESHING", "REALIZED_COMPLETE", "COMPLETE", "REVIEW_REQUIRED"}
Scope  == {"receipt", "realized", "evaluation", "probe"}

(* Of state.json the code reads back the status, review.scope, and the first
   ready observation while it is WAITING; elsewhere first is left at None. *)
State    == [status : Status, first : Observation \cup {None}, scope : Scope \cup {None}]
Written(status, scope) == [status |-> status, first |-> None, scope |-> scope]
Waiting(first)         == [status |-> "WAITING", first |-> first, scope |-> None]
NewState               == Waiting(None)

(* Has the manifest said complete, are the event and the fixtures it holds final,
   do its bytes still match the manifest? *)
Snapshot == [complete : BOOLEAN, final : BOOLEAN, intact : BOOLEAN]
Binding  == [pred : Prediction, snap : SnapId]

(* Mutant: the manifest status is not looked at. *)
ValidWhateverManifest(i) ==
  i \in DOMAIN snapshots /\ snapshots[i].final /\ snapshots[i].intact

Final(d)   == d.event # "open" /\ d.fixtures = "finished"
Valid(i)   == /\ i \in DOMAIN snapshots
              /\ snapshots[i].complete /\ snapshots[i].final /\ snapshots[i].intact
Candidates == {i \in DOMAIN snapshots : Valid(i)}

(* "None" is no value of any field that may be absent. *)
ASSUME AbsentAssumption ==
  /\ None \notin Binding /\ None \notin Observation
  /\ None \notin Scope /\ None \notin Status

Labels == {"idle", "lock", "load", "reconcile", "scan", "adopt", "probe", "fixtures",
           "put", "refresh", "capture", "validate", "publish",
           "evaluate", "run", "attest", "reset", "unlock"}

Mem == [job     : {"monitor", "reset"},
        pred    : Prediction \cup {None},
        started : Time,
        late    : BOOLEAN,
        state   : State,
        event   : EventValue,
        snap    : SnapId \cup {None},
        next    : Labels,
        outcome : Status \cup {None}]

(* Once a decision is taken, what was observed is not read again. *)
Locals(job, pred, snap, st, next, outcome) ==
  [job |-> job, pred |-> pred, started |-> 0, late |-> FALSE, state |-> st,
   event |-> "open", snap |-> snap, next |-> next, outcome |-> outcome]
FreshMem == Locals("monitor", None, None, NewState, "unlock", None)

Holding(p)   == pc[p] \notin {"idle", "lock"}    \* it created the lock file
Observing(p) == pc[p] \in {"lock", "load", "reconcile", "scan", "probe", "fixtures"}

TypeOK ==
  /\ official \in Digest
  /\ afterDeadline \in BOOLEAN
  /\ lock \in Proc \cup {None}
  /\ state \in State
  /\ archive \in Scope \cup {None}
  /\ realized \in SnapId \cup {None}
  /\ evaluation \in Binding \cup {None}
  /\ snapshots \in Seq(Snapshot) /\ Len(snapshots) <= MaxSnapshots
  /\ evaluations \in [Binding -> 0..2]
  /\ pc \in [Proc -> Labels]
  /\ mem \in [Proc -> Mem]
  /\ faults \in 0..MaxFaults
  /\ attempts \in 0..2

Init ==
  /\ official = [event |-> "open", fixtures |-> "playing"]
  /\ afterDeadline = FALSE
  /\ lock = None
  /\ state = NewState
  /\ archive = None
  /\ realized = None
  /\ evaluation = None
  /\ snapshots = << >>
  /\ evaluations = [b \in Binding |-> 0]
  /\ pc = [p \in Proc |-> "idle"]
  /\ mem = [p \in Proc |-> FreshMem]
  /\ faults = 0
  /\ attempts = 0

-----------------------------------------------------------------------------
(* Control flow of one invocation *)

Goto(p, l)    == pc' = [pc EXCEPT ![p] = l]
Keep(p, m)    == mem' = [mem EXCEPT ![p] = m]

(* The invocation has decided on a new state.json; "put" writes it, then the
   invocation goes on at next.  o is the outcome it returns, if it returns.
   Of its local variables only the request and the snapshot are read again. *)
Prepare(p, st, next, o) ==
  /\ Keep(p, Locals(mem[p].job, mem[p].pred,
                    IF next = "unlock" THEN None ELSE mem[p].snap, st, next, o))
  /\ Goto(p, "put")

(* _set_review: the state is written and the invocation returns. *)
SetReview(p, scope) ==
  Prepare(p, Written("REVIEW_REQUIRED", scope), "unlock", "REVIEW_REQUIRED")

Return(p, o) ==
  /\ Keep(p, Locals("monitor", mem[p].pred, None, NewState, "unlock", o))
  /\ Goto(p, "unlock")

(* An exception leaves monitor_completion; only the finally clause runs. *)
Raise(p) == Keep(p, FreshMem) /\ Goto(p, "unlock")

(* What follows once a realized snapshot is accepted. *)
AfterRealized(p) ==
  Prepare(p, Written("REALIZED_COMPLETE", None),
          IF mem[p].pred = None THEN "unlock" ELSE "evaluate", "REALIZED_COMPLETE")

-----------------------------------------------------------------------------
(* monitor_completion *)

(* A caller starts an invocation, which first reads the clock. *)
Start(p) ==
  /\ pc[p] = "idle"
  /\ \E q \in Prediction \cup {None} :
       Keep(p, [FreshMem EXCEPT !.pred = q, !.started = Now, !.late = afterDeadline])
  /\ Goto(p, "lock")
  /\ UNCHANGED <<world, control, data, attempts>>

(* Mutant: an existing lock file is taken over. *)
AcquireAnyLock(p) ==
  /\ pc[p] = "lock"
  /\ lock' = p
  /\ Goto(p, "load")
  /\ UNCHANGED <<world, state, archive, realized, evaluation, data, mem, attempts>>

(* _acquire_lock: exclusive creation, or MonitorLockedError. *)
AcquireLock(p) ==
  /\ pc[p] = "lock"
  /\ lock = None
  /\ lock' = p
  /\ Goto(p, "load")
  /\ UNCHANGED <<world, state, archive, realized, evaluation, data, mem, attempts>>

Locked(p) ==
  /\ pc[p] = "lock"
  /\ lock # None
  /\ Keep(p, FreshMem)
  /\ Goto(p, "idle")
  /\ UNCHANGED <<world, control, data, attempts>>

LoadState(p) ==
  /\ pc[p] = "load"
  /\ Keep(p, [mem[p] EXCEPT !.state = state])
  /\ Goto(p, IF mem[p].job = "reset" THEN "reset" ELSE "reconcile")
  /\ UNCHANGED <<world, control, data, attempts>>

(* Receipts that contradict each other, their snapshot, or the request. *)
ReviewReceipts(p) ==
  /\ pc[p] = "reconcile"
  /\ \/ evaluation # None /\ realized = None
     \/ realized # None /\ ~Valid(realized)
     \/ /\ realized # None /\ evaluation # None
        /\ mem[p].state.status # "REVIEW_REQUIRED" /\ mem[p].pred = None
  /\ SetReview(p, "receipt")
  /\ UNCHANGED <<world, control, data, attempts>>

(* The target waits for the operator: report it, change nothing. *)
StillInReview(p) ==
  /\ pc[p] = "reconcile"
  /\ IF realized = None THEN evaluation = None ELSE Valid(realized)
  /\ mem[p].state.status = "REVIEW_REQUIRED"
  /\ Return(p, "REVIEW_REQUIRED")
  /\ UNCHANGED <<world, control, data, attempts>>

AlreadyRealized(p) ==
  /\ pc[p] = "reconcile"
  /\ realized # None /\ Valid(realized)
  /\ mem[p].state.status # "REVIEW_REQUIRED"
  /\ mem[p].pred = None /\ evaluation = None
  /\ AfterRealized(p)
  /\ UNCHANGED <<world, control, data, attempts>>

(* With a receipt and a requested prediction, go on to the evaluation. *)
ResumeEvaluation(p) ==
  /\ pc[p] = "reconcile"
  /\ realized # None /\ Valid(realized)
  /\ mem[p].state.status # "REVIEW_REQUIRED"
  /\ mem[p].pred # None
  /\ Keep(p, Locals("monitor", mem[p].pred, realized, NewState, "unlock", None))
  /\ Goto(p, "evaluate")
  /\ UNCHANGED <<world, control, data, attempts>>

(* Mutant: a pending review does not stop the invocation. *)
NothingAcceptedInReview(p) ==
  /\ pc[p] = "reconcile"
  /\ realized = None /\ evaluation = None
  /\ Goto(p, "scan")
  /\ UNCHANGED <<world, control, data, mem, attempts>>

NothingAccepted(p) ==
  /\ pc[p] = "reconcile"
  /\ realized = None /\ evaluation = None
  /\ mem[p].state.status # "REVIEW_REQUIRED"
  /\ Goto(p, "scan")
  /\ UNCHANGED <<world, control, data, mem, attempts>>

(* _find_realized_candidate: the earliest valid snapshot of the season. *)
FindCandidate(p) ==
  /\ pc[p] = "scan"
  /\ \E c \in Candidates :
       /\ \A d \in Candidates : c <= d
       /\ Keep(p, Locals("monitor", mem[p].pred, c, NewState, "unlock", None))
  /\ Goto(p, "adopt")
  /\ UNCHANGED <<world, control, data, attempts>>

(* A previous refresh that left no valid snapshot is never repeated. *)
RefreshWasInterrupted(p) ==
  /\ pc[p] = "scan"
  /\ Candidates = {}
  /\ mem[p].state.status = "REFRESHING"
  /\ SetReview(p, "realized")
  /\ UNCHANGED <<world, control, data, attempts>>

(* Mutant: an interrupted refresh is simply tried again. *)
NoCandidateTryAgain(p) ==
  /\ pc[p] = "scan"
  /\ Candidates = {}
  /\ Goto(p, "probe")
  /\ UNCHANGED <<world, control, data, mem, attempts>>

NoCandidate(p) ==
  /\ pc[p] = "scan"
  /\ Candidates = {}
  /\ mem[p].state.status # "REFRESHING"
  /\ Goto(p, "probe")
  /\ UNCHANGED <<world, control, data, mem, attempts>>

(* _publish_realized_receipt by exclusive link, for an adopted snapshot
   ("adopt") and for one just refreshed ("publish"). *)
PublishRealized(p) ==
  /\ pc[p] \in {"adopt", "publish"}
  /\ realized = None
  /\ realized' = mem[p].snap
  /\ AfterRealized(p)
  /\ UNCHANGED <<world, lock, state, archive, evaluation, data, attempts>>

RealizedExists(p) ==
  /\ pc[p] \in {"adopt", "publish"}
  /\ realized # None
  /\ SetReview(p, IF pc[p] = "adopt" THEN "receipt" ELSE "realized")
  /\ UNCHANGED <<world, control, data, attempts>>

(* probe_gameweek_completion: two requests, the event and then the fixtures.
   Network and 5xx failures leave the state alone; anything malformed asks
   for review. *)
ProbeEvent(p) ==
  /\ pc[p] = "probe"
  /\ Keep(p, [mem[p] EXCEPT !.event = official.event])
  /\ Goto(p, "fixtures")
  /\ UNCHANGED <<world, control, data, attempts>>

ProbeUnavailable(p) ==
  /\ pc[p] \in {"probe", "fixtures"}
  /\ Raise(p)
  /\ UNCHANGED <<world, control, data, attempts>>

ProbeMalformed(p) ==
  /\ pc[p] \in {"probe", "fixtures"}
  /\ SetReview(p, "probe")
  /\ UNCHANGED <<world, control, data, attempts>>

(* The observation carries the time the invocation STARTED; seen is a history
   field, the time at which the last response really arrived. *)
Observed(p) ==
  [digest |-> [event |-> mem[p].event, fixtures |-> official.fixtures],
   at |-> mem[p].started, seen |-> Now]

Ready(p, o) == Final(o.digest) /\ mem[p].late

(* Mutant: readiness alone is compared, not its content. *)
AnyReady(o, first) == first # None

SameDigest(o, first) == first # None /\ first.digest = o.digest

(* Mutant: a second look is enough, however soon. *)
SeenAgain(p, o, first) == SameDigest(o, first) /\ mem[p].started >= first.at

Stable(p, o, first) == SameDigest(o, first) /\ mem[p].started >= first.at + Stability

(* Mutant: every observation restarts the interval. *)
LatestObservation(p, o, first) == o

(* A first observation is retained while the digest stays the same, unless it
   lies in this invocation's future. *)
RetainedFirst(p, o, first) ==
  IF SameDigest(o, first) /\ first.at <= mem[p].started THEN first ELSE o

(* The second response decides: wait, wait for stability, or refresh. *)
Decide(p, o) ==
  LET first   == mem[p].state.first
      wait(f) == Prepare(p, Waiting(f), "unlock", "WAITING")
  IN  CASE ~Ready(p, o) -> wait(None)
        [] Ready(p, o) /\ ~Stable(p, o, first) -> wait(RetainedFirst(p, o, first))
        [] OTHER -> Prepare(p, Written("REFRESHING", None), "refresh", None)

ProbeFixtures(p) ==
  /\ pc[p] = "fixtures"
  /\ Decide(p, Observed(p))
  /\ UNCHANGED <<world, control, data, attempts>>

(* _write_mutable_json: state.json is replaced in one step.  Review-history
   records of states that are gone matter to nobody. *)
WriteState(p) ==
  /\ pc[p] = "put"
  /\ state' = mem[p].state
  /\ archive' = None
  /\ attempts' = IF mem[p].job = "reset" /\ mem[p].state.status = "WAITING"
                  THEN 0 ELSE attempts
  /\ Goto(p, mem[p].next)
  /\ UNCHANGED <<world, lock, realized, evaluation, data, mem>>

(* refresh_runner: the snapshot directory appears with its bootstrap, then the
   fixtures and histories are downloaded and the manifest becomes complete.
   Refresh.tla has the stages in between. *)
NewSnapshot == [complete |-> FALSE, final |-> official.event # "open", intact |-> TRUE]

Downloaded(s) ==
  [complete |-> TRUE, final |-> s.final /\ official.fixtures = "finished",
   intact |-> s.intact]

BeginRefresh(p) ==
  /\ pc[p] = "refresh"
  /\ Len(snapshots) < MaxSnapshots
  /\ snapshots' = Append(snapshots, NewSnapshot)
  /\ Keep(p, [mem[p] EXCEPT !.snap = Len(snapshots) + 1])
  /\ attempts' = IF attempts < 2 THEN attempts + 1 ELSE 2
  /\ Goto(p, "capture")
  /\ UNCHANGED <<world, control, evaluations>>

FinishRefresh(p) ==
  /\ pc[p] = "capture"
  /\ snapshots' = [snapshots EXCEPT ![mem[p].snap] = Downloaded(@)]
  /\ Prepare(p, mem[p].state, "validate", None)
  /\ UNCHANGED <<world, control, evaluations, attempts>>

(* Mutant: the review names a failure that no reset knows. *)
RefreshFailsUnknown(p) ==
  /\ pc[p] \in {"refresh", "capture"}
  /\ SetReview(p, "refresh")
  /\ UNCHANGED <<world, control, data, attempts>>

RefreshFails(p) ==
  /\ pc[p] \in {"refresh", "capture"}
  /\ SetReview(p, "realized")
  /\ UNCHANGED <<world, control, data, attempts>>

(* _validate_realized_candidate on the snapshot that was just refreshed. *)
ValidateRefreshed(p) ==
  /\ pc[p] = "validate"
  /\ IF Valid(mem[p].snap)
       THEN Goto(p, "publish") /\ UNCHANGED mem
       ELSE SetReview(p, "realized")
  /\ UNCHANGED <<world, control, data, attempts>>

-----------------------------------------------------------------------------
(* _ensure_evaluation for the requested prediction and snapshot mem[p].snap *)

Requested(p) == [pred |-> mem[p].pred, snap |-> mem[p].snap]

Completed(p) ==
  Prepare(p, Written("COMPLETE", None), "unlock", "COMPLETE")

(* Mutant: any evaluation receipt satisfies the request. *)
EvaluationAcceptedForAny(p) ==
  /\ pc[p] = "evaluate"
  /\ evaluation # None
  /\ Completed(p)
  /\ UNCHANGED <<world, control, data, attempts>>

EvaluationAccepted(p) ==
  /\ pc[p] = "evaluate"
  /\ evaluation = Requested(p)
  /\ Completed(p)
  /\ UNCHANGED <<world, control, data, attempts>>

(* Mutant: the evaluator always runs, receipt or orphan or not. *)
AlwaysEvaluate(p) ==
  /\ pc[p] = "evaluate"
  /\ Goto(p, "run")
  /\ UNCHANGED <<world, control, data, mem, attempts>>

(* _find_evaluation_candidate: an existing manifest with this binding is
   adopted, otherwise the evaluator has to run. *)
FindEvaluation(p) ==
  /\ pc[p] = "evaluate"
  /\ evaluation = None
  /\ Goto(p, IF evaluations[Requested(p)] > 0 THEN "attest" ELSE "run")
  /\ UNCHANGED <<world, control, data, mem, attempts>>

(* evaluate_xfp: a new directory whose manifest appears last. *)
RunEvaluation(p) ==
  /\ pc[p] = "run"
  /\ evaluations' = [evaluations EXCEPT ![Requested(p)] = IF @ < 2 THEN @ + 1 ELSE 2]
  /\ Goto(p, "attest")
  /\ UNCHANGED <<world, control, snapshots, mem, attempts>>

(* The receipt names another binding, a prediction is missing or late, the
   evaluator refuses, or artifacts no longer match their manifest. *)
EvaluationFails(p) ==
  /\ pc[p] \in {"evaluate", "run"}
  /\ SetReview(p, "evaluation")
  /\ UNCHANGED <<world, control, data, attempts>>

(* Mutant: the receipt is replaced instead of linked. *)
ReplaceEvaluation(p) ==
  /\ pc[p] = "attest"
  /\ evaluation' = Requested(p)
  /\ Completed(p)
  /\ UNCHANGED <<world, lock, state, archive, realized, data, attempts>>

(* The receipt is published by exclusive link. *)
PublishEvaluation(p) ==
  /\ pc[p] = "attest"
  /\ IF evaluation = None
       THEN evaluation' = Requested(p) /\ Completed(p)
       ELSE SetReview(p, "evaluation") /\ UNCHANGED evaluation
  /\ UNCHANGED <<world, lock, state, archive, realized, data, attempts>>

-----------------------------------------------------------------------------
(* The finally clause: the lock file is removed, whoever created it. *)

Finish(p) ==
  /\ pc[p] = "unlock"
  /\ lock' = None
  /\ Keep(p, FreshMem)
  /\ Goto(p, "idle")
  /\ UNCHANGED <<world, state, archive, realized, evaluation, data, attempts>>

-----------------------------------------------------------------------------
(* reset_completion_monitor, an invocation of its own under the same lock *)

StartReset(p) ==
  /\ pc[p] = "idle"
  /\ Keep(p, Locals("reset", None, None, NewState, "unlock", None))
  /\ Goto(p, "lock")
  /\ UNCHANGED <<world, control, data, attempts>>

Resettable(st) ==
  /\ st.status = "REVIEW_REQUIRED"
  /\ st.scope # "receipt" /\ evaluation = None
  /\ st.scope = "realized" => realized = None
  /\ st.scope = "evaluation" => realized # None /\ Valid(realized)

RefuseReset(p) ==
  /\ pc[p] = "reset"
  /\ ~Resettable(mem[p].state)
  /\ Raise(p)
  /\ UNCHANGED <<world, control, data, attempts>>

(* Mutant: whatever failed, the target goes back to REALIZED_COMPLETE. *)
ResetToRealized(p) ==
  /\ pc[p] = "reset"
  /\ Resettable(mem[p].state)
  /\ archive' = mem[p].state.scope
  /\ Prepare(p, Written("REALIZED_COMPLETE", None), "unlock", None)
  /\ UNCHANGED <<world, lock, state, realized, evaluation, data, attempts>>

(* The prior state is archived by exclusive link before state.json changes. *)
ArchiveReview(p) ==
  /\ pc[p] = "reset"
  /\ Resettable(mem[p].state)
  /\ archive' = mem[p].state.scope
  /\ Prepare(p, Written(IF mem[p].state.scope = "evaluation"
                         THEN "REALIZED_COMPLETE" ELSE "WAITING", None),
             "unlock", None)
  /\ UNCHANGED <<world, lock, state, realized, evaluation, data, attempts>>

-----------------------------------------------------------------------------
(* Kills, the operator, and the world outside *)

(* The process dies without its finally clause: SIGKILL, SIGTERM, power. *)
Kill(p) ==
  /\ pc[p] # "idle"
  /\ faults < MaxFaults
  /\ faults' = faults + 1
  /\ Keep(p, FreshMem)
  /\ Goto(p, "idle")
  /\ UNCHANGED <<official, afterDeadline, control, data, attempts>>

(* unlock_completion_monitor removes the lock file and checks nothing; a
   careful operator has verified that no invocation is running. *)
Unlock ==
  /\ lock # None
  /\ CarefulOperator => \A p \in Proc : ~Holding(p)
  /\ lock' = None
  /\ UNCHANGED <<world, state, archive, realized, evaluation, data, pc, mem, attempts>>

Back(t)      == IF t = 0 THEN 0 ELSE t - 1
BackObs(o)   == IF o = None THEN None ELSE
  [digest |-> o.digest, at |-> Back(o.at), seen |-> Back(o.seen)]
BackState(s) == [status |-> s.status, first |-> BackObs(s.first), scope |-> s.scope]
BackMem(m)   == [m EXCEPT !.started = Back(m.started), !.state = BackState(m.state)]

Tick ==
  /\ \A p \in Proc : Observing(p) /\ mem[p].job = "monitor"
                       => Now - mem[p].started < MaxStall
  /\ state' = BackState(state)
  /\ mem' = [p \in Proc |-> BackMem(mem[p])]
  /\ UNCHANGED <<world, lock, archive, realized, evaluation, data, pc, attempts>>

DeadlinePasses ==
  /\ ~afterDeadline
  /\ afterDeadline' = TRUE
  /\ UNCHANGED <<official, faults, control, data, pc, mem, attempts>>

(* The public service publishes, corrects or withdraws results. *)
OfficialChanges ==
  /\ \E d \in Digest \ {official} : official' = d
  /\ UNCHANGED <<afterDeadline, faults, control, data, pc, mem, attempts>>

(* The owner's own refresh, and refresh --resume of any incomplete snapshot
   that no running invocation is downloading. *)
OwnerBeginsRefresh ==
  /\ Len(snapshots) < MaxSnapshots
  /\ snapshots' = Append(snapshots, NewSnapshot)
  /\ UNCHANGED <<world, control, evaluations, pc, mem, attempts>>

OwnerFinishesRefresh(i) ==
  /\ ~snapshots[i].complete
  /\ \A p \in Proc : pc[p] = "capture" => mem[p].snap # i
  /\ snapshots' = [snapshots EXCEPT ![i] = Downloaded(@)]
  /\ UNCHANGED <<world, control, evaluations, pc, mem, attempts>>

(* Bytes of a valid snapshot are changed outside the program; or the owner's
   Ctrl-C takes a manifest back that said complete before the refresh returned,
   after which no resume makes the snapshot valid again (Refresh.tla). *)
Damage(i) ==
  /\ Valid(i)
  /\ faults < MaxFaults
  /\ faults' = faults + 1
  /\ snapshots' = [snapshots EXCEPT ![i].intact = FALSE]
  /\ UNCHANGED <<official, afterDeadline, control, evaluations, pc, mem, attempts>>

-----------------------------------------------------------------------------

Reconcile(p) == \/ ReviewReceipts(p) \/ StillInReview(p) \/ AlreadyRealized(p)
                \/ ResumeEvaluation(p) \/ NothingAccepted(p)
Adopt(p)     == \/ FindCandidate(p) \/ RefreshWasInterrupted(p) \/ NoCandidate(p)
                \/ PublishRealized(p) \/ RealizedExists(p)
Probe(p)     == \/ ProbeEvent(p) \/ ProbeFixtures(p)
                \/ ProbeUnavailable(p) \/ ProbeMalformed(p)
Refresh(p)   == \/ BeginRefresh(p) \/ FinishRefresh(p) \/ RefreshFails(p)
                \/ ValidateRefreshed(p)
Evaluate(p)  == \/ EvaluationAccepted(p) \/ FindEvaluation(p) \/ RunEvaluation(p)
                \/ EvaluationFails(p) \/ PublishEvaluation(p)
Reset(p)     == RefuseReset(p) \/ ArchiveReview(p)

Step(p) == \/ AcquireLock(p) \/ Locked(p) \/ LoadState(p) \/ Reconcile(p) \/ Adopt(p)
           \/ Probe(p) \/ WriteState(p) \/ Refresh(p) \/ Evaluate(p) \/ Reset(p)
           \/ Finish(p)

Outside == \/ Unlock \/ Tick \/ DeadlinePasses \/ OfficialChanges \/ OwnerBeginsRefresh
           \/ \E i \in DOMAIN snapshots : OwnerFinishesRefresh(i) \/ Damage(i)

Next == \/ \E p \in Proc : Start(p) \/ StartReset(p) \/ Step(p) \/ Kill(p)
        \/ Outside

Spec == Init /\ [][Next]_vars

(* Fairness.  The owner's schedule keeps starting invocations; an invocation
   that is not killed keeps running; the network does not fail for ever; the
   clock advances; a leftover lock is eventually inspected and removed. *)
Fairness ==
  /\ \A p \in Proc : /\ SF_vars(Start(p)) /\ WF_vars(Step(p))
                     /\ SF_vars(ProbeEvent(p)) /\ SF_vars(ProbeFixtures(p))
  /\ WF_vars(Tick) /\ WF_vars(DeadlinePasses) /\ WF_vars(Unlock)

FairSpec == Spec /\ Fairness

-----------------------------------------------------------------------------
(* Safety under a careful operator *)

(* The target lock really excludes: whoever is past _acquire_lock is the
   invocation the lock file names, so that there is at most one. *)
LockExclusive == \A p \in Proc : Holding(p) => lock = p

(* monitor_completion performs at most one full refresh; after it, only an
   explicit reset allows another, whatever was killed in between. *)
OneRefreshPerReset == attempts <= 1

DecidesRefresh(p) == pc[p] = "fixtures" /\ mem'[p].next = "refresh"

(* A refresh is launched only after the deadline, for a final digest that was
   already seen earlier.  The responses arrived at least Stability - MaxStall
   apart: an observation carries the time its invocation STARTED. *)
RefreshOnlyWhenStable ==
  [][\A p \in Proc : DecidesRefresh(p) =>
       LET first == mem[p].state.first
           o     == Observed(p)
       IN  /\ afterDeadline /\ first # None
           /\ Final(o.digest) /\ first.digest = o.digest
           /\ o.seen - first.seen >= Stability - MaxStall]_vars

(* One binding is evaluated once: an orphaned manifest is adopted. *)
EvaluatedOnce == \A b \in Binding : evaluations[b] <= 1

(* REVIEW_REQUIRED is left only by a reset that has archived this very review,
   never for a receipt failure, and capture restarts only without a receipt. *)
ReviewLeftOnlyByReset ==
  [][state.status = "REVIEW_REQUIRED" /\ state'.status # "REVIEW_REQUIRED" =>
       /\ archive = state.scope /\ state.scope # "receipt"
       /\ state'.status = "WAITING" => realized = None]_vars

(* Accepted evidence ends the work: no refresh is begun once there is a
   realized receipt, nothing is evaluated once there is an evaluation one. *)
QuietAfterReceipts ==
  [][/\ realized # None => attempts' <= attempts
     /\ evaluation # None => evaluations' = evaluations]_vars

-----------------------------------------------------------------------------
(* Safety that needs no careful operator: exclusive links protect receipts *)

(* The realized receipt names a snapshot that was complete and final. *)
ReceiptBacked ==
  realized # None => /\ realized \in DOMAIN snapshots
                     /\ snapshots[realized].complete /\ snapshots[realized].final

(* state.json never claims more than the receipts prove. *)
StatusTruthful ==
  /\ state.status = "COMPLETE" => evaluation # None
  /\ state.status \in {"COMPLETE", "REALIZED_COMPLETE"} => realized # None

(* Nor does the outcome of a call: COMPLETE is reported only for the
   prediction that was asked for, evaluated against the accepted snapshot. *)
OutcomeTruthful ==
  \A p \in Proc : pc[p] = "unlock" =>
    /\ mem[p].outcome = "COMPLETE" =>
         evaluation = [pred |-> mem[p].pred, snap |-> realized]
    /\ mem[p].outcome = "REALIZED_COMPLETE" => realized # None /\ mem[p].pred = None

(* The monitor implements the ledger of receipts. *)
Ledger == INSTANCE ReceiptLedger WITH
            Snapshots   <- SnapId,
            Predictions <- Prediction,
            NoReceipt   <- None,
            finalized   <- {i \in DOMAIN snapshots :
                              snapshots[i].complete /\ snapshots[i].final},
            realized    <- realized,
            evaluation  <- evaluation
LedgerRefined == Ledger!LedgerSpec

-----------------------------------------------------------------------------
(* Liveness *)

Settles == <>[]Final(official) /\ <>[][UNCHANGED official]_vars

(* Once the official data are final for good, repeated invocations either
   accept a snapshot or ask for review: they do not wait for ever. *)
AnswerEventually ==
  Settles => <>(realized # None \/ state.status = "REVIEW_REQUIRED")

-----------------------------------------------------------------------------
(* What the documentation says of the two observations: "the same finalized
   target semantics have been seen twice at least 15 minutes apart". *)
SeenApart ==
  [][\A p \in Proc : DecidesRefresh(p) =>
       Observed(p).seen - mem[p].state.first.seen >= Stability]_vars
=============================================================================
