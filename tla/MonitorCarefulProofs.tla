------------------------ MODULE MonitorCarefulProofs ------------------------
(***************************************************************************)
(* What CompletionMonitor promises beyond its receipts, for any number of  *)
(* invocations, predictions and snapshots and for any window: what a call  *)
(* may report and how old its observations are, whoever deletes locks; and *)
(* one refresh, one evaluation and honest reviews, under an operator who   *)
(* deletes a lock only when nothing runs.                                  *)
(***************************************************************************)
EXTENDS CompletionMonitorProofs, EngineContract

-----------------------------------------------------------------------------
(* Without trusting the operator.  An invocation that is about to return
   claims only what the receipts prove; an observation is no more than
   MaxStall younger than its date. *)

Claiming(p) == \/ pc[p] = "unlock"
               \/ pc[p] = "put" /\ mem[p].next = "unlock"

ClaimInv(p) ==
  Claiming(p) =>
    /\ mem[p].outcome = "COMPLETE" =>
         /\ evaluation # None
         /\ evaluation = [pred |-> mem[p].pred, snap |-> realized]
    /\ mem[p].outcome = "REALIZED_COMPLETE" => realized # None /\ mem[p].pred = None
    /\ mem[p].outcome # "REFRESHING"

SeenInTime(o) == o # None => o.seen <= o.at + MaxStall

ObservingInv(p) ==
  /\ SeenInTime(mem[p].state.first)
  /\ mem[p].late => afterDeadline
  /\ pc[p] \in {"reconcile", "scan", "probe", "fixtures"} => mem[p].job = "monitor"
  /\ Observing(p) => mem[p].next = "unlock"
  /\ Observing(p) /\ mem[p].job = "monitor" => Now - mem[p].started <= MaxStall

ClaimsHonest   == \A p \in Proc : ClaimInv(p)
ObservedInTime == SeenInTime(state.first) /\ \A p \in Proc : ObservingInv(p)

-----------------------------------------------------------------------------
(* Under a careful operator.  What the invocation that holds the lock read
   from state.json is still there, and what it is about to do is still
   allowed. *)

(* Under one target, a refresh may have begun since the last reset only if
   state.json is past WAITING. *)
WaitingIsFresh == state.status = "WAITING" => attempts = 0

(* A review that the probe asked for was asked for without a receipt. *)
EarlyReview(st) ==
  st.status = "REVIEW_REQUIRED" /\ st.scope \notin {"receipt", "realized", "evaluation"}
    => realized = None

Putting(p, ns) == pc[p] = "put" /\ mem[p].next \in ns

(* state.json has not changed since it was loaded. *)
Loaded(p) ==
  pc[p] \in {"reconcile", "scan", "probe", "fixtures", "reset"} => mem[p].state = state

(* No work is done on a target under review. *)
Undisputed(p) ==
  pc[p] \in {"scan", "adopt", "probe", "fixtures", "refresh", "capture", "validate",
             "publish", "evaluate", "run", "attest"} => state.status # "REVIEW_REQUIRED"

(* Nobody looks for final data after a refresh has begun. *)
NotRefreshing(p) == pc[p] \in {"probe", "fixtures"} => state.status # "REFRESHING"

(* Capture goes on only without a receipt. *)
NoReceiptYet(p) ==
  (\/ pc[p] \in {"scan", "probe", "fixtures", "adopt", "refresh", "capture", "validate",
                 "publish"}
   \/ Putting(p, {"refresh", "validate"}))
  => realized = None

(* The refresh that is about to begin is the first one since the reset. *)
FirstRefresh(p) ==
  /\ pc[p] = "refresh" \/ Putting(p, {"refresh"}) => attempts = 0
  /\ pc[p] \in {"refresh", "capture"} \/ Putting(p, {"refresh", "validate"})
       => mem[p].state.status = "REFRESHING"
  /\ pc[p] = "refresh" => state.status = "REFRESHING"

(* What may be written over the present state.json. *)
Writable(p) ==
  pc[p] = "put" =>
    /\ mem[p].state.status = "WAITING" => mem[p].job = "reset" \/ attempts = 0
    /\ mem[p].state.status = "REVIEW_REQUIRED" => mem[p].next = "unlock"
    /\ EarlyReview(mem[p].state)
    /\ mem[p].state.status # "REVIEW_REQUIRED" /\ state.status = "REVIEW_REQUIRED" =>
         /\ archive = state.scope /\ state.scope # "receipt"
         /\ mem[p].state.status = "WAITING" => realized = None

(* The evaluator runs only for a binding that has no evaluation. *)
FirstEvaluation(p) ==
  pc[p] = "run" => evaluation = None /\ evaluations[Requested(p)] = 0

HeldInv(p) ==
  /\ pc[p] = "reset" => mem[p].job = "reset"
  /\ Loaded(p) /\ Undisputed(p) /\ NotRefreshing(p) /\ NoReceiptYet(p)
  /\ FirstRefresh(p) /\ Writable(p) /\ FirstEvaluation(p)

SharedInv == OneRefreshPerReset /\ WaitingIsFresh /\ EarlyReview(state) /\ EvaluatedOnce

CarefulInv == SharedInv /\ \A p \in Proc : HeldInv(p)

-----------------------------------------------------------------------------
(* What a step of one invocation leaves alone, and what it leaves behind *)

LEMMA OnlyOne ==
  ASSUME IInv, NEW p \in Proc, Start(p) \/ StartReset(p) \/ Step(p) \/ Kill(p)
  PROVE  Only(p)
<1>1. ASSUME NEW l, Goto(p, l), (\E m : Keep(p, m)) \/ UNCHANGED mem
      PROVE  Only(p)
  BY <1>1 DEF Goto, Keep, Only, IInv, Typed
<1>2. CASE \/ Start(p) \/ StartReset(p) \/ Kill(p) \/ AcquireLock(p) \/ Locked(p)
           \/ Finish(p)
  BY <1>1, <1>2 DEF Start, StartReset, Kill, AcquireLock, Locked, Finish
<1>3. CASE \/ LoadState(p) \/ Reconcile(p) \/ Adopt(p) \/ Probe(p) \/ WriteState(p)
           \/ Refresh(p) \/ Evaluate(p) \/ Reset(p)
  <2>1. \E l : Goto(p, l)
    BY <1>3, HeldSteps
  <2>2. CASE LoadState(p) \/ WriteState(p)
    BY <1>1, <2>1, <2>2 DEF LoadState, WriteState
  <2>3. CASE Reconcile(p)
    BY <1>1, <2>1, <2>3
       DEF Reconcile, ReviewReceipts, StillInReview, AlreadyRealized,
           ResumeEvaluation, NothingAccepted, SetReview, Return, AfterRealized, Prepare
  <2>4. CASE Adopt(p)
    BY <1>1, <2>1, <2>4
       DEF Adopt, FindCandidate, RefreshWasInterrupted, NoCandidate, PublishRealized,
           RealizedExists, SetReview, AfterRealized, Prepare
  <2>5. CASE ProbeFixtures(p)
    <3>1. \E st, n, o : Prepare(p, st, n, o)
      BY <2>5 DEF ProbeFixtures, Decide
    <3> QED
      BY <1>1, <2>1, <3>1 DEF Prepare
  <2>6. CASE ProbeEvent(p) \/ ProbeUnavailable(p) \/ ProbeMalformed(p)
    BY <1>1, <2>1, <2>6
       DEF ProbeEvent, ProbeUnavailable, ProbeMalformed, Raise, SetReview, Prepare
  <2>7. CASE Refresh(p)
    BY <1>1, <2>1, <2>7
       DEF Refresh, BeginRefresh, FinishRefresh, RefreshFails, ValidateRefreshed,
           SetReview, Prepare
  <2>8. CASE Evaluate(p)
    BY <1>1, <2>1, <2>8
       DEF Evaluate, EvaluationAccepted, FindEvaluation, RunEvaluation,
           EvaluationFails, PublishEvaluation, Completed, SetReview, Prepare
  <2>9. CASE Reset(p)
    BY <1>1, <2>1, <2>9 DEF Reset, RefuseReset, ArchiveReview, Raise, Prepare
  <2> QED
    BY <1>3, <2>2, <2>3, <2>4, <2>5, <2>6, <2>7, <2>8, <2>9 DEF Probe
<1> QED
  BY <1>2, <1>3 DEF Step

(* Exclusive links: a receipt that exists is never replaced or removed. *)
ReceiptsStand ==
  /\ realized # None => realized' = realized
  /\ evaluation # None => evaluation' = evaluation

LEMMA ReceiptsStay ==
  ASSUME [Next]_vars
  PROVE  ReceiptsStand
<1>1. ASSUME UNCHANGED <<realized, evaluation>> PROVE ReceiptsStand
  BY <1>1 DEF ReceiptsStand
<1>2. ASSUME NEW p \in Proc, Start(p) \/ StartReset(p) \/ Step(p) \/ Kill(p)
      PROVE  ReceiptsStand
  <2>1. CASE PublishRealized(p)
    BY <2>1 DEF PublishRealized, ReceiptsStand
  <2>2. CASE PublishEvaluation(p)
    BY <2>2 DEF PublishEvaluation, ReceiptsStand
  <2>3. CASE BeginRefresh(p) \/ FinishRefresh(p)
    BY <1>1, <2>3 DEF BeginRefresh, FinishRefresh, control
  <2> QED
    BY <1>1, <1>2, <2>1, <2>2, <2>3, SilentSteps DEF Step, Adopt, Refresh, Evaluate
<1>3. CASE Outside
  BY <1>1, <1>3 DEF Outside, Unlock, Tick, DeadlinePasses, OfficialChanges,
     OwnerBeginsRefresh, OwnerFinishesRefresh, Damage, control
<1>4. CASE UNCHANGED vars
  BY <1>1, <1>4 DEF vars, control
<1> QED
  BY <1>2, <1>3, <1>4 DEF Next

(* The states that are written without an observation. *)
LEMMA WrittenIs ==
  ASSUME NEW st \in Status, NEW sc \in Scope \cup {None}
  PROVE  /\ Written(st, sc) \in State
         /\ Written(st, sc).status = st /\ Written(st, sc).scope = sc
         /\ Written(st, sc).first = None
  BY DEF Written, State

LEMMA WaitingIs ==
  ASSUME NEW f \in Observation \cup {None}
  PROVE  /\ Waiting(f) \in State
         /\ Waiting(f).status = "WAITING" /\ Waiting(f).scope = None
         /\ Waiting(f).first = f
  BY DEF Waiting, State, Status

LEMMA NewStateIs ==
  /\ NewState \in State /\ NewState.status = "WAITING"
  /\ NewState.scope = None /\ NewState.first = None
  BY WaitingIs DEF NewState

LEMMA StatusesAre ==
  /\ "WAITING" \in Status /\ "REFRESHING" \in Status /\ "REALIZED_COMPLETE" \in Status
  /\ "COMPLETE" \in Status /\ "REVIEW_REQUIRED" \in Status
  BY DEF Status

(* _set_review leaves a review to be written before the invocation returns. *)
LEMMA ReviewMoves ==
  ASSUME IInv, NEW p \in Proc, NEW sc \in Scope, SetReview(p, sc)
  PROVE  /\ pc'[p] = "put" /\ mem'[p].next = "unlock"
         /\ mem'[p].outcome = "REVIEW_REQUIRED" /\ mem'[p].late = FALSE
         /\ mem'[p].job = mem[p].job
         /\ mem'[p].state.status = "REVIEW_REQUIRED" /\ mem'[p].state.scope = sc
         /\ mem'[p].state.first = None
<1> DEFINE st == Written("REVIEW_REQUIRED", sc)
<1>1. /\ st \in State /\ st.status = "REVIEW_REQUIRED" /\ st.scope = sc
      /\ st.first = None
  BY WrittenIs, StatusesAre
<1>2. Prepare(p, st, "unlock", "REVIEW_REQUIRED")
  BY DEF SetReview
<1> HIDE DEF st
<1>3. Typed
  BY DEF IInv
<1>4. /\ pc'[p] = "put" /\ mem'[p].state = st /\ mem'[p].next = "unlock"
      /\ mem'[p].outcome = "REVIEW_REQUIRED"
  BY <1>1, <1>2, <1>3, PrepareMoves, LabelsAre, StatusesAre
<1>5. mem'[p].job = mem[p].job /\ mem'[p].late = FALSE
  BY <1>2, <1>3, PrepareKeeps
<1> QED
  BY <1>1, <1>4, <1>5

-----------------------------------------------------------------------------
(* Claims: what a call is about to report *)

LEMMA ClaimStays ==
  ASSUME IInv, NEW p \in Proc, ClaimInv(p), ReceiptsStand, pc'[p] = pc[p],
         mem'[p].next = mem[p].next, mem'[p].outcome = mem[p].outcome,
         mem'[p].pred = mem[p].pred
  PROVE  ClaimInv(p)'
<1>1. evaluation # None => realized # None
  BY DEF IInv, GlobalInv, EvaluationBacked
<1> QED
  BY <1>1 DEF ClaimInv, Claiming, ReceiptsStand

LEMMA NothingClaimed ==
  ASSUME NEW p \in Proc,
         \/ pc'[p] \notin {"put", "unlock"}
         \/ mem'[p].outcome \notin {"COMPLETE", "REALIZED_COMPLETE", "REFRESHING"}
  PROVE  ClaimInv(p)'
  BY DEF ClaimInv, Claiming

LEMMA PreparedClaim ==
  ASSUME IInv, NEW p \in Proc, NEW st \in State, NEW n \in Labels,
         NEW o \in Status \cup {None}, Prepare(p, st, n, o),
         o \notin {"COMPLETE", "REALIZED_COMPLETE", "REFRESHING"}
  PROVE  ClaimInv(p)'
<1>1. mem'[p].outcome = o
  BY PrepareMoves DEF IInv
<1> QED
  BY <1>1, NothingClaimed

LEMMA ReviewClaim ==
  ASSUME IInv, NEW p \in Proc, NEW sc \in Scope, SetReview(p, sc)
  PROVE  ClaimInv(p)'
  BY ReviewMoves, NothingClaimed

(* REALIZED_COMPLETE is the outcome only when no prediction was asked for. *)
LEMMA RealizedClaim ==
  ASSUME IInv, NEW p \in Proc, AfterRealized(p), realized' # None
  PROVE  ClaimInv(p)'
<1> DEFINE st == Written("REALIZED_COMPLETE", None)
           n  == IF mem[p].pred = None THEN "unlock" ELSE "evaluate"
<1>1. st \in State /\ n \in Labels /\ Prepare(p, st, n, "REALIZED_COMPLETE")
  BY WrittenIs, StatusesAre, LabelsAre DEF AfterRealized
<1>2. n = "unlock" => mem[p].pred = None
  OBVIOUS
<1> HIDE DEF st, n
<1>3. /\ pc'[p] = "put" /\ mem'[p].next = n /\ mem'[p].pred = mem[p].pred
      /\ mem'[p].outcome = "REALIZED_COMPLETE"
  BY <1>1, PrepareMoves, StatusesAre DEF IInv
<1> QED
  BY <1>2, <1>3 DEF ClaimInv, Claiming

(* COMPLETE is the outcome only for the binding that was asked for. *)
LEMMA CompletedClaim ==
  ASSUME IInv, NEW p \in Proc, pc[p] \in {"evaluate", "attest"}, Completed(p),
         evaluation' = Requested(p), realized' = realized
  PROVE  ClaimInv(p)'
<1> DEFINE st == Written("COMPLETE", None)
<1>1. st \in State /\ Prepare(p, st, "unlock", "COMPLETE")
  BY WrittenIs, StatusesAre DEF Completed
<1> HIDE DEF st
<1>2. /\ pc'[p] = "put" /\ mem'[p].pred = mem[p].pred
      /\ mem'[p].outcome = "COMPLETE"
  BY <1>1, PrepareMoves, StatusesAre, LabelsAre DEF IInv
<1>3. mem[p].snap = realized
  BY DEF IInv, LocalInv, Evaluating
<1>4. Requested(p) # None
  BY RequestedType
<1>5. evaluation' = [pred |-> mem'[p].pred, snap |-> realized']
  BY <1>2, <1>3 DEF Requested
<1> QED
  BY <1>2, <1>4, <1>5 DEF ClaimInv

LEMMA ProbeClaim ==
  ASSUME IInv, NEW p \in Proc, Probe(p)
  PROVE  ClaimInv(p)'
<1>1. CASE ProbeEvent(p)
  <2>1. Goto(p, "fixtures")
    BY <1>1 DEF ProbeEvent
  <2> QED
    BY <2>1, NothingClaimed DEF Goto, IInv, Typed
<1>2. CASE ProbeFixtures(p)
  <2> DEFINE o == Observed(p)
             f == mem[p].state.first
             g == RetainedFirst(p, o, f)
  <2>1. Decide(p, o)
    BY <1>2 DEF ProbeFixtures
  <2>2. g \in Observation
    BY ObservedType
  <2>3. \/ Prepare(p, Waiting(None), "unlock", "WAITING")
        \/ Prepare(p, Waiting(g), "unlock", "WAITING")
        \/ Prepare(p, Written("REFRESHING", None), "refresh", None)
    BY <2>1 DEF Decide
  <2> HIDE DEF g
  <2>4. Waiting(None) \in State /\ Waiting(g) \in State
    BY <2>2, WaitingIs
  <2>5. Written("REFRESHING", None) \in State
    BY WrittenIs, StatusesAre
  <2>6. None \notin {"COMPLETE", "REALIZED_COMPLETE", "REFRESHING"}
    BY AbsentAssumption, StatusesAre
  <2> QED
    BY <2>3, <2>4, <2>5, <2>6, PreparedClaim, LabelsAre, StatusesAre
<1>3. CASE ProbeUnavailable(p)
  <2>1. mem'[p].outcome = None
    BY <1>3, RaiseMoves DEF ProbeUnavailable, IInv
  <2> QED
    BY <2>1, NothingClaimed, AbsentAssumption, StatusesAre
<1>4. CASE ProbeMalformed(p)
  BY <1>4, ReviewClaim DEF ProbeMalformed, Scope
<1> QED
  BY <1>1, <1>2, <1>3, <1>4 DEF Probe

LEMMA OwnClaim ==
  ASSUME IInv, ClaimsHonest, NEW p \in Proc,
         Start(p) \/ StartReset(p) \/ Step(p) \/ Kill(p)
  PROVE  ClaimInv(p)'
<1> USE DEF Scope
<1>1. ASSUME NEW l, Goto(p, l), l \notin {"put", "unlock"}
      PROVE  ClaimInv(p)'
  BY <1>1, NothingClaimed DEF Goto, IInv, Typed
<1>2. CASE \/ Start(p) \/ StartReset(p) \/ Kill(p) \/ AcquireLock(p) \/ Locked(p)
           \/ Finish(p)
  BY <1>1, <1>2 DEF Start, StartReset, Kill, AcquireLock, Locked, Finish
<1>3. CASE LoadState(p)
  BY <1>1, <1>3 DEF LoadState
<1>4. CASE Reconcile(p)
  <2>1. CASE ReviewReceipts(p)
    BY <2>1, ReviewClaim DEF ReviewReceipts
  <2>2. CASE StillInReview(p)
    <3>1. mem'[p].outcome = "REVIEW_REQUIRED"
      BY <2>2, ReturnMoves, StatusesAre DEF StillInReview, IInv
    <3> QED
      BY <3>1, NothingClaimed
  <2>3. CASE AlreadyRealized(p)
    BY <2>3, RealizedClaim DEF AlreadyRealized, control
  <2>4. CASE ResumeEvaluation(p) \/ NothingAccepted(p)
    BY <1>1, <2>4 DEF ResumeEvaluation, NothingAccepted
  <2> QED
    BY <1>4, <2>1, <2>2, <2>3, <2>4 DEF Reconcile
<1>5. CASE Adopt(p)
  <2>1. CASE FindCandidate(p) \/ NoCandidate(p)
    BY <1>1, <2>1 DEF FindCandidate, NoCandidate
  <2>2. CASE RefreshWasInterrupted(p) \/ RealizedExists(p)
    BY <2>2, ReviewClaim DEF RefreshWasInterrupted, RealizedExists
  <2>3. CASE PublishRealized(p)
    <3>1. Finished(mem[p].snap)
      BY <2>3 DEF PublishRealized, IInv, LocalInv
    <3>2. mem[p].snap \in SnapId
      BY <3>1, SnapshotTypes DEF Finished
    <3>3. mem[p].snap # None
      BY <3>2, NoneAssumption, BoundAssumption DEF SnapId
    <3> QED
      BY <2>3, <3>3, RealizedClaim DEF PublishRealized
  <2> QED
    BY <1>5, <2>1, <2>2, <2>3 DEF Adopt
<1>6. CASE WriteState(p)
  <2>1. pc[p] = "put" /\ Goto(p, mem[p].next) /\ mem[p].next # "put"
    BY <1>6 DEF WriteState, IInv, LocalInv
  <2>2. CASE mem[p].next = "unlock"
    <3>1. ClaimInv(p) /\ Claiming(p)
      BY <2>1, <2>2 DEF ClaimsHonest, Claiming
    <3>2. UNCHANGED <<realized, evaluation, mem>>
      BY <1>6 DEF WriteState
    <3> QED
      BY <3>1, <3>2 DEF ClaimInv
  <2>3. CASE mem[p].next # "unlock"
    BY <1>1, <2>1, <2>3
  <2> QED
    BY <2>2, <2>3
<1>7. CASE Refresh(p)
  <2>1. CASE BeginRefresh(p)
    BY <1>1, <2>1 DEF BeginRefresh
  <2>2. CASE FinishRefresh(p)
    <3>1. mem[p].state \in State /\ Prepare(p, mem[p].state, "validate", None)
      BY <2>2 DEF FinishRefresh, IInv, Typed, Mem
    <3>2. None \notin {"COMPLETE", "REALIZED_COMPLETE", "REFRESHING"}
      BY AbsentAssumption, StatusesAre
    <3> QED
      BY <3>1, <3>2, PreparedClaim, LabelsAre
  <2>3. CASE RefreshFails(p)
    BY <2>3, ReviewClaim DEF RefreshFails
  <2>4. CASE ValidateRefreshed(p)
    BY <1>1, <2>4, ReviewClaim DEF ValidateRefreshed
  <2> QED
    BY <1>7, <2>1, <2>2, <2>3, <2>4 DEF Refresh
<1>8. CASE Evaluate(p)
  <2>1. CASE EvaluationAccepted(p)
    BY <2>1, CompletedClaim DEF EvaluationAccepted, control
  <2>2. CASE FindEvaluation(p) \/ RunEvaluation(p)
    BY <1>1, <2>2 DEF FindEvaluation, RunEvaluation
  <2>3. CASE EvaluationFails(p)
    BY <2>3, ReviewClaim DEF EvaluationFails
  <2>4. CASE PublishEvaluation(p)
    BY <2>4, CompletedClaim, ReviewClaim DEF PublishEvaluation
  <2> QED
    BY <1>8, <2>1, <2>2, <2>3, <2>4 DEF Evaluate
<1>9. CASE Reset(p)
  <2>1. None \notin {"COMPLETE", "REALIZED_COMPLETE", "REFRESHING"}
    BY AbsentAssumption, StatusesAre
  <2>2. CASE RefuseReset(p)
    <3>1. mem'[p].outcome = None
      BY <2>2, RaiseMoves DEF RefuseReset, IInv
    <3> QED
      BY <2>1, <3>1, NothingClaimed
  <2>3. CASE ArchiveReview(p)
    <3> DEFINE x  == IF mem[p].state.scope = "evaluation" THEN "REALIZED_COMPLETE"
                     ELSE "WAITING"
               st == Written(x, None)
    <3>1. st \in State /\ Prepare(p, st, "unlock", None)
      BY <2>3, WrittenIs, StatusesAre DEF ArchiveReview
    <3> HIDE DEF st
    <3> QED
      BY <2>1, <3>1, PreparedClaim, LabelsAre
  <2> QED
    BY <1>9, <2>2, <2>3 DEF Reset
<1> QED
  BY <1>2, <1>3, <1>4, <1>5, <1>6, <1>7, <1>8, <1>9, ProbeClaim DEF Step

LEMMA ClaimStep ==
  ASSUME IInv, ClaimsHonest, [Next]_vars
  PROVE  ClaimsHonest'
<1>1. ReceiptsStand
  BY ReceiptsStay
<1>2. ASSUME NEW q \in Proc, pc'[q] = pc[q], mem'[q] = mem[q]
      PROVE  ClaimInv(q)'
  BY <1>1, <1>2, ClaimStays DEF ClaimsHonest
<1>3. ASSUME NEW p \in Proc, Start(p) \/ StartReset(p) \/ Step(p) \/ Kill(p)
      PROVE  ClaimsHonest'
  <2>1. Only(p) /\ ClaimInv(p)'
    BY <1>3, OnlyOne, OwnClaim
  <2> QED
    BY <1>2, <2>1 DEF ClaimsHonest, Only
<1>4. CASE Tick
  <2>1. ASSUME NEW q \in Proc PROVE ClaimInv(q)'
    <3>1. /\ pc'[q] = pc[q] /\ mem'[q].next = mem[q].next
          /\ mem'[q].outcome = mem[q].outcome /\ mem'[q].pred = mem[q].pred
      BY <1>4, BackTypes DEF Tick, IInv, Typed
    <3> QED
      BY <1>1, <3>1, ClaimStays DEF ClaimsHonest
  <2> QED
    BY <2>1 DEF ClaimsHonest
<1>5. CASE Outside /\ ~Tick
  <2>1. UNCHANGED <<pc, mem>>
    BY <1>5 DEF Outside, Unlock, DeadlinePasses, OfficialChanges, OwnerBeginsRefresh,
                OwnerFinishesRefresh, Damage
  <2> QED
    BY <1>2, <2>1 DEF ClaimsHonest
<1>6. CASE UNCHANGED vars
  BY <1>2, <1>6 DEF vars, ClaimsHonest
<1> QED
  BY <1>3, <1>4, <1>5, <1>6 DEF Next

(* COMPLETE is reported only for the prediction that was asked for, evaluated
   against the accepted snapshot, and REALIZED_COMPLETE only when none was
   asked for (monitor_completion, _ensure_evaluation), whoever deletes locks. *)
THEOREM OutcomeTruth == Spec => []OutcomeTruthful
<1>1. Init => ClaimsHonest
  BY DEF Init, ClaimsHonest, ClaimInv, Claiming
<1>2. IInv /\ ClaimsHonest /\ [Next]_vars => ClaimsHonest'
  BY ClaimStep
<1>3. ClaimsHonest => OutcomeTruthful
  BY DEF ClaimsHonest, ClaimInv, Claiming, OutcomeTruthful
<1> QED
  BY <1>1, <1>2, <1>3, Invariance, PTL DEF Spec

-----------------------------------------------------------------------------
(* The contract with the production schedule, whoever deletes locks *)

(* What the receipts on disk amount to, as EngineContract counts them. *)
Accepted == IF evaluation # None THEN "evaluated"
            ELSE IF realized # None THEN "realized" ELSE "none"

AcceptsInOrder == [][Accepted' # Accepted => Accepted' \in Successors(Accepted)]_vars

(* A call without an outcome raises an exception: "retryable" or "error". *)
ReportsWhatIsPossible ==
  \A p \in Proc : pc[p] = "unlock" => mem[p].outcome \in Possible(Accepted) \cup {None}

(* What may be reported now may still be reported after the next step. *)
PossibleStays == [][Possible(Accepted) \subseteq Possible(Accepted')]_vars

LEMMA AcceptedStep ==
  ASSUME IInv, IInv', [Next]_vars, Accepted' # Accepted
  PROVE  Accepted' \in Successors(Accepted)
<1>1. /\ [Ledger!LedgerNext]_(Ledger!ledgerVars)
      /\ evaluation # None => realized # None
      /\ evaluation' # None => realized' # None
  BY LedgerStep DEF IInv, GlobalInv, EvaluationBacked
<1>2. CASE UNCHANGED <<realized, evaluation>>
  BY <1>2 DEF Accepted
<1>3. ASSUME NEW s, Ledger!AcceptRealized(s)
      PROVE  Accepted' \in Successors(Accepted)
  BY <1>1, <1>3 DEF Ledger!AcceptRealized, Accepted, Successors
<1>4. ASSUME NEW q, Ledger!AcceptEvaluation(q)
      PROVE  Accepted' \in Successors(Accepted)
  BY <1>1, <1>4 DEF Ledger!AcceptEvaluation, Accepted, Successors
<1> QED
  BY <1>1, <1>2, <1>3, <1>4 DEF Ledger!LedgerNext, Ledger!Finalize, Ledger!ledgerVars

(* The receipts that the schedule's engine accepts are accepted by the monitor
   one at a time and in the order that EngineAccepts of ProductionSchedule
   assumes (_publish_realized_receipt, _publish_evaluation_receipt). *)
THEOREM ContractOrder == Spec => AcceptsInOrder
<1>1. IInv /\ IInv' /\ [Next]_vars
        => [Accepted' # Accepted => Accepted' \in Successors(Accepted)]_vars
  BY AcceptedStep
<1> QED
  BY <1>1, Invariance, PTL DEF Spec, AcceptsInOrder

(* What may be reported now may be reported after anything that is accepted
   until the caller gets to see it. *)
LEMMA PossibleGrows ==
  ASSUME NEW a \in Receipts, NEW b \in Successors(a)
  PROVE  b \in Receipts /\ Possible(a) \subseteq Possible(b)
  BY DEF Receipts, Successors, Possible

(* Whatever a call of monitor_completion is about to report is an outcome that
   EngineReturns of ProductionSchedule allows for, success only if it has been
   accepted, whoever deletes locks; and it stays one until it is reported. *)
THEOREM ContractOutcomes ==
  Spec => []ReportsWhatIsPossible /\ PossibleStays
<1>1. Init => ClaimsHonest
  BY DEF Init, ClaimsHonest, ClaimInv, Claiming
<1>2. IInv /\ ClaimsHonest /\ [Next]_vars => ClaimsHonest'
  BY ClaimStep
<1>3. Accepted \in Receipts
  BY DEF Accepted, Receipts
<1>4. IInv /\ ClaimsHonest => ReportsWhatIsPossible
  <2> SUFFICES ASSUME IInv, ClaimsHonest, NEW p \in Proc, pc[p] = "unlock"
               PROVE  mem[p].outcome \in Possible(Accepted) \cup {None}
    BY DEF ReportsWhatIsPossible
  <2>1. mem[p].outcome \in Status \cup {None}
    BY DEF IInv, Typed, Mem
  <2>2. /\ mem[p].outcome = "COMPLETE" => evaluation # None
        /\ mem[p].outcome = "REALIZED_COMPLETE" => realized # None
        /\ mem[p].outcome # "REFRESHING"
    BY DEF ClaimsHonest, ClaimInv, Claiming
  <2> QED
    BY <2>1, <2>2 DEF Accepted, Possible, Status
<1>5. IInv /\ IInv' /\ [Next]_vars
        => [Possible(Accepted) \subseteq Possible(Accepted')]_vars
  <2> SUFFICES ASSUME IInv, IInv', [Next]_vars
               PROVE  Possible(Accepted) \subseteq Possible(Accepted')
    OBVIOUS
  <2>1. CASE Accepted' # Accepted
    BY <1>3, <2>1, AcceptedStep, PossibleGrows
  <2>2. CASE Accepted' = Accepted
    BY <2>2
  <2> QED
    BY <2>1, <2>2
<1> QED
  BY <1>1, <1>2, <1>4, <1>5, Invariance, PTL DEF Spec, PossibleStays

-----------------------------------------------------------------------------
(* Observations: how far the date of one lies behind its arrival *)

LEMMA NothingSeen == SeenInTime(None)
  BY DEF SeenInTime

LEMMA BackObserved ==
  ASSUME NEW o \in Observation \cup {None}, SeenInTime(o)
  PROVE  SeenInTime(BackObs(o)) /\ (BackObs(o) = None <=> o = None)
<1>1. CASE o = None
  BY <1>1 DEF BackObs, SeenInTime
<1>2. CASE o # None
  <2>1. o \in Observation /\ o.at \in Nat /\ o.seen \in Nat
    BY <1>2, WindowAssumption DEF Observation, Time
  <2>2. o.seen <= o.at + MaxStall
    BY <1>2 DEF SeenInTime
  <2> DEFINE b == [digest |-> o.digest, at |-> Back(o.at), seen |-> Back(o.seen)]
  <2>3. BackObs(o) = b /\ b.at = Back(o.at) /\ b.seen = Back(o.seen)
    BY <1>2 DEF BackObs
  <2>4. Back(o.seen) <= Back(o.at) + MaxStall
    BY <2>1, <2>2, WindowAssumption DEF Back
  <2>5. b \in Observation
    <3>1. Back(o.at) \in Time /\ Back(o.seen) \in Time /\ o.digest \in Digest
      BY <2>1, BackTypes DEF Observation
    <3> QED
      BY <3>1 DEF Observation
  <2> HIDE DEF b
  <2>6. b # None
    BY <2>5, AbsentAssumption
  <2> QED
    BY <1>2, <2>3, <2>4, <2>6 DEF SeenInTime
<1> QED
  BY <1>1, <1>2

(* The response of this invocation arrives within MaxStall of its start. *)
LEMMA ObservedInTimeNow ==
  ASSUME IInv, NEW p \in Proc, ObservingInv(p), pc[p] = "fixtures"
  PROVE  /\ SeenInTime(Observed(p))
         /\ SeenInTime(RetainedFirst(p, Observed(p), mem[p].state.first))
<1>1. Now - mem[p].started <= MaxStall
  BY DEF ObservingInv, Observing
<1>2. mem[p].started \in Nat
  BY WindowAssumption DEF IInv, Typed, Mem, Time
<1>3. Observed(p).seen = Now /\ Observed(p).at = mem[p].started
  BY DEF Observed
<1>4. SeenInTime(Observed(p))
  BY <1>1, <1>2, <1>3, WindowAssumption DEF SeenInTime
<1> QED
  BY <1>4 DEF RetainedFirst, ObservingInv

LEMMA ObservingStays ==
  ASSUME NEW q \in Proc, ObservingInv(q), pc'[q] = pc[q], mem'[q] = mem[q],
         afterDeadline => afterDeadline'
  PROVE  ObservingInv(q)'
  BY DEF ObservingInv, Observing, SeenInTime

(* An invocation that has decided, or has ended, observes nothing. *)
LEMMA ObservesNoMore ==
  ASSUME NEW p \in Proc, pc'[p] \in Labels,
         pc'[p] \notin {"lock", "load", "reconcile", "scan", "probe", "fixtures"},
         mem'[p].late = FALSE, SeenInTime(mem'[p].state.first)
  PROVE  ObservingInv(p)'
  BY DEF ObservingInv, Observing, SeenInTime

(* Going on with the same local variables. *)
LEMMA ObservesOn ==
  ASSUME IInv, NEW p \in Proc, ObservingInv(p), NEW l, Goto(p, l), UNCHANGED mem,
         UNCHANGED afterDeadline,
         l \in {"lock", "load", "reconcile", "scan", "probe", "fixtures"} => Observing(p),
         l \in {"reconcile", "scan", "probe", "fixtures"} =>
           pc[p] \in {"reconcile", "scan", "probe", "fixtures"}
  PROVE  ObservingInv(p)'
<1>1. pc'[p] = l
  BY DEF Goto, IInv, Typed
<1> QED
  BY <1>1 DEF ObservingInv, Observing, SeenInTime

LEMMA ReviewObserves ==
  ASSUME IInv, NEW p \in Proc, NEW sc \in Scope, SetReview(p, sc)
  PROVE  ObservingInv(p)'
<1>1. pc'[p] = "put" /\ mem'[p].late = FALSE /\ mem'[p].state.first = None
  BY ReviewMoves
<1> QED
  BY <1>1, ObservesNoMore, NothingSeen, LabelsAre

LEMMA PreparedObserves ==
  ASSUME IInv, NEW p \in Proc, NEW st \in State, NEW n \in Labels,
         NEW o \in Status \cup {None}, Prepare(p, st, n, o), SeenInTime(st.first)
  PROVE  ObservingInv(p)'
<1>1. pc'[p] = "put" /\ mem'[p].state = st
  BY PrepareMoves DEF IInv
<1>2. mem'[p].late = FALSE
  BY PrepareKeeps DEF IInv
<1> QED
  BY <1>1, <1>2, ObservesNoMore, LabelsAre

LEMMA RealizedObserves ==
  ASSUME IInv, NEW p \in Proc, AfterRealized(p)
  PROVE  ObservingInv(p)'
<1> DEFINE st == Written("REALIZED_COMPLETE", None)
           n  == IF mem[p].pred = None THEN "unlock" ELSE "evaluate"
<1>1. /\ st \in State /\ n \in Labels /\ Prepare(p, st, n, "REALIZED_COMPLETE")
      /\ SeenInTime(st.first)
  BY WrittenIs, StatusesAre, LabelsAre, NothingSeen DEF AfterRealized
<1> HIDE DEF st, n
<1> QED
  BY <1>1, PreparedObserves, StatusesAre

LEMMA CompletedObserves ==
  ASSUME IInv, NEW p \in Proc, Completed(p)
  PROVE  ObservingInv(p)'
<1> DEFINE st == Written("COMPLETE", None)
<1>1. st \in State /\ Prepare(p, st, "unlock", "COMPLETE") /\ SeenInTime(st.first)
  BY WrittenIs, StatusesAre, NothingSeen DEF Completed
<1> HIDE DEF st
<1> QED
  BY <1>1, PreparedObserves, StatusesAre, LabelsAre

LEMMA FreshObserves ==
  ASSUME IInv, NEW p \in Proc, Keep(p, FreshMem), NEW l \in {"idle", "unlock"}, Goto(p, l)
  PROVE  ObservingInv(p)'
<1>1. mem'[p] = FreshMem /\ pc'[p] = l /\ l \in Labels
  BY LabelsAre DEF Keep, Goto, IInv, Typed
<1>2. FreshMem.late = FALSE /\ SeenInTime(FreshMem.state.first)
  BY FreshMemType, NewStateIs, NothingSeen
<1> QED
  BY <1>1, <1>2, ObservesNoMore

(* A call that is resumed with a snapshot in hand observes nothing either. *)
LEMMA LocalsObserve ==
  ASSUME IInv, NEW p \in Proc, NEW q, NEW s, NEW o, NEW l \in {"evaluate", "adopt", "unlock"},
         Keep(p, Locals("monitor", q, s, NewState, "unlock", o)), Goto(p, l)
  PROVE  ObservingInv(p)'
<1>1. pc'[p] = l /\ l \in Labels
  BY LabelsAre DEF Goto, IInv, Typed
<1>2. mem'[p].late = FALSE /\ mem'[p].state = NewState
  BY DEF Keep, Locals, IInv, Typed
<1> QED
  BY <1>1, <1>2, ObservesNoMore, NewStateIs, NothingSeen

LEMMA StartObserves ==
  ASSUME IInv, NEW p \in Proc, Start(p) \/ StartReset(p)
  PROVE  ObservingInv(p)'
<1>1. CASE Start(p)
  <2>1. PICK q \in Prediction \cup {None} :
          Keep(p, [FreshMem EXCEPT !.pred = q, !.started = Now, !.late = afterDeadline])
    BY <1>1 DEF Start
  <2> DEFINE m1 == [FreshMem EXCEPT !.pred = q]
             m2 == [m1 EXCEPT !.started = Now]
             m  == [m2 EXCEPT !.late = afterDeadline]
  <2>2. m1 \in Mem /\ m1.state = NewState /\ m1.next = "unlock" /\ m1.job = "monitor"
    BY FreshMemType DEF Mem
  <2>3. Keep(p, m) /\ Goto(p, "lock") /\ UNCHANGED afterDeadline
    BY <1>1, <2>1 DEF Start, world
  <2> HIDE DEF m1
  <2>4. /\ m2 \in Mem /\ m2.state = NewState /\ m2.next = "unlock" /\ m2.job = "monitor"
        /\ m2.started = Now
    BY <2>2, TimeType DEF Mem
  <2> HIDE DEF m2
  <2>5. /\ m.state = NewState /\ m.next = "unlock" /\ m.job = "monitor"
        /\ m.started = Now /\ m.late = afterDeadline
    BY <2>4 DEF Mem
  <2> HIDE DEF m
  <2>6. mem'[p] = m /\ pc'[p] = "lock"
    BY <2>3 DEF Keep, Goto, IInv, Typed
  <2>7. SeenInTime(mem'[p].state.first)
    BY <2>5, <2>6, NewStateIs, NothingSeen
  <2>8. Now - mem'[p].started <= MaxStall
    BY <2>5, <2>6, WindowAssumption
  <2>9. (mem[p].late => afterDeadline)'
    BY <2>3, <2>5, <2>6
  <2>10. mem'[p].next = "unlock"
    BY <2>5, <2>6
  <2> QED
    BY <2>6, <2>7, <2>8, <2>9, <2>10 DEF ObservingInv, SeenInTime
<1>2. CASE StartReset(p)
  <2>1. /\ Keep(p, Locals("reset", None, None, NewState, "unlock", None))
        /\ Goto(p, "lock")
    BY <1>2 DEF StartReset
  <2>2. /\ mem'[p].state = NewState /\ mem'[p].next = "unlock"
        /\ mem'[p].job = "reset" /\ mem'[p].late = FALSE /\ pc'[p] = "lock"
    BY <2>1 DEF Keep, Goto, Locals, IInv, Typed
  <2>3. SeenInTime(mem'[p].state.first)
    BY <2>2, NewStateIs, NothingSeen
  <2> QED
    BY <2>2, <2>3 DEF ObservingInv, SeenInTime
<1> QED
  BY <1>1, <1>2

LEMMA LoadObserves ==
  ASSUME IInv, ObservedInTime, NEW p \in Proc, LoadState(p)
  PROVE  ObservingInv(p)'
<1> DEFINE m == [mem[p] EXCEPT !.state = state]
           l == IF mem[p].job = "reset" THEN "reset" ELSE "reconcile"
<1>1. /\ Keep(p, m) /\ Goto(p, l) /\ pc[p] = "load" /\ UNCHANGED afterDeadline
  BY DEF LoadState, world
<1>2. /\ mem[p] \in Mem /\ mem[p].job \in {"monitor", "reset"} /\ state \in State
      /\ mem[p].started \in Time /\ mem[p].late \in BOOLEAN
  BY DEF IInv, Typed, GlobalInv, GlobalType, Mem
<1>3. /\ m.state = state /\ m.job = mem[p].job /\ m.started = mem[p].started
      /\ m.late = mem[p].late /\ m.next = mem[p].next
  BY <1>2 DEF Mem
<1>4. l = "reset" \/ (l = "reconcile" /\ mem[p].job = "monitor")
  BY <1>2
<1> HIDE DEF m, l
<1>5. mem'[p] = m /\ pc'[p] = l
  BY <1>1 DEF Keep, Goto, IInv, Typed
<1>6. SeenInTime(mem'[p].state.first)
  BY <1>3, <1>5 DEF ObservedInTime
<1>7. ObservingInv(p) /\ Observing(p)
  BY <1>1 DEF ObservedInTime, Observing
<1>8. (mem[p].late => afterDeadline)'
  BY <1>1, <1>3, <1>5, <1>7 DEF ObservingInv
<1>9. mem'[p].next = "unlock"
  BY <1>3, <1>5, <1>7 DEF ObservingInv
<1>10. mem[p].job = "monitor" => Now - mem'[p].started <= MaxStall
  BY <1>3, <1>5, <1>7 DEF ObservingInv
<1>11. mem'[p].job = mem[p].job
  BY <1>3, <1>5
<1> QED
  BY <1>4, <1>5, <1>6, <1>8, <1>9, <1>10, <1>11 DEF ObservingInv, Observing, SeenInTime

LEMMA ProbeObserves ==
  ASSUME IInv, ObservedInTime, NEW p \in Proc, Probe(p)
  PROVE  ObservingInv(p)'
<1>1. CASE ProbeEvent(p)
  <2> DEFINE m == [mem[p] EXCEPT !.event = official.event]
  <2>1. Keep(p, m) /\ Goto(p, "fixtures") /\ pc[p] = "probe" /\ UNCHANGED afterDeadline
    BY <1>1 DEF ProbeEvent, world
  <2>2. mem[p] \in Mem
    BY DEF IInv, Typed
  <2>3. /\ m.state = mem[p].state /\ m.job = mem[p].job /\ m.started = mem[p].started
        /\ m.late = mem[p].late /\ m.next = mem[p].next
    BY <2>2 DEF Mem
  <2> HIDE DEF m
  <2>4. mem'[p] = m /\ pc'[p] = "fixtures"
    BY <2>1 DEF Keep, Goto, IInv, Typed
  <2>5. ObservingInv(p) /\ Observing(p) /\ mem[p].job = "monitor"
    BY <2>1 DEF ObservedInTime, ObservingInv, Observing
  <2>6. SeenInTime(mem'[p].state.first)
    BY <2>3, <2>4, <2>5 DEF ObservingInv
  <2>7. Now - mem'[p].started <= MaxStall
    BY <2>3, <2>4, <2>5 DEF ObservingInv
  <2>8. (mem[p].late => afterDeadline)'
    BY <2>1, <2>3, <2>4, <2>5 DEF ObservingInv
  <2>9. mem'[p].next = "unlock" /\ mem'[p].job = "monitor"
    BY <2>3, <2>4, <2>5 DEF ObservingInv
  <2> QED
    BY <2>4, <2>6, <2>7, <2>8, <2>9 DEF ObservingInv, SeenInTime
<1>2. CASE ProbeFixtures(p)
  <2> DEFINE o == Observed(p)
             f == mem[p].state.first
             g == RetainedFirst(p, o, f)
  <2>1. Decide(p, o) /\ pc[p] = "fixtures"
    BY <1>2 DEF ProbeFixtures
  <2>2. g \in Observation
    BY ObservedType
  <2>3. SeenInTime(g)
    BY <2>1, ObservedInTimeNow DEF ObservedInTime
  <2>4. \/ Prepare(p, Waiting(None), "unlock", "WAITING")
        \/ Prepare(p, Waiting(g), "unlock", "WAITING")
        \/ Prepare(p, Written("REFRESHING", None), "refresh", None)
    BY <2>1 DEF Decide
  <2> HIDE DEF g
  <2>5. /\ Waiting(None) \in State /\ Waiting(None).first = None
        /\ Waiting(g) \in State /\ Waiting(g).first = g
    BY <2>2, WaitingIs
  <2>6. /\ Written("REFRESHING", None) \in State
        /\ Written("REFRESHING", None).first = None
    BY WrittenIs, StatusesAre
  <2> QED
    BY <2>3, <2>4, <2>5, <2>6, NothingSeen, PreparedObserves, LabelsAre, StatusesAre
<1>3. CASE ProbeUnavailable(p)
  BY <1>3, FreshObserves DEF ProbeUnavailable, Raise
<1>4. CASE ProbeMalformed(p)
  BY <1>4, ReviewObserves DEF ProbeMalformed, Scope
<1> QED
  BY <1>1, <1>2, <1>3, <1>4 DEF Probe

LEMMA BeginObserves ==
  ASSUME IInv, ObservedInTime, NEW p \in Proc, BeginRefresh(p)
  PROVE  ObservingInv(p)'
<1> DEFINE m == [mem[p] EXCEPT !.snap = Len(snapshots) + 1]
<1>1. Keep(p, m) /\ Goto(p, "capture") /\ UNCHANGED afterDeadline
  BY DEF BeginRefresh, world
<1>2. m.state = mem[p].state /\ m.late = mem[p].late
  BY DEF IInv, Typed, Mem
<1> HIDE DEF m
<1>3. mem'[p] = m /\ pc'[p] = "capture"
  BY <1>1 DEF Keep, Goto, IInv, Typed
<1>4. SeenInTime(mem'[p].state.first)
  BY <1>2, <1>3 DEF ObservedInTime, ObservingInv
<1>5. (mem[p].late => afterDeadline)'
  BY <1>1, <1>2, <1>3 DEF ObservedInTime, ObservingInv
<1> QED
  BY <1>3, <1>4, <1>5 DEF ObservingInv, Observing, SeenInTime

LEMMA OwnObservation ==
  ASSUME IInv, ObservedInTime, NEW p \in Proc,
         Start(p) \/ StartReset(p) \/ Step(p) \/ Kill(p)
  PROVE  ObservingInv(p)'
<1> USE DEF Scope
<1>1. ObservingInv(p)
  BY DEF ObservedInTime
<1>2. CASE Kill(p) \/ Locked(p) \/ Finish(p)
  BY <1>2, FreshObserves DEF Kill, Locked, Finish
<1>3. CASE AcquireLock(p)
  BY <1>1, <1>3, ObservesOn DEF AcquireLock, world, Observing
<1>4. CASE Reconcile(p)
  <2>1. CASE ReviewReceipts(p)
    BY <2>1, ReviewObserves DEF ReviewReceipts
  <2>2. CASE StillInReview(p)
    BY <2>2, LocalsObserve DEF StillInReview, Return
  <2>3. CASE AlreadyRealized(p)
    BY <2>3, RealizedObserves DEF AlreadyRealized
  <2>4. CASE ResumeEvaluation(p)
    BY <2>4, LocalsObserve DEF ResumeEvaluation
  <2>5. CASE NothingAccepted(p)
    BY <1>1, <2>5, ObservesOn DEF NothingAccepted, world, Observing
  <2> QED
    BY <1>4, <2>1, <2>2, <2>3, <2>4, <2>5 DEF Reconcile
<1>5. CASE Adopt(p)
  <2>1. CASE FindCandidate(p)
    BY <2>1, LocalsObserve DEF FindCandidate
  <2>2. CASE NoCandidate(p)
    BY <1>1, <2>2, ObservesOn DEF NoCandidate, world, Observing
  <2>3. CASE RefreshWasInterrupted(p) \/ RealizedExists(p)
    BY <2>3, ReviewObserves DEF RefreshWasInterrupted, RealizedExists
  <2>4. CASE PublishRealized(p)
    BY <2>4, RealizedObserves DEF PublishRealized
  <2> QED
    BY <1>5, <2>1, <2>2, <2>3, <2>4 DEF Adopt
<1>6. CASE WriteState(p)
  <2>1. Goto(p, mem[p].next) /\ UNCHANGED mem /\ UNCHANGED afterDeadline
    BY <1>6 DEF WriteState, world
  <2>2. mem[p].next \in {"unlock", "evaluate", "refresh", "validate"}
    BY <1>6 DEF WriteState, IInv, LocalInv
  <2> QED
    BY <1>1, <2>1, <2>2, ObservesOn
<1>7. CASE Refresh(p)
  <2>1. CASE FinishRefresh(p)
    <3>1. mem[p].state \in State /\ Prepare(p, mem[p].state, "validate", None)
      BY <2>1 DEF FinishRefresh, IInv, Typed, Mem
    <3>2. SeenInTime(mem[p].state.first)
      BY <1>1 DEF ObservingInv
    <3> QED
      BY <3>1, <3>2, PreparedObserves, LabelsAre
  <2>2. CASE RefreshFails(p)
    BY <2>2, ReviewObserves DEF RefreshFails
  <2>3. CASE ValidateRefreshed(p)
    BY <1>1, <2>3, ReviewObserves, ObservesOn DEF ValidateRefreshed, world
  <2> QED
    BY <1>7, <2>1, <2>2, <2>3, BeginObserves DEF Refresh
<1>8. CASE Evaluate(p)
  <2>1. CASE EvaluationAccepted(p)
    BY <2>1, CompletedObserves DEF EvaluationAccepted
  <2>2. CASE FindEvaluation(p)
    BY <1>1, <2>2, ObservesOn DEF FindEvaluation, world
  <2>3. CASE RunEvaluation(p)
    BY <1>1, <2>3, ObservesOn DEF RunEvaluation, world
  <2>4. CASE EvaluationFails(p)
    BY <2>4, ReviewObserves DEF EvaluationFails
  <2>5. CASE PublishEvaluation(p)
    BY <2>5, CompletedObserves, ReviewObserves DEF PublishEvaluation
  <2> QED
    BY <1>8, <2>1, <2>2, <2>3, <2>4, <2>5 DEF Evaluate
<1>9. CASE Reset(p)
  <2>1. CASE RefuseReset(p)
    BY <2>1, FreshObserves DEF RefuseReset, Raise
  <2>2. CASE ArchiveReview(p)
    <3> DEFINE x  == IF mem[p].state.scope = "evaluation" THEN "REALIZED_COMPLETE"
                     ELSE "WAITING"
               st == Written(x, None)
    <3>1. /\ st \in State /\ st.first = None /\ Prepare(p, st, "unlock", None)
      BY <2>2, WrittenIs, StatusesAre DEF ArchiveReview
    <3> HIDE DEF st
    <3> QED
      BY <3>1, PreparedObserves, NothingSeen, LabelsAre
  <2> QED
    BY <1>9, <2>1, <2>2 DEF Reset
<1> QED
  BY <1>2, <1>3, <1>4, <1>5, <1>6, <1>7, <1>8, <1>9, StartObserves, LoadObserves,
     ProbeObserves DEF Step

(* state.json is written by one kind of step. *)
LEMMA OneWriter ==
  ASSUME NEW p \in Proc, Start(p) \/ StartReset(p) \/ Step(p) \/ Kill(p), ~WriteState(p)
  PROVE  UNCHANGED state
<1> USE DEF control
<1>1. CASE \/ Start(p) \/ StartReset(p) \/ Kill(p) \/ AcquireLock(p) \/ Locked(p)
           \/ LoadState(p) \/ Finish(p)
  BY <1>1 DEF Start, StartReset, Kill, AcquireLock, Locked, LoadState, Finish
<1>2. CASE Reconcile(p)
  BY <1>2 DEF Reconcile, ReviewReceipts, StillInReview, AlreadyRealized,
              ResumeEvaluation, NothingAccepted
<1>3. CASE Probe(p)
  BY <1>3 DEF Probe, ProbeEvent, ProbeFixtures, ProbeUnavailable, ProbeMalformed
<1>4. CASE Reset(p)
  BY <1>4 DEF Reset, RefuseReset, ArchiveReview
<1>5. CASE Adopt(p)
  BY <1>5 DEF Adopt, FindCandidate, RefreshWasInterrupted, NoCandidate, PublishRealized,
              RealizedExists
<1>6. CASE Refresh(p)
  BY <1>6 DEF Refresh, BeginRefresh, FinishRefresh, RefreshFails, ValidateRefreshed
<1>7. CASE Evaluate(p)
  BY <1>7 DEF Evaluate, EvaluationAccepted, FindEvaluation, RunEvaluation,
              EvaluationFails, PublishEvaluation
<1> QED
  BY <1>1, <1>2, <1>3, <1>4, <1>5, <1>6, <1>7 DEF Step

LEMMA DeadlineStays ==
  ASSUME [Next]_vars, afterDeadline
  PROVE  afterDeadline'
<1>1. ASSUME NEW p \in Proc, Start(p) \/ StartReset(p) \/ Step(p) \/ Kill(p)
      PROVE  UNCHANGED afterDeadline
  <2> USE DEF world
  <2>1. CASE \/ Start(p) \/ StartReset(p) \/ Kill(p) \/ AcquireLock(p) \/ Locked(p)
             \/ LoadState(p) \/ Finish(p) \/ WriteState(p)
    BY <2>1 DEF Start, StartReset, Kill, AcquireLock, Locked, LoadState, Finish, WriteState
  <2>2. CASE Reconcile(p)
    BY <2>2 DEF Reconcile, ReviewReceipts, StillInReview, AlreadyRealized,
                ResumeEvaluation, NothingAccepted
  <2>3. CASE Probe(p)
    BY <2>3 DEF Probe, ProbeEvent, ProbeFixtures, ProbeUnavailable, ProbeMalformed
  <2>4. CASE Reset(p)
    BY <2>4 DEF Reset, RefuseReset, ArchiveReview
  <2>5. CASE Adopt(p)
    BY <2>5 DEF Adopt, FindCandidate, RefreshWasInterrupted, NoCandidate,
                PublishRealized, RealizedExists
  <2>6. CASE Refresh(p)
    BY <2>6 DEF Refresh, BeginRefresh, FinishRefresh, RefreshFails, ValidateRefreshed
  <2>7. CASE Evaluate(p)
    BY <2>7 DEF Evaluate, EvaluationAccepted, FindEvaluation, RunEvaluation,
                EvaluationFails, PublishEvaluation
  <2> QED
    BY <1>1, <2>1, <2>2, <2>3, <2>4, <2>5, <2>6, <2>7 DEF Step
<1>2. CASE Outside
  BY <1>2 DEF Outside, Unlock, Tick, DeadlinePasses, OfficialChanges, OwnerBeginsRefresh,
              OwnerFinishesRefresh, Damage, world
<1> QED
  BY <1>1, <1>2 DEF Next, vars, world

(* The clock does not advance past an observing invocation's MaxStall. *)
LEMMA TickObserves ==
  ASSUME IInv, ObservedInTime, Tick
  PROVE  ObservedInTime'
<1>1. /\ state' = BackState(state)
      /\ mem' = [p \in Proc |-> BackMem(mem[p])]
      /\ UNCHANGED <<pc, afterDeadline>>
  BY DEF Tick, world
<1>2. ASSUME NEW s \in State, SeenInTime(s.first)
      PROVE  SeenInTime(BackState(s).first)
  <2>1. BackState(s).first = BackObs(s.first)
    BY DEF BackState
  <2>2. s.first \in Observation \cup {None}
    BY DEF State
  <2> QED
    BY <1>2, <2>1, <2>2, BackObserved
<1>3. SeenInTime(state'.first)
  BY <1>1, <1>2 DEF ObservedInTime, IInv, GlobalInv, GlobalType
<1>4. ASSUME NEW q \in Proc PROVE ObservingInv(q)'
  <2>1. mem[q] \in Mem /\ mem[q].state \in State /\ mem[q].started \in Nat
    BY WindowAssumption DEF IInv, Typed, Mem, Time
  <2>2. /\ mem'[q].job = mem[q].job /\ mem'[q].late = mem[q].late
        /\ mem'[q].next = mem[q].next /\ mem'[q].started = Back(mem[q].started)
        /\ mem'[q].state = BackState(mem[q].state) /\ pc'[q] = pc[q]
    BY <1>1, <2>1, BackTypes
  <2>3. ObservingInv(q)
    BY DEF ObservedInTime
  <2>4. SeenInTime(mem'[q].state.first)
    BY <1>2, <2>1, <2>2, <2>3 DEF ObservingInv
  <2>5. ASSUME Observing(q), mem[q].job = "monitor"
        PROVE  Now - mem'[q].started <= MaxStall
    <3>1. Now - mem[q].started < MaxStall
      BY <2>5 DEF Tick
    <3> QED
      BY <2>1, <2>2, <3>1, WindowAssumption DEF Back
  <2>6. Observing(q)' <=> Observing(q)
    BY <2>2 DEF Observing
  <2> QED
    BY <1>1, <2>2, <2>3, <2>4, <2>5, <2>6 DEF ObservingInv, SeenInTime
<1> QED
  BY <1>3, <1>4 DEF ObservedInTime, SeenInTime

LEMMA ObservationStep ==
  ASSUME IInv, ObservedInTime, [Next]_vars
  PROVE  ObservedInTime'
<1>1. ASSUME NEW q \in Proc, pc'[q] = pc[q], mem'[q] = mem[q]
      PROVE  ObservingInv(q)'
  BY <1>1, ObservingStays, DeadlineStays DEF ObservedInTime
<1>2. ASSUME NEW p \in Proc, Start(p) \/ StartReset(p) \/ Step(p) \/ Kill(p)
      PROVE  ObservedInTime'
  <2>1. Only(p) /\ ObservingInv(p)'
    BY <1>2, OnlyOne, OwnObservation
  <2>2. \A q \in Proc : ObservingInv(q)'
    BY <1>1, <2>1 DEF Only
  <2>3. state' = state \/ state' = mem[p].state
    BY <1>2, OneWriter DEF WriteState
  <2>4. SeenInTime(state'.first)
    BY <2>3 DEF ObservedInTime, ObservingInv
  <2> QED
    BY <2>2, <2>4 DEF ObservedInTime, SeenInTime
<1>3. CASE (Outside /\ ~Tick) \/ UNCHANGED vars
  <2>1. UNCHANGED <<pc, mem, state>>
    BY <1>3 DEF Outside, Unlock, DeadlinePasses, OfficialChanges, OwnerBeginsRefresh,
                OwnerFinishesRefresh, Damage, control, vars
  <2> QED
    BY <1>1, <2>1 DEF ObservedInTime, SeenInTime
<1> QED
  BY <1>2, <1>3, TickObserves DEF Next

(* The decision to refresh, from what the invocation holds when it is taken. *)
LEMMA StableDecision ==
  ASSUME IInv, ObservedInTime, NEW p \in Proc, ProbeFixtures(p),
         mem'[p].next = "refresh"
  PROVE  LET first == mem[p].state.first
             o     == Observed(p)
         IN  /\ afterDeadline /\ first # None
             /\ Final(o.digest) /\ first.digest = o.digest
             /\ o.seen - first.seen >= Stability - MaxStall
<1> DEFINE o == Observed(p)
           f == mem[p].state.first
           g == RetainedFirst(p, o, f)
<1>1. Decide(p, o) /\ pc[p] = "fixtures"
  BY DEF ProbeFixtures
<1>2. g \in Observation /\ f \in Observation \cup {None}
  BY ObservedType
<1>3. Waiting(None) \in State /\ Waiting(g) \in State
  BY <1>2, WaitingIs
<1>4. /\ ~Prepare(p, Waiting(None), "unlock", "WAITING")
      /\ ~Prepare(p, Waiting(g), "unlock", "WAITING")
  <2> HIDE DEF g
  <2> QED
    BY <1>3, PrepareMoves, LabelsAre, StatusesAre DEF IInv
<1>5. Ready(p, o) /\ Stable(p, o, f)
  BY <1>1, <1>4 DEF Decide
<1>6. /\ Final(o.digest) /\ mem[p].late
      /\ f # None /\ f.digest = o.digest
      /\ mem[p].started >= f.at + Stability
  BY <1>5 DEF Ready, Stable, SameDigest
<1>7. afterDeadline
  BY <1>6 DEF ObservedInTime, ObservingInv
<1>8. f.seen <= f.at + MaxStall
  BY <1>6 DEF ObservedInTime, ObservingInv, SeenInTime
<1>9. /\ f.seen \in Nat /\ f.at \in Nat /\ mem[p].started \in Nat
      /\ mem[p].started <= Now
  <2>1. f \in Observation
    BY <1>2, <1>6
  <2>2. mem[p].started \in Time
    BY DEF IInv, Typed, Mem
  <2> QED
    BY <2>1, <2>2, WindowAssumption DEF Observation, Time
<1>10. o.seen = Now
  BY DEF Observed
<1>11. Now - f.seen >= Stability - MaxStall
  <2> DEFINE s == mem[p].started
             fs == f.seen
             fa == f.at
  <2>1. s \in Nat /\ fs \in Nat /\ fa \in Nat /\ s <= Now /\ s >= fa + Stability
        /\ fs <= fa + MaxStall
    BY <1>6, <1>8, <1>9
  <2> HIDE DEF s, fs, fa
  <2>2. Now - fs >= Stability - MaxStall
    BY <2>1, WindowAssumption
  <2> QED
    BY <2>2 DEF fs
<1> QED
  BY <1>6, <1>7, <1>10, <1>11

LEMMA DecisionIsProbe ==
  ASSUME IInv, ObservedInTime, [Next]_vars, NEW p \in Proc, DecidesRefresh(p)
  PROVE  ProbeFixtures(p)
<1>1. pc[p] = "fixtures" /\ mem'[p].next = "refresh"
  BY DEF DecidesRefresh
<1>2. mem[p].next = "unlock"
  BY <1>1 DEF ObservedInTime, ObservingInv, Observing
<1>3. mem'[p].next # mem[p].next
  BY <1>1, <1>2
<1>4. ASSUME NEW q \in Proc, Start(q) \/ StartReset(q) \/ Step(q) \/ Kill(q)
      PROVE  ProbeFixtures(p)
  <2>1. q = p
    BY <1>3, <1>4, OnlyOne DEF Only
  <2>2. ~Kill(p)
    <3>1. Kill(p) => mem'[p] = FreshMem
      BY DEF Kill, Keep, IInv, Typed
    <3> QED
      BY <1>1, <3>1, FreshMemType
  <2>3. ~ProbeUnavailable(p)
    <3>1. ProbeUnavailable(p) => mem'[p] = FreshMem
      BY RaiseMoves DEF ProbeUnavailable, IInv
    <3> QED
      BY <1>1, <3>1, FreshMemType
  <2>4. ~ProbeMalformed(p)
    BY <1>1, ReviewMoves DEF ProbeMalformed, Scope
  <2>5. Probe(p)
    BY <1>1, <1>4, <2>1, <2>2
       DEF Start, StartReset, Step, AcquireLock, Locked, LoadState, WriteState, Finish,
           Reconcile, ReviewReceipts, StillInReview, AlreadyRealized, ResumeEvaluation,
           NothingAccepted, Adopt, FindCandidate, RefreshWasInterrupted, NoCandidate,
           PublishRealized, RealizedExists, Refresh, BeginRefresh, FinishRefresh,
           RefreshFails, ValidateRefreshed, Evaluate, EvaluationAccepted, FindEvaluation,
           RunEvaluation, EvaluationFails, PublishEvaluation, Reset, RefuseReset,
           ArchiveReview
  <2> QED
    BY <1>1, <2>3, <2>4, <2>5 DEF Probe, ProbeEvent
<1>5. ~Tick
  <2>1. Tick => mem'[p].next = mem[p].next
    BY BackTypes DEF Tick, IInv, Typed
  <2> QED
    BY <1>3, <2>1
<1>6. ~UNCHANGED mem
  BY <1>3
<1> QED
  BY <1>4, <1>5, <1>6
     DEF Next, Outside, Unlock, DeadlinePasses, OfficialChanges, OwnerBeginsRefresh,
         OwnerFinishesRefresh, Damage, vars

(* probe_gameweek_completion launches a refresh only after the deadline, for a
   final digest that an earlier invocation had seen too, and whose response
   had then arrived at least Stability - MaxStall before: for every interval,
   every stall and every number of invocations, locks deleted or not. *)
THEOREM RefreshIsStable == Spec => RefreshOnlyWhenStable
<1>1. Init => ObservedInTime
  BY NewStateIs, FreshMemType, NothingSeen
     DEF Init, ObservedInTime, ObservingInv, Observing
<1>2. IInv /\ ObservedInTime /\ [Next]_vars => ObservedInTime'
  BY ObservationStep
<1> DEFINE Decisions ==
      \A p \in Proc : DecidesRefresh(p) =>
        LET first == mem[p].state.first
            o     == Observed(p)
        IN  /\ afterDeadline /\ first # None
            /\ Final(o.digest) /\ first.digest = o.digest
            /\ o.seen - first.seen >= Stability - MaxStall
<1>3. IInv /\ ObservedInTime /\ [Next]_vars => Decisions
  BY DecisionIsProbe, StableDecision DEF DecidesRefresh
<1>4. RefreshOnlyWhenStable <=> [][Decisions]_vars
  BY PTL DEF RefreshOnlyWhenStable
<1> HIDE DEF Decisions
<1> QED
  BY <1>1, <1>2, <1>3, <1>4, Invariance, PTL DEF Spec

-----------------------------------------------------------------------------
(* What the holder of the lock knows stays true while it works *)

shared == <<state, archive, realized, evaluation, evaluations, attempts>>

LEMMA HeldStays ==
  ASSUME NEW q \in Proc, HeldInv(q), UNCHANGED shared, pc'[q] = pc[q], mem'[q] = mem[q]
  PROVE  HeldInv(q)'
<1> USE DEF shared
<1>1. (pc[q] = "reset" => mem[q].job = "reset")' /\ Loaded(q)' /\ Undisputed(q)'
  BY DEF HeldInv, Loaded, Undisputed
<1>2. NotRefreshing(q)' /\ NoReceiptYet(q)' /\ FirstRefresh(q)'
  BY DEF HeldInv, NotRefreshing, NoReceiptYet, FirstRefresh, Putting
<1>3. Writable(q)'
  BY DEF HeldInv, Writable, EarlyReview
<1>4. FirstEvaluation(q)'
  BY DEF HeldInv, FirstEvaluation, Requested
<1> QED
  BY <1>1, <1>2, <1>3, <1>4 DEF HeldInv

(* Outside the lock, and before and after the work, there is nothing to know. *)
LEMMA NothingHeld ==
  ASSUME NEW p \in Proc, pc'[p] \in {"idle", "lock", "load", "unlock"}
  PROVE  HeldInv(p)'
  BY DEF HeldInv, Loaded, Undisputed, NotRefreshing, NoReceiptYet, FirstRefresh, Putting,
         Writable, FirstEvaluation

LEMMA SharedStays ==
  ASSUME SharedInv, UNCHANGED shared
  PROVE  SharedInv'
  BY DEF SharedInv, OneRefreshPerReset, WaitingIsFresh, EarlyReview, EvaluatedOnce, shared

(* Only the holder can have disturbed what the holder knows. *)
LEMMA HolderMoves ==
  ASSUME IInv, LockExclusive, CarefulInv, NEW p \in Proc, Holding(p), Only(p),
         SharedInv', HeldInv(p)'
  PROVE  CarefulInv'
<1>1. ASSUME NEW q \in Proc, q # p PROVE HeldInv(q)'
  <2>1. ~Holding(q)
    BY <1>1 DEF LockExclusive
  <2> QED
    BY <1>1, <2>1, NothingHeld DEF Only, Holding
<1> QED
  BY <1>1 DEF CarefulInv

(* An invocation that does not touch the files changes nobody's knowledge. *)
LEMMA BystanderMoves ==
  ASSUME CarefulInv, NEW p \in Proc, Only(p), HeldInv(p)', UNCHANGED shared
  PROVE  CarefulInv'
<1>1. ASSUME NEW q \in Proc, q # p PROVE HeldInv(q)'
  BY <1>1, HeldStays DEF CarefulInv, Only
<1> QED
  BY <1>1, SharedStays DEF CarefulInv

LEMMA FilesAlone ==
  ASSUME UNCHANGED <<control, data, attempts>>
  PROVE  UNCHANGED shared
  BY DEF control, data, shared

(* About to write and to return, or to go on to the evaluation. *)
LEMMA WillWrite ==
  ASSUME NEW p \in Proc, pc'[p] = "put", mem'[p].next \notin {"refresh", "validate"},
         Writable(p)'
  PROVE  HeldInv(p)'
  BY DEF HeldInv, Loaded, Undisputed, NotRefreshing, NoReceiptYet, FirstRefresh, Putting,
         FirstEvaluation

LEMMA ReviewHeld ==
  ASSUME IInv, NEW p \in Proc, NEW sc \in Scope, SetReview(p, sc),
         sc \in {"receipt", "realized", "evaluation"} \/ realized' = None
  PROVE  HeldInv(p)'
<1>1. /\ pc'[p] = "put" /\ mem'[p].next = "unlock"
      /\ mem'[p].state.status = "REVIEW_REQUIRED" /\ mem'[p].state.scope = sc
  BY ReviewMoves
<1>2. Writable(p)'
  BY <1>1 DEF Writable, EarlyReview
<1> QED
  BY <1>1, <1>2, WillWrite

(* A decision on a target that is not under review, to be written at once. *)
LEMMA DecisionHeld ==
  ASSUME IInv, NEW p \in Proc, NEW st \in State, NEW n \in {"unlock", "evaluate"},
         NEW o \in Status \cup {None}, Prepare(p, st, n, o),
         state.status # "REVIEW_REQUIRED", UNCHANGED state,
         st.status # "REVIEW_REQUIRED", st.status = "WAITING" => attempts' = 0
  PROVE  HeldInv(p)'
<1>1. pc'[p] = "put" /\ mem'[p].next = n /\ mem'[p].state = st
  BY PrepareMoves, LabelsAre DEF IInv
<1>2. Writable(p)'
  BY <1>1 DEF Writable, EarlyReview
<1> QED
  BY <1>1, <1>2, WillWrite

LEMMA RealizedHeld ==
  ASSUME IInv, NEW p \in Proc, AfterRealized(p), state.status # "REVIEW_REQUIRED",
         UNCHANGED state
  PROVE  HeldInv(p)'
<1> DEFINE st == Written("REALIZED_COMPLETE", None)
           n  == IF mem[p].pred = None THEN "unlock" ELSE "evaluate"
<1>1. /\ st \in State /\ n \in {"unlock", "evaluate"}
      /\ Prepare(p, st, n, "REALIZED_COMPLETE")
      /\ st.status = "REALIZED_COMPLETE"
  BY WrittenIs, StatusesAre DEF AfterRealized
<1> HIDE DEF st, n
<1> QED
  BY <1>1, DecisionHeld, StatusesAre

LEMMA CompletedHeld ==
  ASSUME IInv, NEW p \in Proc, Completed(p), state.status # "REVIEW_REQUIRED",
         UNCHANGED state
  PROVE  HeldInv(p)'
<1> DEFINE st == Written("COMPLETE", None)
<1>1. st \in State /\ Prepare(p, st, "unlock", "COMPLETE") /\ st.status = "COMPLETE"
  BY WrittenIs, StatusesAre DEF Completed
<1> HIDE DEF st
<1> QED
  BY <1>1, DecisionHeld, StatusesAre

(* Going on with the same state in hand and the same files. *)
LEMMA GoesOn ==
  ASSUME IInv, CarefulInv, NEW p \in Proc, NEW l, Goto(p, l), UNCHANGED mem,
         UNCHANGED shared,
         l \in {"scan", "probe", "publish", "attest", "run"},
         l \in {"scan", "probe"} => pc[p] \in {"reconcile", "scan"},
         state.status # "REVIEW_REQUIRED",
         l = "probe" => state.status # "REFRESHING",
         l \in {"scan", "probe", "publish"} => realized = None,
         l = "run" => evaluation = None /\ evaluations[Requested(p)] = 0
  PROVE  HeldInv(p)'
<1> USE DEF shared
<1>1. pc'[p] = l /\ mem'[p] = mem[p] /\ HeldInv(p)
  BY DEF Goto, IInv, Typed, CarefulInv
<1>2. Loaded(p)'
  BY <1>1 DEF HeldInv, Loaded
<1>3. Undisputed(p)' /\ NotRefreshing(p)'
  BY <1>1 DEF Undisputed, NotRefreshing
<1>4. NoReceiptYet(p)' /\ FirstRefresh(p)' /\ Writable(p)'
  BY <1>1 DEF NoReceiptYet, FirstRefresh, Putting, Writable
<1>5. FirstEvaluation(p)'
  BY <1>1 DEF FirstEvaluation, Requested
<1> QED
  BY <1>1, <1>2, <1>3, <1>4, <1>5 DEF HeldInv

(* Going on with a snapshot in hand. *)
LEMMA GoesOnWith ==
  ASSUME IInv, NEW p \in Proc, NEW l, Goto(p, l), l \in {"evaluate", "adopt"},
         state.status # "REVIEW_REQUIRED", l = "adopt" => realized = None,
         UNCHANGED shared
  PROVE  HeldInv(p)'
<1>1. pc'[p] = l
  BY DEF Goto, IInv, Typed
<1> QED
  BY <1>1 DEF HeldInv, Loaded, Undisputed, NotRefreshing, NoReceiptYet, FirstRefresh,
     Putting, Writable, FirstEvaluation, shared

-----------------------------------------------------------------------------
(* The careful invariant is preserved, action by action *)

LEMMA ReconcileHeld ==
  ASSUME IInv, CarefulInv, NEW p \in Proc, Reconcile(p)
  PROVE  SharedInv' /\ HeldInv(p)'
<1>1. UNCHANGED shared /\ pc[p] = "reconcile"
  BY FilesAlone DEF Reconcile, ReviewReceipts, StillInReview, AlreadyRealized,
                    ResumeEvaluation, NothingAccepted
<1>2. mem[p].state = state
  BY <1>1 DEF CarefulInv, HeldInv, Loaded
<1>3. UNCHANGED state
  BY <1>1 DEF shared
<1>4. HeldInv(p)'
  <2>1. CASE ReviewReceipts(p)
    BY <2>1, ReviewHeld DEF ReviewReceipts, Scope
  <2>2. CASE StillInReview(p)
    <3>1. pc'[p] = "unlock"
      BY <2>2, ReturnMoves, StatusesAre DEF StillInReview, IInv
    <3> QED
      BY <3>1, NothingHeld
  <2>3. CASE AlreadyRealized(p)
    BY <1>2, <1>3, <2>3, RealizedHeld DEF AlreadyRealized
  <2>4. CASE ResumeEvaluation(p)
    BY <1>1, <1>2, <2>4, GoesOnWith DEF ResumeEvaluation
  <2>5. CASE NothingAccepted(p)
    BY <1>1, <1>2, <2>5, GoesOn DEF NothingAccepted
  <2> QED
    BY <2>1, <2>2, <2>3, <2>4, <2>5 DEF Reconcile
<1> QED
  BY <1>1, <1>4, SharedStays DEF CarefulInv

LEMMA PublishRealizedHeld ==
  ASSUME IInv, CarefulInv, NEW p \in Proc, PublishRealized(p)
  PROVE  SharedInv' /\ HeldInv(p)'
<1>1. /\ pc[p] \in {"adopt", "publish"} /\ AfterRealized(p)
      /\ UNCHANGED <<state, evaluations, attempts>>
  BY DEF PublishRealized, data
<1>2. state.status # "REVIEW_REQUIRED"
  BY <1>1 DEF CarefulInv, HeldInv, Undisputed
<1>3. SharedInv'
  BY <1>1, <1>2 DEF CarefulInv, SharedInv, OneRefreshPerReset, WaitingIsFresh,
                    EarlyReview, EvaluatedOnce
<1> QED
  BY <1>1, <1>2, <1>3, RealizedHeld

LEMMA AdoptHeld ==
  ASSUME IInv, CarefulInv, NEW p \in Proc, Adopt(p)
  PROVE  SharedInv' /\ HeldInv(p)'
<1>1. CASE PublishRealized(p)
  BY <1>1, PublishRealizedHeld
<1>2. CASE ~PublishRealized(p)
  <2>1. UNCHANGED shared
    BY <1>2, FilesAlone DEF Adopt, FindCandidate, RefreshWasInterrupted, NoCandidate,
                            RealizedExists
  <2>2. ASSUME pc[p] = "scan"
        PROVE  mem[p].state = state /\ state.status # "REVIEW_REQUIRED" /\ realized = None
    BY <2>2 DEF CarefulInv, HeldInv, Loaded, Undisputed, NoReceiptYet
  <2>3. SharedInv'
    BY <2>1, SharedStays DEF CarefulInv
  <2>4. CASE FindCandidate(p)
    BY <2>1, <2>2, <2>3, <2>4, GoesOnWith DEF FindCandidate
  <2>5. CASE RefreshWasInterrupted(p) \/ RealizedExists(p)
    BY <2>3, <2>5, ReviewHeld DEF RefreshWasInterrupted, RealizedExists, Scope
  <2>6. CASE NoCandidate(p)
    BY <2>1, <2>2, <2>3, <2>6, GoesOn DEF NoCandidate
  <2> QED
    BY <1>2, <2>4, <2>5, <2>6 DEF Adopt
<1> QED
  BY <1>1, <1>2

(* The decision at the second response: only a WAITING target gets there. *)
LEMMA ProbeFixturesHeld ==
  ASSUME IInv, CarefulInv, NEW p \in Proc, ProbeFixtures(p)
  PROVE  HeldInv(p)'
<1> DEFINE o == Observed(p)
           f == mem[p].state.first
           g == RetainedFirst(p, o, f)
           r == Written("REFRESHING", None)
<1>1. Decide(p, o) /\ pc[p] = "fixtures" /\ UNCHANGED shared
  BY FilesAlone DEF ProbeFixtures
<1>2. /\ state.status # "REVIEW_REQUIRED" /\ state.status # "REFRESHING"
      /\ realized = None
  BY <1>1 DEF CarefulInv, HeldInv, Undisputed, NotRefreshing, NoReceiptYet
<1>3. state.status = "WAITING"
  BY <1>2 DEF IInv, GlobalInv, GlobalType, Backed, State, Status
<1>4. attempts = 0 /\ UNCHANGED <<attempts, state, realized>>
  BY <1>1, <1>3 DEF CarefulInv, SharedInv, WaitingIsFresh, shared
<1>5. g \in Observation
  BY ObservedType
<1>6. \/ Prepare(p, Waiting(None), "unlock", "WAITING")
      \/ Prepare(p, Waiting(g), "unlock", "WAITING")
      \/ Prepare(p, r, "refresh", None)
  BY <1>1 DEF Decide
<1> HIDE DEF g
<1>7. /\ Waiting(None) \in State /\ Waiting(None).status = "WAITING"
      /\ Waiting(g) \in State /\ Waiting(g).status = "WAITING"
  BY <1>5, WaitingIs
<1>8. r \in State /\ r.status = "REFRESHING"
  BY WrittenIs, StatusesAre
<1> HIDE DEF r
<1>9. CASE Prepare(p, Waiting(None), "unlock", "WAITING")
  BY <1>2, <1>4, <1>7, <1>9, DecisionHeld, StatusesAre
<1>10. CASE Prepare(p, Waiting(g), "unlock", "WAITING")
  BY <1>2, <1>4, <1>7, <1>10, DecisionHeld, StatusesAre
<1>11. CASE Prepare(p, r, "refresh", None)
  <2>1. pc'[p] = "put" /\ mem'[p].next = "refresh" /\ mem'[p].state = r
    BY <1>8, <1>11, PrepareMoves, LabelsAre DEF IInv
  <2>2. Writable(p)'
    BY <1>2, <1>4, <1>8, <2>1 DEF Writable, EarlyReview
  <2> QED
    BY <1>2, <1>4, <1>8, <2>1, <2>2
       DEF HeldInv, Loaded, Undisputed, NotRefreshing, NoReceiptYet, FirstRefresh,
           Putting, FirstEvaluation
<1> QED
  BY <1>6, <1>9, <1>10, <1>11

LEMMA ProbeEventHeld ==
  ASSUME IInv, CarefulInv, NEW p \in Proc, ProbeEvent(p)
  PROVE  HeldInv(p)'
<1> DEFINE m == [mem[p] EXCEPT !.event = official.event]
<1>1. Keep(p, m) /\ Goto(p, "fixtures") /\ UNCHANGED shared /\ pc[p] = "probe"
  BY FilesAlone DEF ProbeEvent
<1>2. m.state = mem[p].state
  BY DEF IInv, Typed, Mem
<1> HIDE DEF m
<1>3. mem'[p].state = mem[p].state /\ pc'[p] = "fixtures"
  BY <1>1, <1>2 DEF Keep, Goto, IInv, Typed
<1>4. /\ mem[p].state = state /\ state.status # "REVIEW_REQUIRED"
      /\ state.status # "REFRESHING" /\ realized = None
  BY <1>1 DEF CarefulInv, HeldInv, Loaded, Undisputed, NotRefreshing, NoReceiptYet
<1> QED
  BY <1>1, <1>3, <1>4 DEF HeldInv, Loaded, Undisputed, NotRefreshing, NoReceiptYet,
     FirstRefresh, Putting, Writable, FirstEvaluation, shared

LEMMA ProbeHeld ==
  ASSUME IInv, CarefulInv, NEW p \in Proc, Probe(p)
  PROVE  SharedInv' /\ HeldInv(p)'
<1>1. UNCHANGED shared
  BY FilesAlone DEF Probe, ProbeEvent, ProbeFixtures, ProbeUnavailable, ProbeMalformed
<1>2. CASE ProbeUnavailable(p)
  <2>1. pc'[p] = "unlock"
    BY <1>2, RaiseMoves DEF ProbeUnavailable, IInv
  <2> QED
    BY <1>1, <2>1, NothingHeld, SharedStays DEF CarefulInv
<1>3. CASE ProbeMalformed(p)
  <2>1. realized = None
    BY <1>3 DEF ProbeMalformed, CarefulInv, HeldInv, NoReceiptYet
  <2>2. SetReview(p, "probe") /\ realized' = None
    BY <1>1, <1>3, <2>1 DEF ProbeMalformed, shared
  <2> QED
    BY <1>1, <2>2, ReviewHeld, SharedStays DEF Scope, CarefulInv
<1> QED
  BY <1>1, <1>2, <1>3, ProbeEventHeld, ProbeFixturesHeld, SharedStays
     DEF Probe, CarefulInv

(* state.json is replaced by what the holder has prepared. *)
LEMMA WriteHeld ==
  ASSUME IInv, CarefulInv, NEW p \in Proc, WriteState(p)
  PROVE  SharedInv' /\ HeldInv(p)'
<1> DEFINE n == mem[p].next
<1>1. /\ pc[p] = "put" /\ state' = mem[p].state /\ Goto(p, n)
      /\ attempts' = IF mem[p].job = "reset" /\ mem[p].state.status = "WAITING"
                     THEN 0 ELSE attempts
      /\ UNCHANGED <<realized, evaluation, evaluations, mem>>
  BY DEF WriteState, data
<1>2. n \in {"unlock", "evaluate", "refresh", "validate"}
  BY <1>1 DEF IInv, LocalInv
<1>3. pc'[p] = n /\ mem'[p] = mem[p]
  BY <1>1 DEF Goto, IInv, Typed
<1>4. Writable(p) /\ NoReceiptYet(p) /\ FirstRefresh(p)
  BY DEF CarefulInv, HeldInv
<1>5. /\ mem[p].state.status = "WAITING" => mem[p].job = "reset" \/ attempts = 0
      /\ mem[p].state.status = "REVIEW_REQUIRED" => n = "unlock"
      /\ EarlyReview(mem[p].state)
  BY <1>1, <1>4 DEF Writable
<1>6. attempts \in {0, 1, 2} /\ attempts <= 1
  BY DEF IInv, GlobalInv, GlobalType, CarefulInv, SharedInv, OneRefreshPerReset
<1>7. SharedInv'
  <2>1. OneRefreshPerReset'
    BY <1>1, <1>6 DEF OneRefreshPerReset
  <2>2. WaitingIsFresh'
    BY <1>1, <1>5 DEF WaitingIsFresh
  <2>3. EarlyReview(state)'
    BY <1>1, <1>5 DEF EarlyReview
  <2>4. EvaluatedOnce'
    BY <1>1 DEF CarefulInv, SharedInv, EvaluatedOnce
  <2> QED
    BY <2>1, <2>2, <2>3, <2>4 DEF SharedInv
<1>8. HeldInv(p)'
  <2>1. CASE n = "unlock"
    BY <1>3, <2>1, NothingHeld
  <2>2. CASE n # "unlock"
    <3>1. Undisputed(p)'
      BY <1>1, <1>5, <2>2 DEF Undisputed
    <3>2. NoReceiptYet(p)'
      BY <1>1, <1>2, <1>3, <1>4 DEF NoReceiptYet, Putting
    <3>3. FirstRefresh(p)'
      BY <1>1, <1>2, <1>3, <1>4 DEF FirstRefresh, Putting
    <3> QED
      BY <1>2, <1>3, <2>2, <3>1, <3>2, <3>3
         DEF HeldInv, Loaded, NotRefreshing, Writable, FirstEvaluation
  <2> QED
    BY <2>1, <2>2
<1> QED
  BY <1>7, <1>8

LEMMA BeginRefreshHeld ==
  ASSUME IInv, CarefulInv, NEW p \in Proc, BeginRefresh(p)
  PROVE  SharedInv' /\ HeldInv(p)'
<1> DEFINE m == [mem[p] EXCEPT !.snap = Len(snapshots) + 1]
<1>1. /\ pc[p] = "refresh" /\ Keep(p, m) /\ Goto(p, "capture")
      /\ attempts' = IF attempts < 2 THEN attempts + 1 ELSE 2
      /\ UNCHANGED <<state, realized, evaluations>>
  BY DEF BeginRefresh, control
<1>2. m.state = mem[p].state
  BY DEF IInv, Typed, Mem
<1> HIDE DEF m
<1>3. mem'[p].state = mem[p].state /\ pc'[p] = "capture"
  BY <1>1, <1>2 DEF Keep, Goto, IInv, Typed
<1>4. /\ attempts = 0 /\ realized = None
      /\ mem[p].state.status = "REFRESHING" /\ state.status = "REFRESHING"
  BY <1>1 DEF CarefulInv, HeldInv, FirstRefresh, NoReceiptYet
<1>5. SharedInv'
  BY <1>1, <1>4 DEF CarefulInv, SharedInv, OneRefreshPerReset, WaitingIsFresh,
                    EarlyReview, EvaluatedOnce
<1>6. HeldInv(p)'
  BY <1>1, <1>3, <1>4 DEF HeldInv, Loaded, Undisputed, NotRefreshing, NoReceiptYet,
     FirstRefresh, Putting, Writable, FirstEvaluation
<1> QED
  BY <1>5, <1>6

LEMMA FinishRefreshHeld ==
  ASSUME IInv, CarefulInv, NEW p \in Proc, FinishRefresh(p)
  PROVE  SharedInv' /\ HeldInv(p)'
<1> DEFINE st == mem[p].state
<1>1. /\ pc[p] = "capture" /\ Prepare(p, st, "validate", None) /\ UNCHANGED shared
  BY DEF FinishRefresh, control, shared
<1>2. st \in State
  BY DEF IInv, Typed, Mem
<1>3. /\ st.status = "REFRESHING" /\ realized = None
      /\ state.status # "REVIEW_REQUIRED"
  BY <1>1 DEF CarefulInv, HeldInv, FirstRefresh, NoReceiptYet, Undisputed
<1> HIDE DEF st
<1>4. pc'[p] = "put" /\ mem'[p].state = st /\ mem'[p].next = "validate"
  BY <1>1, <1>2, PrepareMoves, LabelsAre DEF IInv
<1>5. Writable(p)'
  BY <1>1, <1>3, <1>4 DEF Writable, EarlyReview, shared
<1>6. HeldInv(p)'
  BY <1>1, <1>3, <1>4, <1>5 DEF HeldInv, Loaded, Undisputed, NotRefreshing,
     NoReceiptYet, FirstRefresh, Putting, FirstEvaluation, shared
<1> QED
  BY <1>1, <1>6, SharedStays DEF CarefulInv

LEMMA RefreshHeld ==
  ASSUME IInv, CarefulInv, NEW p \in Proc, Refresh(p)
  PROVE  SharedInv' /\ HeldInv(p)'
<1>1. ASSUME UNCHANGED shared PROVE SharedInv'
  BY <1>1, SharedStays DEF CarefulInv
<1>2. CASE RefreshFails(p)
  BY <1>1, <1>2, FilesAlone, ReviewHeld DEF RefreshFails, Scope
<1>3. CASE ValidateRefreshed(p)
  <2>1. UNCHANGED shared /\ pc[p] = "validate"
    BY <1>3, FilesAlone DEF ValidateRefreshed
  <2>2. state.status # "REVIEW_REQUIRED" /\ realized = None
    BY <2>1 DEF CarefulInv, HeldInv, Undisputed, NoReceiptYet
  <2>3. CASE Valid(mem[p].snap)
    BY <1>1, <1>3, <2>1, <2>2, <2>3, GoesOn DEF ValidateRefreshed
  <2>4. CASE ~Valid(mem[p].snap)
    BY <1>1, <1>3, <2>1, <2>4, ReviewHeld DEF ValidateRefreshed, Scope
  <2> QED
    BY <2>3, <2>4
<1> QED
  BY <1>2, <1>3, BeginRefreshHeld, FinishRefreshHeld DEF Refresh

LEMMA EvaluateHeld ==
  ASSUME IInv, CarefulInv, NEW p \in Proc, Evaluate(p)
  PROVE  SharedInv' /\ HeldInv(p)'
<1>1. state.status # "REVIEW_REQUIRED" /\ pc[p] \in {"evaluate", "run", "attest"}
  BY DEF Evaluate, EvaluationAccepted, FindEvaluation, RunEvaluation, EvaluationFails,
         PublishEvaluation, CarefulInv, HeldInv, Undisputed
<1>2. Requested(p) \in Binding
  BY <1>1, RequestedType
<1>3. ASSUME UNCHANGED shared PROVE SharedInv'
  BY <1>3, SharedStays DEF CarefulInv
<1>4. CASE EvaluationAccepted(p)
  <2>1. UNCHANGED shared /\ UNCHANGED state /\ Completed(p)
    BY <1>4, FilesAlone DEF EvaluationAccepted, shared
  <2> QED
    BY <1>1, <1>3, <2>1, CompletedHeld
<1>5. CASE FindEvaluation(p)
  <2> DEFINE l == IF evaluations[Requested(p)] > 0 THEN "attest" ELSE "run"
  <2>1. Goto(p, l) /\ UNCHANGED mem /\ UNCHANGED shared /\ evaluation = None
    BY <1>5, FilesAlone DEF FindEvaluation
  <2>2. evaluations[Requested(p)] \in 0..2
    BY <1>2 DEF IInv, GlobalInv, GlobalType
  <2>3. l = "run" => evaluations[Requested(p)] = 0
    BY <2>2
  <2>4. l \in {"attest", "run"}
    OBVIOUS
  <2> HIDE DEF l
  <2> QED
    BY <1>1, <1>3, <2>1, <2>3, <2>4, GoesOn
<1>6. CASE RunEvaluation(p)
  <2>1. /\ evaluations' = [evaluations EXCEPT ![Requested(p)] = IF @ < 2 THEN @ + 1 ELSE 2]
        /\ Goto(p, "attest") /\ pc[p] = "run"
        /\ UNCHANGED <<state, archive, realized, evaluation, attempts>>
    BY <1>6 DEF RunEvaluation, control
  <2>2. evaluations[Requested(p)] = 0
    BY <2>1 DEF CarefulInv, HeldInv, FirstEvaluation
  <2>3. \A b \in Binding :
          evaluations'[b] = IF b = Requested(p) THEN 1 ELSE evaluations[b]
    <3>1. evaluations \in [Binding -> 0..2]
      BY DEF IInv, GlobalInv, GlobalType
    <3> QED
      BY <1>2, <2>1, <2>2, <3>1
  <2>4. EvaluatedOnce'
    BY <2>3 DEF CarefulInv, SharedInv, EvaluatedOnce
  <2>5. SharedInv'
    BY <2>1, <2>4 DEF CarefulInv, SharedInv, OneRefreshPerReset, WaitingIsFresh,
                      EarlyReview
  <2>6. pc'[p] = "attest"
    BY <2>1 DEF Goto, IInv, Typed
  <2>7. HeldInv(p)'
    BY <1>1, <2>1, <2>6 DEF HeldInv, Loaded, Undisputed, NotRefreshing, NoReceiptYet,
       FirstRefresh, Putting, Writable, FirstEvaluation
  <2> QED
    BY <2>5, <2>7
<1>7. CASE EvaluationFails(p)
  BY <1>3, <1>7, FilesAlone, ReviewHeld DEF EvaluationFails, Scope
<1>8. CASE PublishEvaluation(p)
  <2>1. UNCHANGED <<state, archive, realized, attempts, evaluations>>
    BY <1>8 DEF PublishEvaluation, data
  <2>2. SharedInv'
    BY <2>1 DEF CarefulInv, SharedInv, OneRefreshPerReset, WaitingIsFresh,
                EarlyReview, EvaluatedOnce
  <2>3. CASE evaluation = None
    BY <1>1, <1>8, <2>1, <2>2, <2>3, CompletedHeld DEF PublishEvaluation
  <2>4. CASE evaluation # None
    BY <1>8, <2>2, <2>4, ReviewHeld DEF PublishEvaluation, Scope
  <2> QED
    BY <2>3, <2>4
<1> QED
  BY <1>4, <1>5, <1>6, <1>7, <1>8 DEF Evaluate

(* The reset has archived the very review that it is about to overwrite. *)
LEMMA ArchiveHeld ==
  ASSUME IInv, CarefulInv, NEW p \in Proc, ArchiveReview(p)
  PROVE  SharedInv' /\ HeldInv(p)'
<1> DEFINE sc == mem[p].state.scope
           x  == IF sc = "evaluation" THEN "REALIZED_COMPLETE" ELSE "WAITING"
           st == Written(x, None)
<1>1. /\ pc[p] = "reset" /\ Resettable(mem[p].state)
      /\ archive' = sc /\ Prepare(p, st, "unlock", None)
      /\ UNCHANGED <<state, realized, evaluation, data, attempts>>
  BY DEF ArchiveReview
<1>2. mem[p].state = state /\ mem[p].job = "reset"
  BY <1>1 DEF CarefulInv, HeldInv, Loaded
<1>3. /\ sc = state.scope /\ sc # "receipt" /\ state.status = "REVIEW_REQUIRED"
      /\ sc = "realized" => realized = None
  BY <1>1, <1>2 DEF Resettable
<1>4. st \in State /\ st.status = x
  BY WrittenIs, StatusesAre
<1>5. x \in {"REALIZED_COMPLETE", "WAITING"} /\ (x = "WAITING" => sc # "evaluation")
  OBVIOUS
<1> HIDE DEF st, x, sc
<1>6. x = "WAITING" => realized = None
  BY <1>3, <1>5 DEF CarefulInv, SharedInv, EarlyReview
<1>7. pc'[p] = "put" /\ mem'[p].state = st /\ mem'[p].next = "unlock"
  BY <1>1, <1>4, PrepareMoves, LabelsAre DEF IInv
<1>8. mem'[p].job = "reset"
  BY <1>1, <1>2, PrepareKeeps DEF IInv
<1>9. Writable(p)'
  BY <1>1, <1>3, <1>4, <1>5, <1>6, <1>7, <1>8 DEF Writable, EarlyReview
<1>10. SharedInv'
  BY <1>1 DEF CarefulInv, SharedInv, OneRefreshPerReset, WaitingIsFresh, EarlyReview,
              EvaluatedOnce, data
<1> QED
  BY <1>7, <1>9, <1>10, WillWrite

LEMMA ResetHeld ==
  ASSUME IInv, CarefulInv, NEW p \in Proc, Reset(p)
  PROVE  SharedInv' /\ HeldInv(p)'
<1>1. CASE RefuseReset(p)
  <2>1. pc'[p] = "unlock"
    BY <1>1, RaiseMoves DEF RefuseReset, IInv
  <2>2. UNCHANGED shared
    BY <1>1, FilesAlone DEF RefuseReset
  <2> QED
    BY <2>1, <2>2, NothingHeld, SharedStays DEF CarefulInv
<1> QED
  BY <1>1, ArchiveHeld DEF Reset

LEMMA LoadHeld ==
  ASSUME IInv, CarefulInv, NEW p \in Proc, LoadState(p)
  PROVE  SharedInv' /\ HeldInv(p)'
<1> DEFINE m == [mem[p] EXCEPT !.state = state]
           l == IF mem[p].job = "reset" THEN "reset" ELSE "reconcile"
<1>1. Keep(p, m) /\ Goto(p, l) /\ UNCHANGED shared
  BY FilesAlone DEF LoadState
<1>2. m.state = state /\ m.job = mem[p].job
  BY DEF IInv, Typed, Mem
<1>3. l = "reconcile" \/ (l = "reset" /\ mem[p].job = "reset")
  OBVIOUS
<1> HIDE DEF m, l
<1>4. mem'[p] = m /\ pc'[p] = l
  BY <1>1 DEF Keep, Goto, IInv, Typed
<1>5. HeldInv(p)'
  BY <1>1, <1>2, <1>3, <1>4 DEF HeldInv, Loaded, Undisputed, NotRefreshing,
     NoReceiptYet, FirstRefresh, Putting, Writable, FirstEvaluation, shared
<1> QED
  BY <1>1, <1>5, SharedStays DEF CarefulInv

(* Steps of an invocation that is not yet, or no longer, inside. *)
LEMMA EndsHeld ==
  ASSUME IInv, CarefulInv, NEW p \in Proc,
         \/ Start(p) \/ StartReset(p) \/ Kill(p) \/ AcquireLock(p) \/ Locked(p)
         \/ Finish(p)
  PROVE  CarefulInv'
<1>1. PICK l \in {"idle", "lock", "load"} : Goto(p, l)
  BY DEF Start, StartReset, Kill, AcquireLock, Locked, Finish
<1>2. UNCHANGED shared
  BY DEF Start, StartReset, Kill, AcquireLock, Locked, Finish, control, data, shared
<1>3. pc'[p] = l
  BY <1>1 DEF Goto, IInv, Typed
<1>4. Only(p)
  BY OnlyOne DEF Step
<1> QED
  BY <1>1, <1>2, <1>3, <1>4, NothingHeld, BystanderMoves

(* A tick dates back the state and the copy that was loaded alike. *)
LEMMA TickHeld ==
  ASSUME IInv, CarefulInv, Tick
  PROVE  CarefulInv'
<1>1. /\ state' = BackState(state)
      /\ mem' = [p \in Proc |-> BackMem(mem[p])]
      /\ UNCHANGED <<archive, realized, evaluation, evaluations, pc, attempts>>
  BY DEF Tick, data
<1>2. state'.status = state.status /\ state'.scope = state.scope
  BY <1>1, BackTypes DEF IInv, GlobalInv, GlobalType
<1>3. SharedInv'
  BY <1>1, <1>2 DEF CarefulInv, SharedInv, OneRefreshPerReset, WaitingIsFresh,
                    EarlyReview, EvaluatedOnce
<1>4. ASSUME NEW q \in Proc PROVE HeldInv(q)'
  <2>1. mem[q] \in Mem /\ mem[q].state \in State
    BY DEF IInv, Typed, Mem
  <2>2. /\ pc'[q] = pc[q] /\ mem'[q].pred = mem[q].pred /\ mem'[q].snap = mem[q].snap
        /\ mem'[q].next = mem[q].next /\ mem'[q].job = mem[q].job
        /\ mem'[q].state = BackState(mem[q].state)
    BY <1>1, <2>1, BackTypes
  <2>3. /\ mem'[q].state.status = mem[q].state.status
        /\ mem'[q].state.scope = mem[q].state.scope
    BY <2>1, <2>2, BackTypes
  <2>4. HeldInv(q)
    BY DEF CarefulInv
  <2>5. Loaded(q)'
    BY <1>1, <2>2, <2>4 DEF HeldInv, Loaded
  <2>6. Undisputed(q)' /\ NotRefreshing(q)' /\ NoReceiptYet(q)'
    BY <1>1, <1>2, <2>2, <2>4 DEF HeldInv, Undisputed, NotRefreshing, NoReceiptYet, Putting
  <2>7. FirstRefresh(q)'
    BY <1>1, <1>2, <2>2, <2>3, <2>4 DEF HeldInv, FirstRefresh, Putting
  <2>8. Writable(q)'
    BY <1>1, <1>2, <2>2, <2>3, <2>4 DEF HeldInv, Writable, EarlyReview
  <2>9. FirstEvaluation(q)'
    BY <1>1, <2>2, <2>4 DEF HeldInv, FirstEvaluation, Requested
  <2> QED
    BY <2>2, <2>4, <2>5, <2>6, <2>7, <2>8, <2>9 DEF HeldInv
<1> QED
  BY <1>3, <1>4 DEF CarefulInv

LEMMA CarefulStep ==
  ASSUME IInv, LockExclusive, CarefulInv, [Next]_vars
  PROVE  CarefulInv'
<1>1. ASSUME NEW p \in Proc,
             \/ LoadState(p) \/ Reconcile(p) \/ Adopt(p) \/ Probe(p) \/ WriteState(p)
             \/ Refresh(p) \/ Evaluate(p) \/ Reset(p)
      PROVE  CarefulInv'
  <2>1. Holding(p)
    BY <1>1, HeldSteps
  <2>2. Only(p)
    BY <1>1, OnlyOne DEF Step
  <2>3. SharedInv' /\ HeldInv(p)'
    BY <1>1, LoadHeld, ReconcileHeld, AdoptHeld, ProbeHeld, WriteHeld, RefreshHeld,
       EvaluateHeld, ResetHeld
  <2> QED
    BY <2>1, <2>2, <2>3, HolderMoves
<1>2. CASE (Outside /\ ~Tick) \/ UNCHANGED vars
  <2>1. UNCHANGED shared /\ UNCHANGED <<pc, mem>>
    BY <1>2 DEF Outside, Unlock, DeadlinePasses, OfficialChanges, OwnerBeginsRefresh,
                OwnerFinishesRefresh, Damage, control, data, vars, shared
  <2> QED
    BY <2>1, HeldStays, SharedStays DEF CarefulInv
<1> QED
  BY <1>1, <1>2, EndsHeld, TickHeld DEF Next, Step

-----------------------------------------------------------------------------
(* What a careful operator gets *)

LEMMA CarefulStart == Init => CarefulInv
<1> SUFFICES ASSUME Init PROVE CarefulInv
  OBVIOUS
<1>1. /\ state.status = "WAITING" /\ attempts = 0
      /\ evaluations = [b \in Binding |-> 0] /\ \A p \in Proc : pc[p] = "idle"
  BY NewStateIs DEF Init
<1>2. SharedInv
  BY <1>1 DEF SharedInv, OneRefreshPerReset, WaitingIsFresh, EarlyReview, EvaluatedOnce
<1>3. \A p \in Proc : HeldInv(p)
  BY <1>1 DEF HeldInv, Loaded, Undisputed, NotRefreshing, NoReceiptYet, FirstRefresh,
              Putting, Writable, FirstEvaluation
<1> QED
  BY <1>2, <1>3 DEF CarefulInv

(* The careful invariant: what the holder of the lock has read is still on
   disk, and every step it has decided on is still due. *)
THEOREM CarefulInvariance ==
  ASSUME CarefulOperator
  PROVE  Spec => [](IInv /\ LockExclusive /\ CarefulInv)
<1>1. Spec => []LockExclusive
  BY LockExclusion
<1>2. IInv /\ LockExclusive /\ CarefulInv /\ [Next]_vars => CarefulInv'
  BY CarefulStep
<1> QED
  BY <1>1, <1>2, CarefulStart, Invariance, PTL DEF Spec

(* monitor_completion begins at most one full refresh between two capture
   resets, whatever was killed in between (REFRESHING is written first, and a
   REFRESHING target without a snapshot goes to review). *)
THEOREM SingleRefresh ==
  ASSUME CarefulOperator
  PROVE  Spec => []OneRefreshPerReset
<1>1. CarefulInv => OneRefreshPerReset
  BY DEF CarefulInv, SharedInv
<1> QED
  BY <1>1, CarefulInvariance, PTL

(* _ensure_evaluation computes a binding once: an orphaned manifest is found
   and attested, not computed again. *)
THEOREM SingleEvaluation ==
  ASSUME CarefulOperator
  PROVE  Spec => []EvaluatedOnce
<1>1. CarefulInv => EvaluatedOnce
  BY DEF CarefulInv, SharedInv
<1> QED
  BY <1>1, CarefulInvariance, PTL

LEMMA ReviewLeft ==
  ASSUME IInv, CarefulInv, [Next]_vars, state.status = "REVIEW_REQUIRED",
         state'.status # "REVIEW_REQUIRED"
  PROVE  /\ archive = state.scope /\ state.scope # "receipt"
         /\ state'.status = "WAITING" => realized = None
<1>1. ASSUME NEW p \in Proc, WriteState(p)
      PROVE  /\ archive = state.scope /\ state.scope # "receipt"
             /\ state'.status = "WAITING" => realized = None
  BY <1>1 DEF WriteState, CarefulInv, HeldInv, Writable
<1>2. ASSUME NEW p \in Proc, Start(p) \/ StartReset(p) \/ Step(p) \/ Kill(p)
      PROVE  WriteState(p)
  BY <1>2, OneWriter
<1>3. ~Tick
  BY BackTypes DEF Tick, IInv, GlobalInv, GlobalType
<1>4. UNCHANGED state \/ Tick \/ \E p \in Proc : WriteState(p)
  BY <1>2 DEF Next, Outside, Unlock, DeadlinePasses, OfficialChanges,
     OwnerBeginsRefresh, OwnerFinishesRefresh, Damage, control, vars
<1> QED
  BY <1>1, <1>3, <1>4

(* REVIEW_REQUIRED is left only by reset_completion_monitor, after it archived
   this very review, never for a receipt failure, and back to WAITING only
   without a realized receipt. *)
THEOREM ReviewIsReset ==
  ASSUME CarefulOperator
  PROVE  Spec => ReviewLeftOnlyByReset
<1>1. IInv /\ CarefulInv /\ [Next]_vars =>
        (state.status = "REVIEW_REQUIRED" /\ state'.status # "REVIEW_REQUIRED" =>
           /\ archive = state.scope /\ state.scope # "receipt"
           /\ state'.status = "WAITING" => realized = None)
  BY ReviewLeft
<1> QED
  BY <1>1, CarefulInvariance, PTL DEF Spec, ReviewLeftOnlyByReset

(* One step of an invocation begins a refresh, one runs the evaluator. *)
LEMMA OneSpender ==
  ASSUME NEW p \in Proc, Start(p) \/ StartReset(p) \/ Step(p) \/ Kill(p)
  PROVE  /\ BeginRefresh(p) \/ WriteState(p) \/ UNCHANGED attempts
         /\ RunEvaluation(p) \/ UNCHANGED evaluations
<1> USE DEF data
<1>1. CASE \/ Start(p) \/ StartReset(p) \/ Kill(p) \/ AcquireLock(p) \/ Locked(p)
           \/ LoadState(p) \/ Finish(p) \/ WriteState(p)
  BY <1>1 DEF Start, StartReset, Kill, AcquireLock, Locked, LoadState, Finish, WriteState
<1>2. CASE Reconcile(p)
  BY <1>2 DEF Reconcile, ReviewReceipts, StillInReview, AlreadyRealized,
              ResumeEvaluation, NothingAccepted
<1>3. CASE Probe(p)
  BY <1>3 DEF Probe, ProbeEvent, ProbeFixtures, ProbeUnavailable, ProbeMalformed
<1>4. CASE Reset(p)
  BY <1>4 DEF Reset, RefuseReset, ArchiveReview
<1>5. CASE Adopt(p)
  BY <1>5 DEF Adopt, FindCandidate, RefreshWasInterrupted, NoCandidate, PublishRealized,
              RealizedExists
<1>6. CASE Refresh(p)
  BY <1>6 DEF Refresh, BeginRefresh, FinishRefresh, RefreshFails, ValidateRefreshed
<1>7. CASE Evaluate(p)
  BY <1>7 DEF Evaluate, EvaluationAccepted, FindEvaluation, RunEvaluation,
              EvaluationFails, PublishEvaluation
<1> QED
  BY <1>1, <1>2, <1>3, <1>4, <1>5, <1>6, <1>7 DEF Step

LEMMA Quiet ==
  ASSUME IInv, CarefulInv, [Next]_vars
  PROVE  /\ realized # None => attempts' <= attempts
         /\ evaluation # None => evaluations' = evaluations
<1>1. attempts \in 0..2
  BY DEF IInv, GlobalInv, GlobalType
<1>2. ASSUME NEW p \in Proc, BeginRefresh(p) PROVE realized = None
  BY <1>2 DEF BeginRefresh, CarefulInv, HeldInv, NoReceiptYet
<1>3. ASSUME NEW p \in Proc, RunEvaluation(p) PROVE evaluation = None
  BY <1>3 DEF RunEvaluation, CarefulInv, HeldInv, FirstEvaluation
<1>4. ASSUME NEW p \in Proc, WriteState(p) PROVE attempts' \in {0, attempts}
  BY <1>4 DEF WriteState
<1>5. ASSUME NEW p \in Proc, Start(p) \/ StartReset(p) \/ Step(p) \/ Kill(p)
      PROVE  /\ realized # None => attempts' <= attempts
             /\ evaluation # None => evaluations' = evaluations
  <2>1. realized # None => attempts' \in {0, attempts}
    BY <1>2, <1>4, <1>5, OneSpender
  <2>2. evaluation # None => evaluations' = evaluations
    BY <1>3, <1>5, OneSpender
  <2>3. realized # None => attempts' <= attempts
    BY <1>1, <2>1
  <2> QED
    BY <2>2, <2>3
<1>6. CASE Outside \/ UNCHANGED vars
  <2>1. UNCHANGED <<attempts, evaluations>>
    BY <1>6 DEF Outside, Unlock, Tick, DeadlinePasses, OfficialChanges,
       OwnerBeginsRefresh, OwnerFinishesRefresh, Damage, data, vars
  <2> QED
    BY <1>1, <2>1
<1> QED
  BY <1>5, <1>6 DEF Next

(* Accepted evidence ends the work: with a realized receipt no refresh is
   begun, with an evaluation receipt nothing is evaluated. *)
THEOREM ReceiptsEndWork ==
  ASSUME CarefulOperator
  PROVE  Spec => QuietAfterReceipts
<1>1. IInv /\ CarefulInv /\ [Next]_vars =>
        /\ realized # None => attempts' <= attempts
        /\ evaluation # None => evaluations' = evaluations
  BY Quiet
<1> QED
  BY <1>1, CarefulInvariance, PTL DEF Spec, QuietAfterReceipts
=============================================================================
