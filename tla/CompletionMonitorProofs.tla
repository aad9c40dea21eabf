---------------------- MODULE CompletionMonitorProofs ----------------------
(***************************************************************************)
(* What holds of CompletionMonitor for any number of invocations,          *)
(* predictions, versions and snapshots, and for any window.                *)
(***************************************************************************)
EXTENDS CompletionMonitor, SequenceTheorems, TLAPS

Typed == pc \in [Proc -> Labels] /\ mem \in [Proc -> Mem]

(* Only invocation p has moved. *)
Only(p) == \A q \in Proc \ {p} : pc'[q] = pc[q] /\ mem'[q] = mem[q]

-----------------------------------------------------------------------------
(* What the ways of moving an invocation leave in its local variables *)

LEMMA StateType ==
  /\ NewState \in State
  /\ \A f \in Observation \cup {None} : Waiting(f) \in State
  /\ \A st \in Status, sc \in Scope \cup {None} : Written(st, sc) \in State
  BY DEF NewState, Waiting, Written, State, Status

LEMMA TimeType == 0 \in Time /\ Now \in Time /\ "open" \in EventValue
  BY WindowAssumption DEF Time, EventValue

LEMMA LocalsType ==
  ASSUME NEW j \in {"monitor", "reset"}, NEW q \in Prediction \cup {None},
         NEW s \in SnapId \cup {None}, NEW st \in State, NEW n \in Labels,
         NEW o \in Status \cup {None}
  PROVE  /\ Locals(j, q, s, st, n, o) \in Mem
         /\ Locals(j, q, s, st, n, o).job = j
         /\ Locals(j, q, s, st, n, o).late = FALSE
         /\ Locals(j, q, s, st, n, o).pred = q
         /\ Locals(j, q, s, st, n, o).snap = s
         /\ Locals(j, q, s, st, n, o).state = st
         /\ Locals(j, q, s, st, n, o).next = n
         /\ Locals(j, q, s, st, n, o).outcome = o
  BY TimeType DEF Locals, Mem

LEMMA FreshMemType ==
  /\ FreshMem \in Mem /\ FreshMem.state = NewState
  /\ FreshMem.job = "monitor" /\ FreshMem.late = FALSE
  /\ FreshMem.next = "unlock" /\ FreshMem.outcome = None
<1>1. "unlock" \in Labels
  BY DEF Labels
<1> QED
  BY <1>1, StateType, TimeType, SMTT(30) DEF FreshMem, Locals, Mem

LEMMA Moves ==
  ASSUME Typed, NEW p \in Proc, NEW m \in Mem, NEW l \in Labels,
         Keep(p, m), Goto(p, l)
  PROVE  Typed' /\ Only(p) /\ mem'[p] = m /\ pc'[p] = l
  BY DEF Typed, Only, Keep, Goto

LEMMA Goes ==
  ASSUME Typed, NEW p \in Proc, NEW l \in Labels, Goto(p, l), UNCHANGED mem
  PROVE  Typed' /\ Only(p) /\ mem'[p] = mem[p] /\ pc'[p] = l
  BY DEF Typed, Only, Goto

LEMMA PrepareMoves ==
  ASSUME Typed, NEW p \in Proc, NEW st \in State, NEW n \in Labels,
         NEW o \in Status \cup {None}, Prepare(p, st, n, o)
  PROVE  /\ Typed' /\ Only(p)
         /\ pc'[p] = "put"
         /\ mem'[p].state = st /\ mem'[p].next = n /\ mem'[p].outcome = o
         /\ mem'[p].pred = mem[p].pred
         /\ mem'[p].snap = IF n = "unlock" THEN None ELSE mem[p].snap
<1> DEFINE j == mem[p].job
           q == mem[p].pred
           s == IF n = "unlock" THEN None ELSE mem[p].snap
           m == Locals(j, q, s, st, n, o)
<1>1. /\ j \in {"monitor", "reset"}
      /\ q \in Prediction \cup {None}
      /\ mem[p].snap \in SnapId \cup {None}
  BY DEF Typed, Mem
<1>2. Keep(p, m) /\ Goto(p, "put") /\ "put" \in Labels
  BY DEF Prepare, Labels
<1> HIDE DEF j, q
<1>3. /\ m \in Mem /\ m.pred = q /\ m.snap = s /\ m.state = st
      /\ m.next = n /\ m.outcome = o
  <2>1. s \in SnapId \cup {None}
    BY <1>1 DEF s
  <2> HIDE DEF s
  <2>2. /\ Locals(j, q, s, st, n, o) \in Mem
        /\ Locals(j, q, s, st, n, o).pred = q
        /\ Locals(j, q, s, st, n, o).snap = s
        /\ Locals(j, q, s, st, n, o).state = st
        /\ Locals(j, q, s, st, n, o).next = n
        /\ Locals(j, q, s, st, n, o).outcome = o
    BY <1>1, <2>1, TimeType DEF Locals, Mem
  <2> QED
    BY <2>2
<1> HIDE DEF m
<1>4. Typed' /\ Only(p) /\ mem'[p] = m /\ pc'[p] = "put"
  BY <1>2, <1>3, Moves
<1> QED
  BY <1>3, <1>4 DEF s, q

(* Nor does the invocation forget what it was started for. *)
LEMMA PrepareKeeps ==
  ASSUME Typed, NEW p \in Proc, NEW st, NEW n, NEW o, Prepare(p, st, n, o)
  PROVE  mem'[p].job = mem[p].job /\ mem'[p].late = FALSE
  BY DEF Prepare, Keep, Locals, Typed

LEMMA ReturnMoves ==
  ASSUME Typed, NEW p \in Proc, NEW o \in Status \cup {None}, Return(p, o)
  PROVE  /\ Typed' /\ Only(p)
         /\ pc'[p] = "unlock"
         /\ mem'[p].state = NewState /\ mem'[p].outcome = o
         /\ mem'[p].pred = mem[p].pred /\ mem'[p].late = FALSE
<1> DEFINE m == Locals("monitor", mem[p].pred, None, NewState, "unlock", o)
<1>1. mem[p].pred \in Prediction \cup {None}
  BY DEF Typed, Mem
<1>2. Keep(p, m) /\ Goto(p, "unlock") /\ "unlock" \in Labels
  BY DEF Return, Labels
<1>3. /\ m \in Mem /\ m.state = NewState /\ m.outcome = o
      /\ m.pred = mem[p].pred /\ m.late = FALSE
  BY <1>1, <1>2, StateType, TimeType, SMTT(30) DEF Locals, Mem
<1> HIDE DEF m
<1> QED
  BY <1>2, <1>3, Moves

LEMMA RaiseMoves ==
  ASSUME Typed, NEW p \in Proc, Raise(p)
  PROVE  /\ Typed' /\ Only(p)
         /\ pc'[p] = "unlock" /\ mem'[p] = FreshMem
         /\ mem'[p].state = NewState /\ mem'[p].outcome = None
<1>1. Keep(p, FreshMem) /\ Goto(p, "unlock") /\ "unlock" \in Labels
  BY DEF Raise, Labels
<1>2. FreshMem.outcome = None
  BY DEF FreshMem, Locals
<1> QED
  BY <1>1, <1>2, FreshMemType, Moves

-----------------------------------------------------------------------------
(* The inductive invariant.  A receipt is backed by finished data, state.json
   and every copy of it by receipts, and an invocation that is about to
   publish something knows that it may.  None of it mentions the lock. *)

Finished(i) == /\ i \in DOMAIN snapshots
               /\ snapshots[i].complete /\ snapshots[i].final

Backed(st) ==
  /\ st.status = "COMPLETE" => evaluation # None
  /\ st.status \in {"COMPLETE", "REALIZED_COMPLETE"} => realized # None

EvaluationBacked ==
  evaluation # None => realized # None /\ evaluation.snap = realized

GlobalType ==
  /\ official \in Digest /\ afterDeadline \in BOOLEAN
  /\ lock \in Proc \cup {None}
  /\ state \in State /\ archive \in Scope \cup {None}
  /\ realized \in SnapId \cup {None} /\ evaluation \in Binding \cup {None}
  /\ snapshots \in Seq(Snapshot) /\ Len(snapshots) <= MaxSnapshots
  /\ evaluations \in [Binding -> 0..2]
  /\ faults \in 0..MaxFaults /\ attempts \in 0..2

GlobalInv == GlobalType /\ ReceiptBacked /\ EvaluationBacked /\ Backed(state)

Evaluating(p) == \/ pc[p] \in {"evaluate", "run", "attest"}
                 \/ pc[p] = "put" /\ mem[p].next = "evaluate"

Capturing(p, i) == pc[p] = "capture" /\ mem[p].snap = i

LocalInv(p) ==
  /\ Backed(mem[p].state)
  /\ pc[p] \in {"adopt", "publish"} => Finished(mem[p].snap)
  /\ Evaluating(p) => /\ realized # None /\ mem[p].snap = realized
                      /\ mem[p].pred # None
  /\ pc[p] = "put" => mem[p].next \in {"unlock", "evaluate", "refresh", "validate"}
  /\ pc[p] = "capture" => /\ mem[p].snap \in DOMAIN snapshots
                          /\ ~snapshots[mem[p].snap].complete

IInv ==
  /\ GlobalInv
  /\ Typed
  /\ \A p \in Proc : LocalInv(p)
  /\ \A p, q \in Proc, i \in SnapId : Capturing(p, i) /\ Capturing(q, i) => p = q

LEMMA TypeOfInvariant == IInv => TypeOK
  BY DEF IInv, GlobalInv, GlobalType, Typed, TypeOK

LEMMA InvariantInit == Init => IInv
<1> SUFFICES ASSUME Init PROVE IInv
  OBVIOUS
<1>1. Typed /\ \A p \in Proc : pc[p] = "idle" /\ mem[p].state = NewState
  BY FreshMemType DEF Init, Typed, Labels
<1>2. NewState.status = "WAITING"
  BY DEF NewState, Waiting
<1>3. GlobalType
  <2>1. official \in Digest
    BY DEF Init, Digest, EventValue, FixtureValue
  <2>2. state \in State
    BY StateType DEF Init
  <2>3. snapshots \in Seq(Snapshot) /\ Len(snapshots) <= MaxSnapshots
    BY BoundAssumption, EmptySeq DEF Init
  <2>4. evaluations \in [Binding -> 0..2]
    BY DEF Init
  <2>5. /\ afterDeadline \in BOOLEAN /\ lock \in Proc \cup {None}
        /\ archive \in Scope \cup {None} /\ realized \in SnapId \cup {None}
        /\ evaluation \in Binding \cup {None}
        /\ faults \in 0..MaxFaults /\ attempts \in 0..2
    <3>1. 0 \in 0..MaxFaults /\ 0 \in 0..2
      BY BoundAssumption
    <3> QED
      BY <3>1, Zenon DEF Init
  <2> QED
    BY <2>1, <2>2, <2>3, <2>4, <2>5 DEF GlobalType
<1>4. ReceiptBacked /\ EvaluationBacked /\ Backed(state)
  BY <1>2 DEF Init, ReceiptBacked, EvaluationBacked, Backed
<1>5. \A p \in Proc : LocalInv(p)
  BY <1>1, <1>2 DEF LocalInv, Backed, Evaluating
<1>6. \A p \in Proc, i \in SnapId : ~Capturing(p, i)
  BY <1>1 DEF Capturing
<1> QED
  BY <1>1, <1>3, <1>4, <1>5, <1>6 DEF IInv, GlobalInv

-----------------------------------------------------------------------------
(* Steps of one invocation that change nothing but its own locals *)

Grows ==
  /\ realized # None => realized' = realized
  /\ evaluation # None => evaluation' = evaluation
  /\ \A i \in DOMAIN snapshots :
       /\ i \in DOMAIN snapshots'
       /\ snapshots[i].complete /\ snapshots[i].final =>
            snapshots'[i].complete /\ snapshots'[i].final

(* What an invocation knows stays true while others move. *)
LEMMA Stays ==
  ASSUME NEW q \in Proc, LocalInv(q), Grows,
         pc'[q] = pc[q], mem'[q] = mem[q],
         pc[q] = "capture" => snapshots'[mem[q].snap] = snapshots[mem[q].snap]
  PROVE  LocalInv(q)'
<1>1. Backed(mem[q].state)'
  BY DEF LocalInv, Grows, Backed
<1>2. (pc[q] \in {"adopt", "publish"} => Finished(mem[q].snap))'
  BY DEF LocalInv, Grows, Finished
<1>3. (Evaluating(q) => /\ realized # None /\ mem[q].snap = realized
                        /\ mem[q].pred # None)'
  BY DEF LocalInv, Grows, Evaluating
<1>4. (pc[q] = "capture" => /\ mem[q].snap \in DOMAIN snapshots
                            /\ ~snapshots[mem[q].snap].complete)'
  BY DEF LocalInv, Grows
<1> QED
  BY <1>1, <1>2, <1>3, <1>4 DEF LocalInv

LEMMA Unchanged ==
  ASSUME GlobalInv, UNCHANGED <<world, control, data, attempts>>
  PROVE  Grows /\ GlobalInv'
  BY DEF GlobalInv, GlobalType, ReceiptBacked, EvaluationBacked, Backed, Grows,
         world, control, data

(* The form of every step of invocation p that starts no capture: the shared
   state obeys the invariant, p does, and nobody else has moved. *)
LEMMA OneMoves ==
  ASSUME IInv, NEW p \in Proc, Only(p), Typed', LocalInv(p)', pc'[p] # "capture",
         GlobalInv', Grows,
         \A q \in Proc \ {p} :
           pc[q] = "capture" => snapshots'[mem[q].snap] = snapshots[mem[q].snap]
  PROVE  IInv'
<1>1. ASSUME NEW q \in Proc PROVE LocalInv(q)'
  BY Stays, q = p \/ q # p DEF IInv, Only
<1>2. \A q, r \in Proc, i \in SnapId :
        (Capturing(q, i))' /\ (Capturing(r, i))' => q = r
  BY DEF IInv, Capturing, Only
<1> QED
  BY <1>1, <1>2 DEF IInv

LEMMA LocalMove ==
  ASSUME IInv, NEW p \in Proc, UNCHANGED <<world, control, data, attempts>>,
         Only(p), Typed', LocalInv(p)', pc'[p] # "capture"
  PROVE  IInv'
<1>1. Grows /\ GlobalInv'
  BY Unchanged DEF IInv
<1>2. UNCHANGED snapshots
  BY DEF data
<1> QED
  BY <1>1, <1>2, OneMoves

LEMMA StatusOf ==
  /\ NewState.status = "WAITING"
  /\ \A f : Waiting(f).status = "WAITING"
  /\ \A st, sc : Written(st, sc).status = st
  BY DEF NewState, Waiting, Written

LEMMA LabelsAre ==
  /\ "unlock" \in Labels /\ "evaluate" \in Labels /\ "refresh" \in Labels
  /\ "validate" \in Labels /\ "put" \in Labels /\ "idle" \in Labels
  /\ "lock" \in Labels /\ "load" \in Labels /\ "reconcile" \in Labels
  /\ "scan" \in Labels /\ "adopt" \in Labels /\ "probe" \in Labels
  /\ "fixtures" \in Labels /\ "capture" \in Labels /\ "publish" \in Labels
  /\ "run" \in Labels /\ "attest" \in Labels /\ "reset" \in Labels
  BY DEF Labels

LEMMA ReviewStep ==
  ASSUME IInv, NEW p \in Proc, NEW sc \in Scope, SetReview(p, sc),
         UNCHANGED <<world, control, data, attempts>>
  PROVE  IInv'
<1> DEFINE st == Written("REVIEW_REQUIRED", sc)
<1>1. st \in State /\ st.status = "REVIEW_REQUIRED"
  BY StateType, StatusOf DEF Status
<1>2. Prepare(p, st, "unlock", "REVIEW_REQUIRED")
  BY DEF SetReview
<1> HIDE DEF st
<1>3. "unlock" \in Labels /\ "REVIEW_REQUIRED" \in Status \cup {None}
  BY LabelsAre DEF Status
<1>4. /\ Typed' /\ Only(p) /\ pc'[p] = "put" /\ mem'[p].state = st
      /\ mem'[p].next = "unlock"
  BY <1>1, <1>2, <1>3, PrepareMoves DEF IInv
<1>5. LocalInv(p)'
  BY <1>1, <1>4 DEF LocalInv, Backed, Evaluating
<1> QED
  BY <1>4, <1>5, LocalMove

LEMMA RaiseStep ==
  ASSUME IInv, NEW p \in Proc, Raise(p), UNCHANGED <<world, control, data, attempts>>
  PROVE  IInv'
<1>1. /\ Typed' /\ Only(p) /\ pc'[p] = "unlock" /\ mem'[p].state = NewState
  BY RaiseMoves DEF IInv
<1>2. LocalInv(p)'
  BY <1>1, StatusOf DEF LocalInv, Backed, Evaluating
<1> QED
  BY <1>1, <1>2, LocalMove

(* A decision about state.json that needs no receipt. *)
LEMMA PrepareStep ==
  ASSUME IInv, NEW p \in Proc, NEW st \in State, Backed(st),
         NEW n \in {"unlock", "refresh"}, NEW o \in Status \cup {None},
         Prepare(p, st, n, o), UNCHANGED <<world, control, data, attempts>>
  PROVE  IInv'
<1>1. n \in Labels
  BY LabelsAre
<1>2. /\ Typed' /\ Only(p) /\ pc'[p] = "put" /\ mem'[p].state = st
      /\ mem'[p].next = n
  BY <1>1, PrepareMoves DEF IInv
<1>3. Backed(st)'
  BY DEF Backed, control
<1>4. LocalInv(p)'
  <2>1. Backed(mem[p].state)'
    BY <1>2, <1>3 DEF Backed
  <2> QED
    BY <1>2, <2>1 DEF LocalInv, Evaluating
<1> QED
  BY <1>2, <1>4, LocalMove

(* Going from one label to another that claims nothing. *)
LEMMA GoStep ==
  ASSUME IInv, NEW p \in Proc, NEW l \in Labels, Goto(p, l), UNCHANGED mem,
         UNCHANGED <<world, control, data, attempts>>,
         l \notin {"put", "capture"},
         l \in {"adopt", "publish"} => Finished(mem[p].snap),
         l \in {"evaluate", "run", "attest"} => Evaluating(p)
  PROVE  IInv'
<1>1. Typed' /\ Only(p) /\ mem'[p] = mem[p] /\ pc'[p] = l
  BY Goes DEF IInv
<1>2. LocalInv(p)'
  BY <1>1 DEF IInv, LocalInv, Backed, Evaluating, Finished, control, data
<1> QED
  BY <1>1, <1>2, LocalMove

LEMMA KeepStep ==
  ASSUME IInv, NEW p \in Proc, NEW l \in Labels, NEW m \in Mem,
         Goto(p, l), Keep(p, m),
         UNCHANGED <<world, control, data, attempts>>,
         Backed(m.state), l \notin {"put", "capture"},
         l \in {"adopt", "publish"} => Finished(m.snap),
         l \in {"evaluate", "run", "attest"} =>
           realized # None /\ m.snap = realized /\ m.pred # None
  PROVE  IInv'
<1>1. Typed' /\ Only(p) /\ mem'[p] = m /\ pc'[p] = l
  BY Moves DEF IInv
<1>2. LocalInv(p)'
  BY <1>1 DEF IInv, LocalInv, Backed, Evaluating, Finished, control, data
<1> QED
  BY <1>1, <1>2, LocalMove

-----------------------------------------------------------------------------
(* The invariant is preserved: the steps of one invocation *)

LEMMA ReconcilePreserves ==
  ASSUME IInv, NEW p \in Proc, Reconcile(p)
  PROVE  IInv'
<1>1. CASE ReviewReceipts(p)
  BY <1>1, ReviewStep DEF ReviewReceipts, Scope
<1>2. CASE StillInReview(p)
  <2>1. Return(p, "REVIEW_REQUIRED") /\ UNCHANGED <<world, control, data, attempts>>
    BY <1>2 DEF StillInReview
  <2>2. /\ Typed' /\ Only(p) /\ pc'[p] = "unlock" /\ mem'[p].state = NewState
    BY <2>1, ReturnMoves DEF IInv, Status
  <2>3. LocalInv(p)'
    BY <2>2, StatusOf DEF LocalInv, Backed, Evaluating
  <2> QED
    BY <2>1, <2>2, <2>3, LocalMove
<1>3. CASE AlreadyRealized(p)
  <2> DEFINE st == Written("REALIZED_COMPLETE", None)
  <2>1. st \in State /\ Backed(st)
    BY <1>3, StateType, StatusOf DEF AlreadyRealized, Backed, Status
  <2>2. /\ Prepare(p, st, "unlock", "REALIZED_COMPLETE")
        /\ UNCHANGED <<world, control, data, attempts>>
    BY <1>3 DEF AlreadyRealized, AfterRealized
  <2> HIDE DEF st
  <2> QED
    BY <2>1, <2>2, PrepareStep DEF Status
<1>4. CASE ResumeEvaluation(p)
  <2> DEFINE m == Locals("monitor", mem[p].pred, realized, NewState, "unlock", None)
  <2>1. mem[p].pred \in Prediction \cup {None} /\ realized \in SnapId \cup {None}
    BY DEF IInv, Typed, Mem, GlobalInv, GlobalType
  <2>2. /\ m \in Mem /\ m.pred = mem[p].pred /\ m.snap = realized
        /\ m.state = NewState
    BY <2>1, StateType, TimeType, LabelsAre DEF Locals, Mem
  <2>3. /\ Keep(p, m) /\ Goto(p, "evaluate")
        /\ UNCHANGED <<world, control, data, attempts>>
        /\ realized # None /\ mem[p].pred # None
    BY <1>4 DEF ResumeEvaluation
  <2> HIDE DEF m
  <2>4. Backed(m.state)
    BY <2>2, StatusOf DEF Backed
  <2> QED
    BY <2>2, <2>3, <2>4, KeepStep, LabelsAre
<1>5. CASE NothingAccepted(p)
  BY <1>5, GoStep, LabelsAre DEF NothingAccepted
<1> QED
  BY <1>1, <1>2, <1>3, <1>4, <1>5 DEF Reconcile

(* A valid snapshot is a finished one with a name. *)
LEMMA ValidFinished ==
  ASSUME IInv, NEW i, Valid(i)
  PROVE  Finished(i) /\ i \in SnapId
  BY LenProperties, BoundAssumption
     DEF Valid, Finished, IInv, GlobalInv, GlobalType, SnapId

(* The realized receipt is linked and REALIZED_COMPLETE is prepared. *)
LEMMA PublishRealizedPreserves ==
  ASSUME IInv, NEW p \in Proc, PublishRealized(p)
  PROVE  IInv'
<1> DEFINE st == Written("REALIZED_COMPLETE", None)
           n  == IF mem[p].pred = None THEN "unlock" ELSE "evaluate"
<1>1. /\ realized = None /\ realized' = mem[p].snap
      /\ Prepare(p, st, n, "REALIZED_COMPLETE")
      /\ UNCHANGED <<world, lock, state, archive, evaluation, data, attempts>>
      /\ pc[p] \in {"adopt", "publish"}
  BY DEF PublishRealized, AfterRealized
<1>2. st \in State /\ st.status = "REALIZED_COMPLETE"
  BY StateType, StatusOf DEF Status
<1>3. n \in Labels /\ n \in {"unlock", "evaluate"}
  BY LabelsAre
<1>4. Finished(mem[p].snap)
  BY <1>1 DEF IInv, LocalInv
<1>5. mem[p].snap \in SnapId /\ mem[p].snap # None
  BY <1>4, LenProperties, BoundAssumption, NoneAssumption
     DEF Finished, IInv, GlobalInv, GlobalType, SnapId
<1>6. n = "evaluate" => mem[p].pred # None
  OBVIOUS
<1> HIDE DEF st, n
<1>7. /\ Typed' /\ Only(p) /\ pc'[p] = "put" /\ mem'[p].state = st
      /\ mem'[p].next = n /\ mem'[p].pred = mem[p].pred
      /\ mem'[p].snap = IF n = "unlock" THEN None ELSE mem[p].snap
  BY <1>1, <1>2, <1>3, PrepareMoves DEF IInv, Status
<1>8. evaluation = None
  BY <1>1 DEF IInv, GlobalInv, EvaluationBacked
<1>9. Grows
  BY <1>1 DEF Grows, data
<1>10. GlobalInv'
  <2>1. GlobalType'
    BY <1>1, <1>5 DEF IInv, GlobalInv, GlobalType, world, data
  <2>2. ReceiptBacked'
    BY <1>1, <1>4 DEF ReceiptBacked, Finished, data
  <2>3. EvaluationBacked'
    BY <1>1, <1>8 DEF EvaluationBacked
  <2>4. Backed(state)'
    BY <1>1, <1>5 DEF IInv, GlobalInv, Backed
  <2> QED
    BY <2>1, <2>2, <2>3, <2>4 DEF GlobalInv
<1>11. LocalInv(p)'
  BY <1>1, <1>2, <1>3, <1>5, <1>6, <1>7 DEF LocalInv, Backed, Evaluating
<1>12. UNCHANGED snapshots
  BY <1>1 DEF data
<1> QED
  BY <1>7, <1>9, <1>10, <1>11, <1>12, OneMoves

LEMMA AdoptPreserves ==
  ASSUME IInv, NEW p \in Proc, Adopt(p)
  PROVE  IInv'
<1>1. CASE FindCandidate(p)
  <2>1. PICK c \in Candidates :
          Keep(p, Locals("monitor", mem[p].pred, c, NewState, "unlock", None))
    BY <1>1 DEF FindCandidate
  <2> DEFINE m == Locals("monitor", mem[p].pred, c, NewState, "unlock", None)
  <2>2. Finished(c) /\ c \in SnapId
    BY ValidFinished DEF Candidates
  <2>3. mem[p].pred \in Prediction \cup {None}
    BY DEF IInv, Typed, Mem
  <2>4. m \in Mem /\ m.snap = c /\ m.state = NewState
    BY <2>2, <2>3, StateType, TimeType, LabelsAre DEF Locals, Mem
  <2>5. Keep(p, m) /\ Goto(p, "adopt") /\ UNCHANGED <<world, control, data, attempts>>
    BY <1>1, <2>1 DEF FindCandidate
  <2> HIDE DEF m
  <2>6. Backed(m.state) /\ Finished(m.snap)
    BY <2>2, <2>4, StatusOf DEF Backed
  <2> QED
    BY <2>4, <2>5, <2>6, KeepStep, LabelsAre
<1>2. CASE RefreshWasInterrupted(p)
  BY <1>2, ReviewStep DEF RefreshWasInterrupted, Scope
<1>3. CASE NoCandidate(p)
  BY <1>3, GoStep, LabelsAre DEF NoCandidate
<1>4. CASE PublishRealized(p)
  BY <1>4, PublishRealizedPreserves
<1>5. CASE RealizedExists(p)
  BY <1>5, ReviewStep DEF RealizedExists, Scope
<1> QED
  BY <1>1, <1>2, <1>3, <1>4, <1>5 DEF Adopt

LEMMA ObservedType ==
  ASSUME IInv, NEW p \in Proc
  PROVE  /\ Observed(p) \in Observation
         /\ \A f \in Observation \cup {None} :
              RetainedFirst(p, Observed(p), f) \in Observation
         /\ mem[p].state.first \in Observation \cup {None}
<1>1. mem[p].event \in EventValue /\ mem[p].started \in Time /\ mem[p].state \in State
  BY DEF IInv, Typed, Mem
<1>2. official.fixtures \in FixtureValue
  BY DEF IInv, GlobalInv, GlobalType, Digest
<1>3. Observed(p) \in Observation
  BY <1>1, <1>2, TimeType DEF Observed, Observation, Digest
<1> QED
  BY <1>1, <1>3 DEF RetainedFirst, SameDigest, State

LEMMA ProbePreserves ==
  ASSUME IInv, NEW p \in Proc, Probe(p)
  PROVE  IInv'
<1>1. CASE ProbeEvent(p)
  <2> DEFINE m == [mem[p] EXCEPT !.event = official.event]
  <2>1. mem[p] \in Mem /\ official.event \in EventValue /\ Backed(mem[p].state)
    BY DEF IInv, Typed, GlobalInv, GlobalType, Digest, LocalInv
  <2>2. m \in Mem /\ m.state = mem[p].state
    BY <2>1 DEF Mem
  <2>3. Keep(p, m) /\ Goto(p, "fixtures") /\ UNCHANGED <<world, control, data, attempts>>
    BY <1>1 DEF ProbeEvent
  <2> HIDE DEF m
  <2> QED
    BY <2>1, <2>2, <2>3, KeepStep, LabelsAre
<1>2. CASE ProbeFixtures(p)
  <2> DEFINE o == Observed(p)
             f == mem[p].state.first
  <2>1. Decide(p, o) /\ UNCHANGED <<world, control, data, attempts>>
    BY <1>2 DEF ProbeFixtures
  <2>2. o \in Observation /\ RetainedFirst(p, o, f) \in Observation
    BY ObservedType
  <2> HIDE DEF o
  <2>3. CASE Prepare(p, Waiting(None), "unlock", "WAITING")
    <3>1. Waiting(None) \in State /\ Backed(Waiting(None))
      BY StateType, StatusOf DEF Backed
    <3> QED
      BY <2>1, <2>3, <3>1, PrepareStep DEF Status
  <2>4. CASE Prepare(p, Waiting(RetainedFirst(p, o, f)), "unlock", "WAITING")
    <3> DEFINE g == RetainedFirst(p, o, f)
    <3>1. Waiting(g) \in State /\ Backed(Waiting(g))
      BY <2>2, StateType, StatusOf DEF Backed
    <3>2. Prepare(p, Waiting(g), "unlock", "WAITING")
      BY <2>4
    <3> HIDE DEF g
    <3> QED
      BY <2>1, <3>1, <3>2, PrepareStep DEF Status
  <2>5. CASE Prepare(p, Written("REFRESHING", None), "refresh", None)
    <3>1. /\ Written("REFRESHING", None) \in State
          /\ Backed(Written("REFRESHING", None))
      BY StateType, StatusOf DEF Backed, Status
    <3> QED
      BY <2>1, <2>5, <3>1, PrepareStep
  <2> QED
    BY <2>1, <2>3, <2>4, <2>5 DEF Decide
<1>3. CASE ProbeUnavailable(p)
  BY <1>3, RaiseStep DEF ProbeUnavailable
<1>4. CASE ProbeMalformed(p)
  BY <1>4, ReviewStep DEF ProbeMalformed, Scope
<1> QED
  BY <1>1, <1>2, <1>3, <1>4 DEF Probe

LEMMA WriteStatePreserves ==
  ASSUME IInv, NEW p \in Proc, WriteState(p)
  PROVE  IInv'
<1>1. /\ mem[p] \in Mem /\ Backed(mem[p].state)
      /\ mem[p].next \in {"unlock", "evaluate", "refresh", "validate"}
  BY DEF WriteState, IInv, Typed, LocalInv
<1>2. mem[p].state \in State /\ mem[p].next \in Labels
  BY <1>1 DEF Mem
<1>3. /\ state' = mem[p].state /\ archive' = None /\ Goto(p, mem[p].next)
      /\ attempts' \in {0, attempts}
      /\ UNCHANGED <<world, lock, realized, evaluation, data, mem>>
  BY DEF WriteState
<1>4. /\ Typed' /\ Only(p) /\ mem'[p] = mem[p] /\ pc'[p] = mem[p].next
  BY <1>2, <1>3, Goes DEF IInv
<1>5. Grows /\ UNCHANGED snapshots
  BY <1>3 DEF Grows, data
<1>6. GlobalInv'
  BY <1>1, <1>2, <1>3
     DEF IInv, GlobalInv, GlobalType, ReceiptBacked, EvaluationBacked, Backed, world, data
<1>7. LocalInv(p)'
  BY <1>1, <1>3, <1>4 DEF IInv, LocalInv, Backed, Evaluating, WriteState
<1> QED
  BY <1>1, <1>4, <1>5, <1>6, <1>7, OneMoves

-----------------------------------------------------------------------------
(* Steps that add to the snapshots on disk *)

LEMMA SnapshotTypes ==
  ASSUME IInv
  PROVE  /\ NewSnapshot \in Snapshot
         /\ \A s \in Snapshot : Downloaded(s) \in Snapshot
         /\ DOMAIN snapshots = 1..Len(snapshots) /\ Len(snapshots) \in Nat
         /\ DOMAIN snapshots \subseteq SnapId
         /\ \A i \in DOMAIN snapshots : snapshots[i] \in Snapshot
<1>1. snapshots \in Seq(Snapshot) /\ Len(snapshots) <= MaxSnapshots
  BY DEF IInv, GlobalInv, GlobalType
<1>2. NewSnapshot \in Snapshot
  BY DEF NewSnapshot, Snapshot
<1>3. \A s \in Snapshot : Downloaded(s) \in Snapshot
  BY DEF Downloaded, Snapshot
<1>4. /\ DOMAIN snapshots = 1..Len(snapshots) /\ Len(snapshots) \in Nat
      /\ \A i \in DOMAIN snapshots : snapshots[i] \in Snapshot
  BY <1>1, LenProperties, ElementOfSeq
<1> QED
  BY <1>1, <1>2, <1>3, <1>4, BoundAssumption DEF SnapId

(* A new incomplete snapshot, whoever begins it. *)
LEMMA Appended ==
  ASSUME IInv, Len(snapshots) < MaxSnapshots,
         snapshots' = Append(snapshots, NewSnapshot),
         UNCHANGED <<world, control, evaluations>>, attempts' \in 0..2
  PROVE  /\ GlobalInv' /\ Grows
         /\ Len(snapshots) + 1 \in SnapId \ DOMAIN snapshots
         /\ Len(snapshots) + 1 \in DOMAIN snapshots'
         /\ ~snapshots'[Len(snapshots) + 1].complete
         /\ \A i \in DOMAIN snapshots :
              i \in DOMAIN snapshots' /\ snapshots'[i] = snapshots[i]
<1>1. snapshots \in Seq(Snapshot) /\ NewSnapshot \in Snapshot
  BY SnapshotTypes DEF IInv, GlobalInv, GlobalType
<1>2. /\ snapshots' \in Seq(Snapshot) /\ Len(snapshots') = Len(snapshots) + 1
      /\ \A i \in 1..Len(snapshots) : snapshots'[i] = snapshots[i]
      /\ snapshots'[Len(snapshots) + 1] = NewSnapshot
  BY <1>1, AppendProperties
<1>3. DOMAIN snapshots' = 1..(Len(snapshots) + 1)
  BY <1>2, LenProperties
<1>4. \A i \in DOMAIN snapshots : i \in DOMAIN snapshots' /\ snapshots'[i] = snapshots[i]
  BY <1>2, <1>3, SnapshotTypes
<1>5. Grows
  BY <1>4 DEF Grows, control
<1>6. GlobalInv'
  <2>1. GlobalType'
    BY <1>2, SnapshotTypes, BoundAssumption
       DEF IInv, GlobalInv, GlobalType, world, control
  <2>2. ReceiptBacked' /\ EvaluationBacked' /\ Backed(state)'
    BY <1>4 DEF IInv, GlobalInv, ReceiptBacked, EvaluationBacked, Backed, control
  <2> QED
    BY <2>1, <2>2 DEF GlobalInv
<1>7. ~NewSnapshot.complete
  BY DEF NewSnapshot
<1>8. Len(snapshots) + 1 \in SnapId \ DOMAIN snapshots
  BY SnapshotTypes, BoundAssumption DEF SnapId
<1>9. Len(snapshots) + 1 \in DOMAIN snapshots'
  BY <1>3, SnapshotTypes
<1> QED
  BY <1>2, <1>4, <1>5, <1>6, <1>7, <1>8, <1>9

(* An incomplete snapshot becomes complete, whoever finishes it. *)
LEMMA Finishes ==
  ASSUME IInv, NEW i \in DOMAIN snapshots, ~snapshots[i].complete,
         snapshots' = [snapshots EXCEPT ![i] = Downloaded(@)],
         UNCHANGED <<world, control, evaluations, attempts>>
  PROVE  /\ GlobalInv' /\ Grows
         /\ DOMAIN snapshots' = DOMAIN snapshots
         /\ \A j \in DOMAIN snapshots \ {i} : snapshots'[j] = snapshots[j]
<1>1. snapshots \in Seq(Snapshot) /\ Downloaded(snapshots[i]) \in Snapshot
  BY SnapshotTypes DEF IInv, GlobalInv, GlobalType
<1>2. /\ snapshots' \in Seq(Snapshot) /\ Len(snapshots') = Len(snapshots)
      /\ \A j \in 1..Len(snapshots) : j # i => snapshots'[j] = snapshots[j]
  BY <1>1, ExceptSeq, SnapshotTypes
<1>3. DOMAIN snapshots' = DOMAIN snapshots
  BY <1>2, LenProperties, SnapshotTypes
<1>4. \A j \in DOMAIN snapshots \ {i} : snapshots'[j] = snapshots[j]
  BY <1>2, SnapshotTypes
<1>5. Grows
  BY <1>3, <1>4 DEF Grows, control
<1>6. GlobalInv'
  <2>1. GlobalType'
    BY <1>2 DEF IInv, GlobalInv, GlobalType, world, control
  <2>2. ReceiptBacked' /\ EvaluationBacked' /\ Backed(state)'
    BY <1>3, <1>4 DEF IInv, GlobalInv, ReceiptBacked, EvaluationBacked, Backed, control
  <2> QED
    BY <2>1, <2>2 DEF GlobalInv
<1> QED
  BY <1>3, <1>4, <1>5, <1>6

LEMMA BeginRefreshPreserves ==
  ASSUME IInv, NEW p \in Proc, BeginRefresh(p)
  PROVE  IInv'
<1> DEFINE n == Len(snapshots) + 1
           m == [mem[p] EXCEPT !.snap = n]
<1>1. /\ Len(snapshots) < MaxSnapshots /\ snapshots' = Append(snapshots, NewSnapshot)
      /\ Keep(p, m) /\ Goto(p, "capture") /\ pc[p] = "refresh"
      /\ UNCHANGED <<world, control, evaluations>>
  BY DEF BeginRefresh
<1>2. attempts' \in 0..2
  BY DEF BeginRefresh, IInv, GlobalInv, GlobalType
<1>3. /\ GlobalInv' /\ Grows
      /\ n \in SnapId \ DOMAIN snapshots
      /\ n \in DOMAIN snapshots' /\ ~snapshots'[n].complete
      /\ \A i \in DOMAIN snapshots :
           i \in DOMAIN snapshots' /\ snapshots'[i] = snapshots[i]
  BY <1>1, <1>2, Appended
<1>4. mem[p] \in Mem /\ Backed(mem[p].state)
  BY DEF IInv, Typed, LocalInv
<1> HIDE DEF n
<1>5. m \in Mem /\ m.snap = n /\ m.state = mem[p].state
  BY <1>3, <1>4 DEF Mem
<1> HIDE DEF m
<1>6. Typed' /\ Only(p) /\ mem'[p] = m /\ pc'[p] = "capture"
  BY <1>1, <1>5, Moves, LabelsAre DEF IInv
<1>7. ASSUME NEW q \in Proc PROVE LocalInv(q)'
  <2>1. CASE q = p
    BY <1>1, <1>3, <1>4, <1>5, <1>6, <2>1 DEF LocalInv, Backed, Evaluating, control
  <2>2. CASE q # p
    <3>1. pc'[q] = pc[q] /\ mem'[q] = mem[q] /\ LocalInv(q)
      BY <1>6, <2>2 DEF Only, IInv
    <3>2. pc[q] = "capture" => snapshots'[mem[q].snap] = snapshots[mem[q].snap]
      BY <1>3, <3>1 DEF LocalInv
    <3> QED
      BY <1>3, <3>1, <3>2, Stays
  <2> QED
    BY <2>1, <2>2
<1>8. \A q, r \in Proc, i \in SnapId :
        (Capturing(q, i))' /\ (Capturing(r, i))' => q = r
  <2>1. \A q \in Proc \ {p} : pc[q] = "capture" => mem[q].snap # n
    BY <1>3 DEF IInv, LocalInv
  <2> QED
    BY <1>5, <1>6, <2>1 DEF IInv, Capturing, Only
<1> QED
  BY <1>3, <1>6, <1>7, <1>8 DEF IInv

LEMMA FinishRefreshPreserves ==
  ASSUME IInv, NEW p \in Proc, FinishRefresh(p)
  PROVE  IInv'
<1> DEFINE i  == mem[p].snap
           st == mem[p].state
<1>1. /\ snapshots' = [snapshots EXCEPT ![i] = Downloaded(@)]
      /\ Prepare(p, st, "validate", None) /\ pc[p] = "capture"
      /\ UNCHANGED <<world, control, evaluations, attempts>>
  BY DEF FinishRefresh
<1>2. /\ i \in DOMAIN snapshots /\ ~snapshots[i].complete
      /\ st \in State /\ Backed(st)
  BY <1>1 DEF IInv, LocalInv, Typed, Mem
<1>3. /\ GlobalInv' /\ Grows
      /\ DOMAIN snapshots' = DOMAIN snapshots
      /\ \A j \in DOMAIN snapshots \ {i} : snapshots'[j] = snapshots[j]
  BY <1>1, <1>2, Finishes
<1>4. i \in SnapId
  BY <1>2, SnapshotTypes
<1>5. \A q \in Proc \ {p} : pc[q] = "capture" =>
        mem[q].snap \in DOMAIN snapshots \ {i}
  BY <1>1, <1>4 DEF IInv, LocalInv, Capturing
<1> HIDE DEF st, i
<1>6. /\ Typed' /\ Only(p) /\ pc'[p] = "put" /\ mem'[p].state = st
      /\ mem'[p].next = "validate"
  BY <1>1, <1>2, PrepareMoves, LabelsAre DEF IInv
<1>7. LocalInv(p)'
  BY <1>1, <1>2, <1>6 DEF LocalInv, Backed, Evaluating, control
<1> QED
  BY <1>3, <1>5, <1>6, <1>7, OneMoves

LEMMA RefreshPreserves ==
  ASSUME IInv, NEW p \in Proc, Refresh(p)
  PROVE  IInv'
<1>1. CASE RefreshFails(p)
  BY <1>1, ReviewStep DEF RefreshFails, Scope
<1>2. CASE ValidateRefreshed(p)
  <2>1. CASE Valid(mem[p].snap)
    BY <1>2, <2>1, ValidFinished, GoStep, LabelsAre DEF ValidateRefreshed
  <2>2. CASE ~Valid(mem[p].snap)
    BY <1>2, <2>2, ReviewStep DEF ValidateRefreshed, Scope
  <2> QED
    BY <2>1, <2>2
<1> QED
  BY <1>1, <1>2, BeginRefreshPreserves, FinishRefreshPreserves DEF Refresh

-----------------------------------------------------------------------------
(* Evaluation, reset, and the steps at both ends of an invocation *)

LEMMA RequestedType ==
  ASSUME IInv, NEW p \in Proc, pc[p] \in {"evaluate", "run", "attest"}
  PROVE  /\ Requested(p) \in Binding /\ Requested(p) # None
         /\ realized # None /\ Requested(p).snap = realized
<1>1. /\ mem[p].pred \in Prediction /\ mem[p].snap \in SnapId
      /\ realized # None /\ mem[p].snap = realized
  BY DEF IInv, Typed, Mem, LocalInv, Evaluating
<1> QED
  BY <1>1, AbsentAssumption DEF Requested, Binding

LEMMA CompletedStep ==
  ASSUME IInv, NEW p \in Proc, pc[p] \in {"evaluate", "attest"}, Completed(p),
         evaluation' \in {evaluation, Requested(p)}, evaluation' # None,
         evaluation # None => evaluation' = evaluation,
         UNCHANGED <<world, lock, state, archive, realized, data, attempts>>
  PROVE  IInv'
<1> DEFINE st == Written("COMPLETE", None)
<1>1. st \in State /\ st.status = "COMPLETE"
  BY StateType, StatusOf DEF Status
<1>2. Prepare(p, st, "unlock", "COMPLETE")
  BY DEF Completed
<1> HIDE DEF st
<1>3. /\ Typed' /\ Only(p) /\ pc'[p] = "put" /\ mem'[p].state = st
      /\ mem'[p].next = "unlock"
  BY <1>1, <1>2, PrepareMoves, LabelsAre DEF IInv, Status
<1>4. /\ Requested(p) \in Binding /\ Requested(p) # None
      /\ realized # None /\ Requested(p).snap = realized
  BY RequestedType
<1>5. Grows /\ UNCHANGED snapshots
  BY DEF Grows, data
<1>6. GlobalInv'
  <2>1. GlobalType'
    BY <1>4 DEF IInv, GlobalInv, GlobalType, world, data
  <2>2. ReceiptBacked' /\ Backed(state)'
    BY DEF IInv, GlobalInv, ReceiptBacked, Backed, data
  <2>3. EvaluationBacked'
    BY <1>4 DEF IInv, GlobalInv, EvaluationBacked
  <2> QED
    BY <2>1, <2>2, <2>3 DEF GlobalInv
<1>7. LocalInv(p)'
  BY <1>1, <1>3, <1>4 DEF LocalInv, Backed, Evaluating
<1> QED
  BY <1>3, <1>5, <1>6, <1>7, OneMoves

LEMMA EvaluatePreserves ==
  ASSUME IInv, NEW p \in Proc, Evaluate(p)
  PROVE  IInv'
<1>1. CASE EvaluationAccepted(p)
  BY <1>1, CompletedStep, RequestedType DEF EvaluationAccepted, control
<1>2. CASE FindEvaluation(p)
  <2> DEFINE l == IF evaluations[Requested(p)] > 0 THEN "attest" ELSE "run"
  <2>1. l \in {"attest", "run"} /\ l \in Labels
    BY LabelsAre
  <2>2. /\ Goto(p, l) /\ UNCHANGED mem /\ Evaluating(p)
        /\ UNCHANGED <<world, control, data, attempts>>
    BY <1>2 DEF FindEvaluation, Evaluating
  <2> HIDE DEF l
  <2> QED
    BY <2>1, <2>2, GoStep
<1>3. CASE RunEvaluation(p)
  <2>1. /\ Goto(p, "attest") /\ UNCHANGED mem /\ pc[p] = "run"
        /\ UNCHANGED <<world, control, snapshots, attempts>>
    BY <1>3 DEF RunEvaluation
  <2>2. evaluations' \in [Binding -> 0..2]
    <3>1. Requested(p) \in Binding /\ evaluations \in [Binding -> 0..2]
      BY <2>1, RequestedType DEF IInv, GlobalInv, GlobalType
    <3> QED
      BY <1>3, <3>1 DEF RunEvaluation
  <2>3. Typed' /\ Only(p) /\ mem'[p] = mem[p] /\ pc'[p] = "attest"
    BY <2>1, Goes, LabelsAre DEF IInv
  <2>4. Grows
    BY <2>1 DEF Grows, control
  <2>5. GlobalInv'
    BY <2>1, <2>2 DEF IInv, GlobalInv, GlobalType, ReceiptBacked, EvaluationBacked,
                      Backed, world, control
  <2>6. LocalInv(p)'
    BY <2>1, <2>3 DEF IInv, LocalInv, Backed, Evaluating, control
  <2> QED
    BY <2>1, <2>3, <2>4, <2>5, <2>6, OneMoves
<1>4. CASE EvaluationFails(p)
  BY <1>4, ReviewStep DEF EvaluationFails, Scope
<1>5. CASE PublishEvaluation(p)
  <2>1. CASE evaluation = None
    BY <1>5, <2>1, CompletedStep, RequestedType DEF PublishEvaluation
  <2>2. CASE evaluation # None
    BY <1>5, <2>2, ReviewStep DEF PublishEvaluation, Scope, control
  <2> QED
    BY <2>1, <2>2
<1> QED
  BY <1>1, <1>2, <1>3, <1>4, <1>5 DEF Evaluate

LEMMA ResetPreserves ==
  ASSUME IInv, NEW p \in Proc, Reset(p)
  PROVE  IInv'
<1>1. CASE RefuseReset(p)
  BY <1>1, RaiseStep DEF RefuseReset
<1>2. CASE ArchiveReview(p)
  <2> DEFINE sc == mem[p].state.scope
             st == Written(IF sc = "evaluation" THEN "REALIZED_COMPLETE" ELSE "WAITING",
                           None)
  <2>1. /\ Prepare(p, st, "unlock", None) /\ archive' = sc
        /\ UNCHANGED <<world, lock, state, realized, evaluation, data, attempts>>
    BY <1>2 DEF ArchiveReview
  <2>2. mem[p].state \in State /\ sc \in Scope \cup {None}
    BY DEF IInv, Typed, Mem, State
  <2>3. /\ st \in State /\ st.status # "COMPLETE"
        /\ st.status = "REALIZED_COMPLETE" => realized # None
    BY <1>2, StateType, StatusOf DEF ArchiveReview, Resettable, Status
  <2> HIDE DEF sc, st
  <2>4. /\ Typed' /\ Only(p) /\ pc'[p] = "put" /\ mem'[p].state = st
        /\ mem'[p].next = "unlock"
    BY <2>1, <2>3, PrepareMoves, LabelsAre DEF IInv
  <2>5. Grows /\ UNCHANGED snapshots
    BY <2>1 DEF Grows, data
  <2>6. GlobalInv'
    BY <2>1, <2>2 DEF IInv, GlobalInv, GlobalType, ReceiptBacked, EvaluationBacked,
                      Backed, world, data
  <2>7. LocalInv(p)'
    BY <2>1, <2>3, <2>4 DEF LocalInv, Backed, Evaluating
  <2> QED
    BY <2>4, <2>5, <2>6, <2>7, OneMoves
<1> QED
  BY <1>1, <1>2 DEF Reset

(* Steps that move one invocation and at most the lock and the fault counter. *)
LEMMA EndsStep ==
  ASSUME IInv, NEW p \in Proc, NEW l \in {"idle", "load"}, NEW m \in Mem,
         Typed', Only(p), mem'[p] = m, pc'[p] = l, Backed(m.state),
         lock' \in Proc \cup {None}, faults' \in 0..MaxFaults,
         UNCHANGED <<official, afterDeadline, state, archive, realized, evaluation,
                     data, attempts>>
  PROVE  IInv'
<1>1. Grows /\ UNCHANGED snapshots
  BY DEF Grows, data
<1>2. GlobalInv'
  BY DEF IInv, GlobalInv, GlobalType, ReceiptBacked, EvaluationBacked, Backed, data
<1>3. LocalInv(p)'
  BY DEF LocalInv, Backed, Evaluating
<1> QED
  BY <1>1, <1>2, <1>3, OneMoves

LEMMA FreshStep ==
  ASSUME IInv, NEW p \in Proc, Keep(p, FreshMem), Goto(p, "idle"),
         lock' \in Proc \cup {None}, faults' \in 0..MaxFaults,
         UNCHANGED <<official, afterDeadline, state, archive, realized, evaluation,
                     data, attempts>>
  PROVE  IInv'
<1>1. FreshMem \in Mem /\ Backed(FreshMem.state)
  BY FreshMemType, StatusOf DEF Backed
<1>2. Typed' /\ Only(p) /\ mem'[p] = FreshMem /\ pc'[p] = "idle"
  BY <1>1, Moves, LabelsAre DEF IInv
<1> QED
  BY <1>1, <1>2, EndsStep

LEMMA EndsPreserve ==
  ASSUME IInv, NEW p \in Proc,
         AcquireLock(p) \/ Locked(p) \/ LoadState(p) \/ Finish(p) \/ Kill(p)
  PROVE  IInv'
<1>1. /\ lock \in Proc \cup {None} /\ faults \in 0..MaxFaults
      /\ mem[p] \in Mem /\ Backed(mem[p].state) /\ Backed(state) /\ state \in State
  BY DEF IInv, GlobalInv, GlobalType, Typed, LocalInv
<1>2. CASE AcquireLock(p)
  <2>1. Typed' /\ Only(p) /\ mem'[p] = mem[p] /\ pc'[p] = "load"
    BY <1>2, Goes, LabelsAre DEF IInv, AcquireLock
  <2> QED
    BY <1>1, <1>2, <2>1, EndsStep DEF AcquireLock, world
<1>3. CASE Locked(p)
  BY <1>1, <1>3, FreshStep DEF Locked, world, control
<1>4. CASE LoadState(p)
  <2> DEFINE m == [mem[p] EXCEPT !.state = state]
             l == IF mem[p].job = "reset" THEN "reset" ELSE "reconcile"
  <2>1. m \in Mem /\ m.state = state
    BY <1>1 DEF Mem
  <2>2. l \in Labels /\ l \in {"reset", "reconcile"}
    BY LabelsAre
  <2>3. Keep(p, m) /\ Goto(p, l) /\ UNCHANGED <<world, control, data, attempts>>
    BY <1>4 DEF LoadState
  <2> HIDE DEF m, l
  <2> QED
    BY <1>1, <2>1, <2>2, <2>3, KeepStep
<1>5. CASE Finish(p)
  BY <1>1, <1>5, FreshStep DEF Finish, world
<1>6. CASE Kill(p)
  <2>1. faults' \in 0..MaxFaults
    BY <1>1, <1>6, BoundAssumption DEF Kill
  <2> QED
    BY <1>1, <1>6, <2>1, FreshStep DEF Kill, control
<1> QED
  BY <1>2, <1>3, <1>4, <1>5, <1>6

LEMMA StartPreserves ==
  ASSUME IInv, NEW p \in Proc, Start(p) \/ StartReset(p)
  PROVE  IInv'
<1>1. CASE Start(p)
  <2>1. PICK q \in Prediction \cup {None} :
          Keep(p, [FreshMem EXCEPT !.pred = q, !.started = Now, !.late = afterDeadline])
    BY <1>1 DEF Start
  <2> DEFINE m1 == [FreshMem EXCEPT !.pred = q]
             m2 == [m1 EXCEPT !.started = Now]
             m  == [m2 EXCEPT !.late = afterDeadline]
  <2>2. m1 \in Mem /\ m1.state = NewState
    BY FreshMemType DEF Mem
  <2>3. Keep(p, m) /\ Goto(p, "lock") /\ UNCHANGED <<world, control, data, attempts>>
    BY <1>1, <2>1 DEF Start
  <2> HIDE DEF m1
  <2>4. m2 \in Mem /\ m2.state = NewState
    BY <2>2, TimeType DEF Mem
  <2> HIDE DEF m2
  <2>5. m \in Mem /\ m.state = NewState
    BY <2>4 DEF Mem, IInv, GlobalInv, GlobalType
  <2> HIDE DEF m
  <2>6. Backed(m.state)
    BY <2>5, StatusOf DEF Backed
  <2> QED
    BY <2>3, <2>5, <2>6, KeepStep, LabelsAre
<1>2. CASE StartReset(p)
  <2> DEFINE m == Locals("reset", None, None, NewState, "unlock", None)
  <2>1. m \in Mem /\ m.state = NewState
    BY StateType, TimeType, LabelsAre DEF Locals, Mem
  <2>2. Keep(p, m) /\ Goto(p, "lock") /\ UNCHANGED <<world, control, data, attempts>>
    BY <1>2 DEF StartReset
  <2> HIDE DEF m
  <2>3. Backed(m.state)
    BY <2>1, StatusOf DEF Backed
  <2> QED
    BY <2>1, <2>2, <2>3, KeepStep, LabelsAre
<1> QED
  BY <1>1, <1>2

-----------------------------------------------------------------------------
(* The invariant is preserved: the world outside *)

LEMMA NobodyMoves ==
  ASSUME IInv, GlobalInv', Grows, UNCHANGED <<pc, mem>>,
         \A q \in Proc :
           pc[q] = "capture" => snapshots'[mem[q].snap] = snapshots[mem[q].snap]
  PROVE  IInv'
<1>1. \A q \in Proc : LocalInv(q)'
  BY Stays DEF IInv
<1> QED
  BY <1>1 DEF IInv, Typed, Capturing

LEMMA BackTypes ==
  /\ \A t \in Time : Back(t) \in Time
  /\ \A s \in State : /\ BackState(s) \in State
                      /\ BackState(s).status = s.status
                      /\ BackState(s).scope = s.scope
  /\ \A m \in Mem : /\ BackMem(m) \in Mem
                    /\ BackMem(m).pred = m.pred /\ BackMem(m).snap = m.snap
                    /\ BackMem(m).next = m.next /\ BackMem(m).job = m.job
                    /\ BackMem(m).late = m.late /\ BackMem(m).outcome = m.outcome
                    /\ BackMem(m).started = Back(m.started)
                    /\ BackMem(m).state = BackState(m.state)
                    /\ BackMem(m).state.status = m.state.status
<1>1. \A t \in Time : Back(t) \in Time
  BY WindowAssumption DEF Back, Time
<1>2. ASSUME NEW s \in State
      PROVE  /\ BackState(s) \in State
             /\ BackState(s).status = s.status /\ BackState(s).scope = s.scope
  <2>1. BackObs(s.first) \in Observation \cup {None}
    BY <1>1 DEF BackObs, State, Observation
  <2> QED
    BY <2>1 DEF BackState, State
<1>3. ASSUME NEW m \in Mem
      PROVE  /\ BackMem(m) \in Mem
             /\ BackMem(m).pred = m.pred /\ BackMem(m).snap = m.snap
             /\ BackMem(m).next = m.next /\ BackMem(m).job = m.job
             /\ BackMem(m).late = m.late /\ BackMem(m).outcome = m.outcome
             /\ BackMem(m).started = Back(m.started)
             /\ BackMem(m).state = BackState(m.state)
             /\ BackMem(m).state.status = m.state.status
  <2> DEFINE t  == Back(m.started)
             s  == BackState(m.state)
             m1 == [m EXCEPT !.started = t]
             m2 == [m1 EXCEPT !.state = s]
  <2>1. t \in Time /\ s \in State /\ s.status = m.state.status
    BY <1>1, <1>2 DEF Mem
  <2>2. BackMem(m) = m2
    BY DEF BackMem
  <2> HIDE DEF t, s
  <2>3. /\ m1 \in Mem /\ m1.pred = m.pred /\ m1.snap = m.snap /\ m1.next = m.next
        /\ m1.job = m.job /\ m1.late = m.late /\ m1.outcome = m.outcome
        /\ m1.started = t
    BY <2>1 DEF Mem
  <2> HIDE DEF m1
  <2>4. /\ m2 \in Mem /\ m2.pred = m1.pred /\ m2.snap = m1.snap /\ m2.next = m1.next
        /\ m2.job = m1.job /\ m2.late = m1.late /\ m2.outcome = m1.outcome
        /\ m2.started = m1.started /\ m2.state = s
    BY <2>1, <2>3 DEF Mem
  <2> HIDE DEF m2
  <2> QED
    BY <2>1, <2>2, <2>3, <2>4 DEF t, s
<1> QED
  BY <1>1, <1>2, <1>3

LEMMA TickPreserves ==
  ASSUME IInv, Tick
  PROVE  IInv'
<1>1. /\ state' = BackState(state)
      /\ mem' = [p \in Proc |-> BackMem(mem[p])]
      /\ UNCHANGED <<world, lock, archive, realized, evaluation, data, pc, attempts>>
  BY DEF Tick
<1>2. Typed'
  BY <1>1, BackTypes DEF IInv, Typed
<1>3. GlobalInv'
  BY <1>1, BackTypes DEF IInv, GlobalInv, GlobalType, ReceiptBacked, EvaluationBacked,
                         Backed, world, data
<1>4. ASSUME NEW q \in Proc
      PROVE  /\ LocalInv(q)' /\ pc'[q] = pc[q] /\ mem'[q].snap = mem[q].snap
  <2>1. /\ mem'[q].pred = mem[q].pred /\ mem'[q].snap = mem[q].snap
        /\ mem'[q].next = mem[q].next
        /\ mem'[q].state.status = mem[q].state.status
        /\ pc'[q] = pc[q]
    BY <1>1, BackTypes DEF IInv, Typed
  <2> QED
    BY <1>1, <2>1 DEF IInv, LocalInv, Backed, Evaluating, Finished, data
<1> QED
  BY <1>2, <1>3, <1>4 DEF IInv, Capturing

LEMMA OutsidePreserves ==
  ASSUME IInv, Outside
  PROVE  IInv'
<1>1. CASE Unlock \/ DeadlinePasses \/ OfficialChanges
  <2>1. /\ UNCHANGED <<state, archive, realized, evaluation, data, pc, mem,
                       faults, attempts>>
        /\ lock' \in {lock, None} /\ afterDeadline' \in {afterDeadline, TRUE}
        /\ official' \in Digest
    BY <1>1 DEF Unlock, DeadlinePasses, OfficialChanges, world, control,
                IInv, GlobalInv, GlobalType
  <2>2. Grows /\ UNCHANGED snapshots
    BY <2>1 DEF Grows, data
  <2>3. GlobalInv'
    BY <2>1 DEF IInv, GlobalInv, GlobalType, ReceiptBacked, EvaluationBacked, Backed, data
  <2> QED
    BY <2>1, <2>2, <2>3, NobodyMoves
<1>2. CASE Tick
  BY <1>2, TickPreserves
<1>3. CASE OwnerBeginsRefresh
  <2>1. /\ GlobalInv' /\ Grows
        /\ \A i \in DOMAIN snapshots : snapshots'[i] = snapshots[i]
    BY <1>3, Appended DEF OwnerBeginsRefresh, IInv, GlobalInv, GlobalType
  <2> QED
    BY <1>3, <2>1, NobodyMoves DEF OwnerBeginsRefresh, IInv, LocalInv
<1>4. ASSUME NEW i \in DOMAIN snapshots, OwnerFinishesRefresh(i)
      PROVE  IInv'
  <2>1. /\ GlobalInv' /\ Grows
        /\ \A j \in DOMAIN snapshots \ {i} : snapshots'[j] = snapshots[j]
    BY <1>4, Finishes DEF OwnerFinishesRefresh
  <2>2. \A q \in Proc : pc[q] = "capture" => mem[q].snap \in DOMAIN snapshots \ {i}
    BY <1>4 DEF OwnerFinishesRefresh, IInv, LocalInv
  <2> QED
    BY <1>4, <2>1, <2>2, NobodyMoves DEF OwnerFinishesRefresh
<1>5. ASSUME NEW i \in DOMAIN snapshots, Damage(i)
      PROVE  IInv'
  <2> DEFINE s == [snapshots[i] EXCEPT !.intact = FALSE]
  <2>1. snapshots[i] \in Snapshot /\ snapshots \in Seq(Snapshot)
    BY SnapshotTypes DEF IInv, GlobalInv, GlobalType
  <2>2. /\ s \in Snapshot /\ s.complete = snapshots[i].complete
        /\ s.final = snapshots[i].final
    BY <2>1 DEF Snapshot
  <2>3. snapshots' = [snapshots EXCEPT ![i] = s]
    BY <1>5 DEF Damage
  <2>4. snapshots[i].complete
    BY <1>5 DEF Damage, Valid
  <2> HIDE DEF s
  <2>5. /\ snapshots' \in Seq(Snapshot) /\ Len(snapshots') = Len(snapshots)
        /\ \A j \in 1..Len(snapshots) :
             snapshots'[j] = IF j = i THEN s ELSE snapshots[j]
    BY <2>1, <2>2, <2>3, ExceptSeq, SnapshotTypes
  <2>6. DOMAIN snapshots' = DOMAIN snapshots
    BY <2>5, LenProperties, SnapshotTypes
  <2>7. \A j \in DOMAIN snapshots :
          /\ snapshots'[j].complete = snapshots[j].complete
          /\ snapshots'[j].final = snapshots[j].final
          /\ j # i => snapshots'[j] = snapshots[j]
    BY <2>2, <2>5, SnapshotTypes
  <2>8. /\ faults' \in 0..MaxFaults
        /\ UNCHANGED <<official, afterDeadline, control, evaluations, pc, mem, attempts>>
    BY <1>5, BoundAssumption DEF Damage, IInv, GlobalInv, GlobalType
  <2>9. Grows
    BY <2>6, <2>7, <2>8 DEF Grows, control
  <2>10. GlobalInv'
    <3>1. GlobalType'
      BY <2>5, <2>8 DEF IInv, GlobalInv, GlobalType, control
    <3>2. ReceiptBacked' /\ EvaluationBacked' /\ Backed(state)'
      BY <2>6, <2>7, <2>8
         DEF IInv, GlobalInv, ReceiptBacked, EvaluationBacked, Backed, control
    <3> QED
      BY <3>1, <3>2 DEF GlobalInv
  <2>11. \A q \in Proc : pc[q] = "capture" =>
           mem[q].snap \in DOMAIN snapshots /\ mem[q].snap # i
    BY <2>4 DEF IInv, LocalInv
  <2> QED
    BY <2>7, <2>8, <2>9, <2>10, <2>11, NobodyMoves
<1> QED
  BY <1>1, <1>2, <1>3, <1>4, <1>5 DEF Outside

LEMMA InvariantStep == IInv /\ [Next]_vars => IInv'
<1> SUFFICES ASSUME IInv, [Next]_vars PROVE IInv'
  OBVIOUS
<1>1. ASSUME NEW p \in Proc, Step(p) PROVE IInv'
  BY <1>1, EndsPreserve, ReconcilePreserves, AdoptPreserves, ProbePreserves,
     WriteStatePreserves, RefreshPreserves, EvaluatePreserves, ResetPreserves
     DEF Step
<1>2. CASE UNCHANGED vars
  BY <1>2, Unchanged, NobodyMoves DEF vars, IInv, data
<1> QED
  BY <1>1, <1>2, StartPreserves, EndsPreserve, OutsidePreserves DEF Next

(* The invariant holds in every reachable state. *)
THEOREM Invariance == Spec => []IInv
  BY InvariantInit, InvariantStep, PTL DEF Spec

(* Every variable keeps its type: in particular an invocation that publishes a
   receipt or an evaluation always has a snapshot and a prediction to name. *)
THEOREM TypeCorrect == Spec => []TypeOK
  BY Invariance, TypeOfInvariant, PTL

(* Whoever deletes locks, and whatever is killed, the realized receipt names a
   snapshot that was complete and final (_find_realized_candidate and
   _validate_realized_candidate before _publish_realized_receipt). *)
THEOREM ReceiptsBacked == Spec => []ReceiptBacked
<1>1. IInv => ReceiptBacked
  BY DEF IInv, GlobalInv
<1> QED
  BY <1>1, Invariance, PTL

(* state.json never says COMPLETE or REALIZED_COMPLETE without the receipts
   that prove it, again without trusting the lock. *)
THEOREM StatusTruth == Spec => []StatusTruthful
<1>1. IInv => StatusTruthful
  BY DEF IInv, GlobalInv, Backed, StatusTruthful
<1> QED
  BY <1>1, Invariance, PTL

-----------------------------------------------------------------------------
(* Refinement: every step accepts at most one receipt, or none *)

FinishedSet == {i \in DOMAIN snapshots : snapshots[i].complete /\ snapshots[i].final}

LEMMA SilentSteps ==
  ASSUME NEW p \in Proc,
         \/ Start(p) \/ StartReset(p) \/ Kill(p) \/ AcquireLock(p) \/ Locked(p)
         \/ LoadState(p) \/ Reconcile(p) \/ Probe(p) \/ WriteState(p) \/ Reset(p)
         \/ Finish(p) \/ FindCandidate(p) \/ RefreshWasInterrupted(p)
         \/ NoCandidate(p) \/ RealizedExists(p) \/ RefreshFails(p)
         \/ ValidateRefreshed(p) \/ EvaluationAccepted(p) \/ FindEvaluation(p)
         \/ RunEvaluation(p) \/ EvaluationFails(p)
  PROVE  UNCHANGED <<snapshots, realized, evaluation>>
<1> USE DEF control, data
<1>1. CASE \/ Start(p) \/ StartReset(p) \/ Kill(p) \/ AcquireLock(p) \/ Locked(p)
           \/ LoadState(p) \/ WriteState(p) \/ Finish(p)
  BY <1>1 DEF Start, StartReset, Kill, AcquireLock, Locked, LoadState, WriteState, Finish
<1>2. CASE Reconcile(p)
  BY <1>2 DEF Reconcile, ReviewReceipts, StillInReview, AlreadyRealized,
              ResumeEvaluation, NothingAccepted
<1>3. CASE Probe(p)
  BY <1>3 DEF Probe, ProbeEvent, ProbeFixtures, ProbeUnavailable, ProbeMalformed
<1>4. CASE Reset(p)
  BY <1>4 DEF Reset, RefuseReset, ArchiveReview
<1>5. CASE \/ FindCandidate(p) \/ RefreshWasInterrupted(p) \/ NoCandidate(p)
           \/ RealizedExists(p) \/ RefreshFails(p) \/ ValidateRefreshed(p)
  BY <1>5 DEF FindCandidate, RefreshWasInterrupted, NoCandidate, RealizedExists,
              RefreshFails, ValidateRefreshed
<1>6. CASE \/ EvaluationAccepted(p) \/ FindEvaluation(p)
           \/ RunEvaluation(p) \/ EvaluationFails(p)
  BY <1>6 DEF EvaluationAccepted, FindEvaluation, RunEvaluation, EvaluationFails
<1> QED
  BY <1>1, <1>2, <1>3, <1>4, <1>5, <1>6

LEMMA SilentOutside ==
  ASSUME Unlock \/ Tick \/ DeadlinePasses \/ OfficialChanges
  PROVE  UNCHANGED <<snapshots, realized, evaluation>>
  BY DEF Unlock, Tick, DeadlinePasses, OfficialChanges, control, data

LEMMA FinishedGrows ==
  ASSUME IInv, NEW i \in DOMAIN snapshots, ~snapshots[i].complete,
         snapshots' = [snapshots EXCEPT ![i] = Downloaded(@)]
  PROVE  /\ i \in SnapId \ FinishedSet
         /\ FinishedSet' = FinishedSet \/ FinishedSet' = FinishedSet \cup {i}
<1>1. i \in SnapId \ FinishedSet
  BY SnapshotTypes DEF FinishedSet
<1>2. /\ DOMAIN snapshots' = DOMAIN snapshots
      /\ \A j \in DOMAIN snapshots \ {i} : snapshots'[j] = snapshots[j]
  OBVIOUS
<1>3. CASE i \in FinishedSet'
  BY <1>1, <1>2, <1>3 DEF FinishedSet
<1>4. CASE i \notin FinishedSet'
  BY <1>1, <1>2, <1>4 DEF FinishedSet
<1> QED
  BY <1>1, <1>3, <1>4

LEMMA NewIsUnfinished ==
  ASSUME IInv, snapshots' = Append(snapshots, NewSnapshot)
  PROVE  FinishedSet' = FinishedSet
<1>1. snapshots \in Seq(Snapshot) /\ NewSnapshot \in Snapshot
  BY SnapshotTypes DEF IInv, GlobalInv, GlobalType
<1>2. /\ snapshots' \in Seq(Snapshot) /\ Len(snapshots') = Len(snapshots) + 1
      /\ \A i \in 1..Len(snapshots) : snapshots'[i] = snapshots[i]
      /\ snapshots'[Len(snapshots) + 1] = NewSnapshot
  BY <1>1, AppendProperties
<1>3. DOMAIN snapshots' = DOMAIN snapshots \cup {Len(snapshots) + 1}
  BY <1>2, LenProperties, SnapshotTypes
<1>4. \A i \in DOMAIN snapshots : snapshots'[i] = snapshots[i]
  BY <1>2, SnapshotTypes
<1>5. ~NewSnapshot.complete
  BY DEF NewSnapshot
<1> QED
  BY <1>2, <1>3, <1>4, <1>5 DEF FinishedSet

LEMMA DamagedStaysFinished ==
  ASSUME IInv, NEW i \in DOMAIN snapshots, Damage(i)
  PROVE  FinishedSet' = FinishedSet
<1> DEFINE s == [snapshots[i] EXCEPT !.intact = FALSE]
<1>1. snapshots[i] \in Snapshot
  BY SnapshotTypes
<1>2. s.complete = snapshots[i].complete /\ s.final = snapshots[i].final
  BY <1>1 DEF Snapshot
<1>3. snapshots' = [snapshots EXCEPT ![i] = s]
  BY DEF Damage
<1> HIDE DEF s
<1>4. /\ DOMAIN snapshots' = DOMAIN snapshots
      /\ \A j \in DOMAIN snapshots :
           snapshots'[j] = IF j = i THEN s ELSE snapshots[j]
  BY <1>3
<1> QED
  BY <1>2, <1>4 DEF FinishedSet

LEMMA LedgerStep ==
  ASSUME IInv, [Next]_vars
  PROVE  [Ledger!LedgerNext]_(Ledger!ledgerVars)
<1> DEFINE stutter == UNCHANGED <<snapshots, realized, evaluation>>
<1>1. ASSUME stutter PROVE UNCHANGED Ledger!ledgerVars
  BY <1>1 DEF Ledger!ledgerVars
<1>2. ASSUME NEW i \in DOMAIN snapshots, ~snapshots[i].complete,
             snapshots' = [snapshots EXCEPT ![i] = Downloaded(@)],
             UNCHANGED <<realized, evaluation>>
      PROVE  (Ledger!Finalize(i) /\ i \in SnapId) \/ UNCHANGED Ledger!ledgerVars
  BY <1>2, FinishedGrows DEF FinishedSet, Ledger!Finalize, Ledger!ledgerVars
<1>3. ASSUME Len(snapshots) < MaxSnapshots, UNCHANGED <<realized, evaluation>>,
             snapshots' = Append(snapshots, NewSnapshot)
      PROVE  UNCHANGED Ledger!ledgerVars
  <2>1. FinishedSet' = FinishedSet
    BY <1>3, NewIsUnfinished
  <2> QED
    BY <1>3, <2>1 DEF FinishedSet, Ledger!ledgerVars
<1>4. ASSUME NEW p \in Proc, PublishRealized(p)
      PROVE  mem[p].snap \in SnapId /\ Ledger!AcceptRealized(mem[p].snap)
  <2>1. Finished(mem[p].snap) /\ mem[p].snap \in FinishedSet
    BY <1>4 DEF PublishRealized, IInv, LocalInv, Finished, FinishedSet
  <2>2. mem[p].snap \in SnapId
    BY <2>1, SnapshotTypes DEF Finished
  <2> QED
    BY <1>4, <2>1, <2>2 DEF PublishRealized, FinishedSet, data, Ledger!AcceptRealized
<1>5. ASSUME NEW p \in Proc, PublishEvaluation(p), evaluation = None
      PROVE  mem[p].pred \in Prediction /\ Ledger!AcceptEvaluation(mem[p].pred)
  <2>1. mem[p].pred \in Prediction /\ mem[p].snap = realized /\ realized # None
    BY <1>5 DEF PublishEvaluation, IInv, Typed, Mem, LocalInv, Evaluating
  <2> QED
    BY <1>5, <2>1 DEF PublishEvaluation, Requested, data, Ledger!AcceptEvaluation
<1>6. ASSUME NEW p \in Proc, PublishEvaluation(p), evaluation # None
      PROVE  stutter
  BY <1>6 DEF PublishEvaluation, data
<1>7. ASSUME NEW p \in Proc, BeginRefresh(p)
      PROVE  UNCHANGED Ledger!ledgerVars
  BY <1>3, <1>7 DEF BeginRefresh, control
<1>8. ASSUME NEW p \in Proc, FinishRefresh(p)
      PROVE  (\E i \in SnapId : Ledger!Finalize(i)) \/ UNCHANGED Ledger!ledgerVars
  BY <1>2, <1>8 DEF FinishRefresh, control, IInv, LocalInv
<1>9. ASSUME NEW i \in DOMAIN snapshots, OwnerFinishesRefresh(i)
      PROVE  (\E j \in SnapId : Ledger!Finalize(j)) \/ UNCHANGED Ledger!ledgerVars
  BY <1>2, <1>9 DEF OwnerFinishesRefresh, control
<1>10. ASSUME NEW i \in DOMAIN snapshots, Damage(i)
       PROVE  UNCHANGED Ledger!ledgerVars
  <2>1. FinishedSet' = FinishedSet
    BY <1>10, DamagedStaysFinished
  <2> QED
    BY <1>10, <2>1 DEF Damage, control, FinishedSet, Ledger!ledgerVars
<1>11. ASSUME OwnerBeginsRefresh
       PROVE  UNCHANGED Ledger!ledgerVars
  BY <1>3, <1>11 DEF OwnerBeginsRefresh, control
<1>12. ASSUME NEW p \in Proc, Start(p) \/ StartReset(p) \/ Step(p) \/ Kill(p)
       PROVE  [Ledger!LedgerNext]_(Ledger!ledgerVars)
  <2>1. CASE PublishRealized(p)
    BY <1>4, <2>1 DEF Ledger!LedgerNext
  <2>2. CASE PublishEvaluation(p)
    BY <1>1, <1>5, <1>6, <2>2 DEF Ledger!LedgerNext
  <2>3. CASE BeginRefresh(p) \/ FinishRefresh(p)
    BY <1>7, <1>8, <2>3 DEF Ledger!LedgerNext
  <2> HIDE DEF stutter
  <2> QED
    BY <1>1, <1>12, <2>1, <2>2, <2>3, SilentSteps
       DEF Step, Adopt, Refresh, Evaluate, stutter
<1>13. CASE Outside
  BY <1>1, <1>9, <1>10, <1>11, <1>13, SilentOutside DEF Outside, Ledger!LedgerNext
<1>14. CASE UNCHANGED vars
  BY <1>1, <1>14 DEF vars, control, data
<1> QED
  BY <1>12, <1>13, <1>14 DEF Next

LEMMA LedgerStart == Init => Ledger!LedgerInit
  BY EmptySeq DEF Init, Ledger!LedgerInit

(* The monitor implements the ledger of receipts: receipts are write-once, an
   evaluation is accepted only for the accepted snapshot, nothing is retracted. *)
THEOREM LedgerRefinement == Spec => LedgerRefined
<1>1. IInv /\ [Next]_vars => [Ledger!LedgerNext]_(Ledger!ledgerVars)
  BY LedgerStep
<1> QED
  BY <1>1, LedgerStart, Invariance, PTL DEF Spec, LedgerRefined, Ledger!LedgerSpec

-----------------------------------------------------------------------------
(* Mutual exclusion, for an operator who looks before deleting a lock.  It is
   inductive beside IInv: a lock is created only where there is none, and only
   the invocation that it names, or nobody, is past the lock when it goes. *)

(* Every step between taking the lock and giving it back. *)
LEMMA HeldSteps ==
  ASSUME NEW p \in Proc,
         \/ LoadState(p) \/ Reconcile(p) \/ Adopt(p) \/ Probe(p) \/ WriteState(p)
         \/ Refresh(p) \/ Evaluate(p) \/ Reset(p)
  PROVE  Holding(p) /\ lock' = lock /\ \E l : Goto(p, l)
<1> USE DEF Holding, control
<1>1. CASE LoadState(p) \/ WriteState(p)
  BY <1>1 DEF LoadState, WriteState
<1>2. CASE Reconcile(p)
  BY <1>2 DEF Reconcile, ReviewReceipts, StillInReview, AlreadyRealized, ResumeEvaluation,
              NothingAccepted, SetReview, Return, AfterRealized, Prepare
<1>3. CASE Adopt(p)
  BY <1>3 DEF Adopt, FindCandidate, RefreshWasInterrupted, NoCandidate, PublishRealized,
              RealizedExists, SetReview, AfterRealized, Prepare
<1>4. CASE Probe(p)
  <2>1. CASE ProbeFixtures(p)
    <3>1. \E st, n, o : Prepare(p, st, n, o)
      BY <2>1 DEF ProbeFixtures, Decide
    <3> QED
      BY <2>1, <3>1 DEF ProbeFixtures, Prepare
  <2>2. CASE ProbeEvent(p) \/ ProbeUnavailable(p) \/ ProbeMalformed(p)
    BY <2>2 DEF ProbeEvent, ProbeUnavailable, ProbeMalformed, Raise, SetReview, Prepare
  <2> QED
    BY <1>4, <2>1, <2>2 DEF Probe
<1>5. CASE Refresh(p)
  BY <1>5 DEF Refresh, BeginRefresh, FinishRefresh, RefreshFails, ValidateRefreshed,
              SetReview, Prepare
<1>6. CASE Evaluate(p)
  BY <1>6 DEF Evaluate, EvaluationAccepted, FindEvaluation, RunEvaluation,
              EvaluationFails, PublishEvaluation, Completed, SetReview, Prepare
<1>7. CASE Reset(p)
  BY <1>7 DEF Reset, RefuseReset, ArchiveReview, Raise, Prepare
<1> QED
  BY <1>1, <1>2, <1>3, <1>4, <1>5, <1>6, <1>7

LEMMA LockStep ==
  ASSUME CarefulOperator, IInv, LockExclusive, [Next]_vars
  PROVE  LockExclusive'
<1>1. pc \in [Proc -> Labels]
  BY DEF IInv, Typed
<1>2. ASSUME NEW p \in Proc,
             \/ LoadState(p) \/ Reconcile(p) \/ Adopt(p) \/ Probe(p) \/ WriteState(p)
             \/ Refresh(p) \/ Evaluate(p) \/ Reset(p)
      PROVE  LockExclusive'
  <2>1. PICK l : Goto(p, l)
    BY <1>2, HeldSteps
  <2>2. Holding(p) /\ lock' = lock
    BY <1>2, HeldSteps
  <2> QED
    BY <1>1, <2>1, <2>2 DEF LockExclusive, Holding, Goto
<1>3. ASSUME NEW p \in Proc, AcquireLock(p)
      PROVE  LockExclusive'
  <2>1. lock = None /\ lock' = p /\ Goto(p, "load")
    BY <1>3 DEF AcquireLock
  <2>2. \A q \in Proc : ~Holding(q)
    BY <2>1, NoneAssumption DEF LockExclusive
  <2> QED
    BY <1>1, <2>1, <2>2 DEF LockExclusive, Holding, Goto
<1>4. ASSUME NEW p \in Proc, Finish(p)
      PROVE  LockExclusive'
  <2>1. Holding(p) /\ Goto(p, "idle")
    BY <1>4 DEF Finish, Holding
  <2>2. \A q \in Proc : Holding(q) => q = p
    BY <2>1 DEF LockExclusive
  <2> QED
    BY <1>1, <2>1, <2>2 DEF LockExclusive, Holding, Goto
<1>5. ASSUME NEW p \in Proc, Locked(p) \/ Start(p) \/ StartReset(p) \/ Kill(p)
      PROVE  LockExclusive'
  <2>1. lock' = lock /\ (Goto(p, "idle") \/ Goto(p, "lock"))
    BY <1>5 DEF Locked, Start, StartReset, Kill, control
  <2> QED
    BY <1>1, <2>1 DEF LockExclusive, Holding, Goto
<1>6. CASE Unlock
  BY <1>6 DEF Unlock, LockExclusive, Holding
<1>7. CASE Outside /\ ~Unlock
  <2>1. UNCHANGED <<lock, pc>>
    BY <1>7 DEF Outside, Tick, DeadlinePasses, OfficialChanges, OwnerBeginsRefresh,
                OwnerFinishesRefresh, Damage, control
  <2> QED
    BY <2>1 DEF LockExclusive, Holding
<1>8. CASE UNCHANGED vars
  BY <1>8 DEF vars, control, LockExclusive, Holding
<1> QED
  BY <1>2, <1>3, <1>4, <1>5, <1>6, <1>7, <1>8 DEF Next, Step

(* At most one invocation is ever past _acquire_lock, and the lock file names
   it, provided unlock-completion-monitor is used only when nothing runs. *)
THEOREM LockExclusion ==
  ASSUME CarefulOperator
  PROVE  Spec => []LockExclusive
<1>1. Init => LockExclusive
  BY DEF Init, LockExclusive, Holding
<1>2. IInv /\ LockExclusive /\ [Next]_vars => LockExclusive'
  BY LockStep
<1> QED
  BY <1>1, <1>2, Invariance, PTL DEF Spec
=============================================================================
