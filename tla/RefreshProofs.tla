--------------------------- MODULE RefreshProofs ---------------------------
(***************************************************************************)
(* What holds of Refresh for any number of processes, players and faults:  *)
(* the lock excludes, a complete manifest stands for a coherent snapshot   *)
(* that nobody changes once the refresh has returned, no download is lost  *)
(* or repeated, and what no resume repairs stays so.                       *)
(***************************************************************************)
EXTENDS Refresh, TLAPS

Collection == [status : {None, "complete"} \cup Running, responses : SUBSET Player]

(* Past MakeHistory or ResumeHistory there is a collection. *)
Collecting == {"historymanifest", "recover", "fetch", "record", "savehistory", "transform"}

(* A process that may write to the snapshot. *)
Writing(p) ==
  pc[p] \notin {"idle", "bootstrap", "newlock", "resumelock", "load", "unlock"}

(* The response file of x is there, or was taken away by damage. *)
Stored(x) == files[x] # "absent" \/ x \in damaged

(* Control: only the lock's owner may mark the manifest, the creator of the
   snapshot is alone until it has the lock, and the only writer on a completed
   snapshot is the process that has not yet returned from completing it. *)
ControlInv ==
  /\ LockExclusive
  /\ \A p \in Proc : mutable[p] => Holding(p) /\ pc[p] # "load"
  /\ \A p \in Proc : pc[p] \in {"bootstrap", "newlock"} =>
       manifest = None /\ \A q \in Proc \ {p} : pc[q] = "idle"
  /\ \A p \in Proc : pc[p] \notin {"idle", "bootstrap"} => bootstrap
  /\ ~bootstrap => manifest = None
  /\ \A p \in Proc : Writing(p) /\ manifest = "complete" => pc[p] \in {"return", "fail"}
  /\ \A p \in Proc : pc[p] \in Collecting => history \in Collection

(* Downloads: whatever a manifest or a process counts as done is stored. *)
StoredInv ==
  /\ RecordedIsStored
  /\ FetchedOnce
  /\ \A p \in Proc : \A x \in done[p] : Stored(x)
  /\ \A x \in Player : files[x] = "bad" => x \in damaged
  /\ \A x \in Player : fetched[x] # 0 => Stored(x)

IInv == TypeOK /\ ControlInv /\ StoredInv /\ CompleteIsCoherent

-----------------------------------------------------------------------------
(* The initial state *)

LEMMA Start == Init => IInv
<1> SUFFICES ASSUME Init PROVE IInv
  OBVIOUS
<1>1. TypeOK
  <2>1. /\ lock \in Proc \cup {None} /\ bootstrap \in BOOLEAN
        /\ manifest \in {None, "in_progress", "incomplete", "complete"}
        /\ fixtures \in {"absent", "response", "complete"}
        /\ history \in {None} \cup Collection
        /\ clean \subseteq Outputs /\ damaged \subseteq Player
    BY DEF Init
  <2>2. pc \in [Proc -> Labels] /\ files \in [Player -> FileState]
    BY DEF Init, Labels, FileState
  <2>3. /\ todo \in [Proc -> SUBSET Player] /\ done \in [Proc -> SUBSET Player]
        /\ mutable \in [Proc -> BOOLEAN]
    BY DEF Init
  <2>4. faults \in 0..MaxFaults /\ fetched \in [Player -> 0..2]
    BY RefreshAssumption DEF Init
  <2> QED
    BY <2>1, <2>2, <2>3, <2>4 DEF TypeOK, Collection
<1>2. ControlInv
  BY DEF Init, ControlInv, LockExclusive, Holding, Writing, Collecting
<1>3. StoredInv
  BY DEF Init, StoredInv, RecordedIsStored, FetchedOnce, Stored
<1>4. CompleteIsCoherent
  BY RefreshAssumption DEF Init, CompleteIsCoherent
<1> QED
  BY <1>1, <1>2, <1>3, <1>4 DEF IInv

-----------------------------------------------------------------------------
(* Types *)

LEMMA TypeStep ==
  ASSUME TypeOK, ControlInv, Next
  PROVE  TypeOK'
<1> USE DEF TypeOK, Labels, disk, local, ghosts
<1>1. ASSUME NEW p \in Proc, StartNew(p) PROVE TypeOK'
  BY <1>1 DEF StartNew, At, Goto
<1>2. ASSUME NEW p \in Proc, FetchBootstrap(p) PROVE TypeOK'
  BY <1>2 DEF FetchBootstrap, At, Goto
<1>3. ASSUME NEW p \in Proc, BootstrapFails(p) PROVE TypeOK'
  BY <1>3 DEF BootstrapFails, At, Goto
<1>4. ASSUME NEW p \in Proc, StartResume(p) PROVE TypeOK'
  BY <1>4 DEF StartResume, At, Goto
<1>5. ASSUME NEW p \in Proc, RejectBootstrap(p) PROVE TypeOK'
  BY <1>5 DEF RejectBootstrap, At, Goto
<1>6. ASSUME NEW p \in Proc, AcquireLock(p) PROVE TypeOK'
  BY <1>6 DEF AcquireLock, At, Goto
<1>7. ASSUME NEW p \in Proc, Locked(p) PROVE TypeOK'
  BY <1>7 DEF Locked, At, Goto
<1>8. ASSUME NEW p \in Proc, LoadForResume(p) PROVE TypeOK'
  BY <1>8 DEF LoadForResume, At, Goto
<1>9. ASSUME NEW p \in Proc, SaveStart(p) PROVE TypeOK'
  BY <1>9 DEF SaveStart, At, Goto
<1>10. ASSUME NEW p \in Proc, FetchFixtures(p) PROVE TypeOK'
  BY <1>10 DEF FetchFixtures, At, Goto
<1>11. ASSUME NEW p \in Proc, WriteFixturesManifest(p) PROVE TypeOK'
  BY <1>11 DEF WriteFixturesManifest, At, Goto
<1>12. ASSUME NEW p \in Proc, ReuseFixtures(p) PROVE TypeOK'
  BY <1>12 DEF ReuseFixtures, At, Goto
<1>13. ASSUME NEW p \in Proc, FixturesFail(p) PROVE TypeOK'
  BY <1>13 DEF FixturesFail, At, Goto
<1>14. ASSUME NEW p \in Proc, MakeHistory(p) PROVE TypeOK'
  BY <1>14 DEF MakeHistory, At, Goto
<1>15. ASSUME NEW p \in Proc, WriteHistoryManifest(p) PROVE TypeOK'
  <2>1. history \in Collection
    BY <1>15 DEF WriteHistoryManifest, At, ControlInv, Collecting
  <2>2. history' \in Collection
    BY <1>15, <2>1 DEF WriteHistoryManifest, Collection, Running
  <2>3. pc' \in [Proc -> Labels] /\ todo' \in [Proc -> SUBSET Player]
    BY <1>15 DEF WriteHistoryManifest, Goto
  <2> QED
    BY <1>15, <2>2, <2>3 DEF WriteHistoryManifest, Collection
<1>16. ASSUME NEW p \in Proc, ResumeHistory(p) PROVE TypeOK'
  BY <1>16 DEF ResumeHistory, At, Goto
<1>17. ASSUME NEW p \in Proc, RecoverResponses(p) PROVE TypeOK'
  <2> DEFINE good == {x \in Player : files[x] = "good"}
  <2>1. good \subseteq Player
    OBVIOUS
  <2>2. /\ history' = [status |-> "in_progress", responses |-> good]
        /\ done' = [done EXCEPT ![p] = good]
        /\ todo' = [todo EXCEPT ![p] = Player \ good]
        /\ Goto(p, "fetch")
        /\ UNCHANGED <<lock, bootstrap, manifest, fixtures, files, clean, mutable,
                       faults, ghosts>>
    BY <1>17 DEF RecoverResponses
  <2> HIDE DEF good
  <2>3. history' \in Collection
    BY <2>1, <2>2 DEF Collection, Running
  <2>4. /\ done' \in [Proc -> SUBSET Player] /\ todo' \in [Proc -> SUBSET Player]
        /\ pc' \in [Proc -> Labels]
    BY <2>1, <2>2 DEF Goto
  <2> QED
    BY <2>2, <2>3, <2>4 DEF Collection
<1>18. ASSUME NEW p \in Proc, RecordResponses(p) PROVE TypeOK'
  <2>1. history \in Collection
    BY <1>18 DEF RecordResponses, At, ControlInv, Collecting
  <2>2. history' \in Collection
    BY <1>18, <2>1 DEF RecordResponses, Collection
  <2>3. pc' \in [Proc -> Labels]
    BY <1>18 DEF RecordResponses, Goto
  <2> QED
    BY <1>18, <2>2, <2>3 DEF RecordResponses, Collection
<1>19. ASSUME NEW p \in Proc, FinishHistory(p) PROVE TypeOK'
  <2>1. history' \in Collection
    BY <1>19 DEF FinishHistory, Collection, Running
  <2>2. pc' \in [Proc -> Labels]
    BY <1>19 DEF FinishHistory, Goto
  <2> QED
    BY <1>19, <2>1, <2>2 DEF FinishHistory, Collection
<1>20. ASSUME NEW p \in Proc, SaveHistory(p) PROVE TypeOK'
  BY <1>20 DEF SaveHistory, At, Goto
<1>21. ASSUME NEW p \in Proc, NEW x \in Player, Quarantine(p, x) PROVE TypeOK'
  BY <1>21 DEF Quarantine, At, Goto, FileState
<1>22. ASSUME NEW p \in Proc, NEW x \in Player, FetchResponse(p, x) PROVE TypeOK'
  BY <1>22 DEF FetchResponse, At, Goto, FileState
<1>23. ASSUME NEW p \in Proc, NEW x \in Player, FetchFails(p, x) PROVE TypeOK'
  BY <1>23 DEF FetchFails, At, Goto
<1>24. ASSUME NEW p \in Proc, Transform(p) PROVE TypeOK'
  BY <1>24 DEF Transform, At, Goto
<1>25. ASSUME NEW p \in Proc, LateFailure(p) PROVE TypeOK'
  BY <1>25 DEF LateFailure, At, Goto
<1>26. ASSUME NEW p \in Proc, Complete(p) PROVE TypeOK'
  BY <1>26 DEF Complete, At, Goto
<1>27. ASSUME NEW p \in Proc, ReturnResult(p) PROVE TypeOK'
  BY <1>27 DEF ReturnResult, At, Goto
<1>28. ASSUME NEW p \in Proc, MarkIncomplete(p) PROVE TypeOK'
  BY <1>28 DEF MarkIncomplete, At, Goto
<1>29. ASSUME NEW p \in Proc, Finish(p) PROVE TypeOK'
  BY <1>29 DEF Finish, At, Goto, Forget
<1>30. ASSUME NEW p \in Proc, Interrupt(p) PROVE TypeOK'
  <2>1. faults' \in 0..MaxFaults
    BY <1>30, RefreshAssumption DEF Interrupt
  <2>2. pc' \in [Proc -> Labels]
    BY <1>30 DEF Interrupt, Goto
  <2>3. [status |-> "incomplete", responses |-> done[p]] \in Collection
    BY DEF Collection, Running
  <2>4. history' = history \/ history' \in Collection
    BY <1>30, <2>3 DEF Interrupt
  <2> QED
    BY <1>30, <2>1, <2>2, <2>4 DEF Interrupt, Collection
<1>31. ASSUME NEW p \in Proc, Kill(p) PROVE TypeOK'
  <2>1. faults' \in 0..MaxFaults
    BY <1>31, RefreshAssumption DEF Kill
  <2> QED
    BY <1>31, <2>1 DEF Kill, At, Goto, Forget
<1>32. CASE Unlock
  BY <1>32 DEF Unlock
<1>33. ASSUME NEW x \in Player, Damage(x) PROVE TypeOK'
  <2>1. faults' \in 0..MaxFaults
    BY <1>33, RefreshAssumption DEF Damage
  <2> QED
    BY <1>33, <2>1 DEF Damage, FileState
<1> QED
  BY <1>1, <1>2, <1>3, <1>4, <1>5, <1>6, <1>7, <1>8, <1>9, <1>10, <1>11, <1>12,
     <1>13, <1>14, <1>15, <1>16, <1>17, <1>18, <1>19, <1>20, <1>21, <1>22, <1>23,
     <1>24, <1>25, <1>26, <1>27, <1>28, <1>29, <1>30, <1>31, <1>32, <1>33
     DEF Next, Step, Begin, Fixtures, History, Clean, End

-----------------------------------------------------------------------------
(* Control *)

Writes(p) ==
  \/ SaveStart(p) \/ Fixtures(p) \/ History(p) \/ Clean(p) \/ MarkIncomplete(p)

(* What every step of a writer does, and what it leaves alone. *)
LEMMA WritingStep ==
  ASSUME TypeOK, ControlInv, NEW p \in Proc, Writes(p)
  PROVE  /\ Writing(p) /\ lock' = lock /\ bootstrap' = bootstrap
         /\ \A q \in Proc \ {p} : pc'[q] = pc[q] /\ mutable'[q] = mutable[q]
         /\ Holding(p)' /\ pc'[p] # "load"
         /\ manifest' = "complete" => pc'[p] \in {"return", "unlock"}
         /\ pc'[p] \in Collecting => history' \in Collection
<1> USE DEF Writing, Holding, Collecting, At, Goto, TypeOK, disk, local
<1>1. CASE SaveStart(p) \/ MarkIncomplete(p)
  BY <1>1, RefreshAssumption DEF SaveStart, MarkIncomplete
<1>2. CASE Fixtures(p)
  BY <1>2 DEF Fixtures, FetchFixtures, WriteFixturesManifest, ReuseFixtures, FixturesFail,
              ControlInv
<1>3. CASE History(p)
  <2>1. CASE MakeHistory(p)
    BY <2>1, RefreshAssumption DEF MakeHistory, Collection
  <2>2. CASE ResumeHistory(p)
    BY <2>2, RefreshAssumption DEF ResumeHistory, Collection
  <2>3. CASE WriteHistoryManifest(p) \/ RecordResponses(p)
    <3>1. history \in Collection
      BY <2>3 DEF WriteHistoryManifest, RecordResponses, ControlInv
    <3>2. history' \in Collection
      BY <2>3, <3>1 DEF WriteHistoryManifest, RecordResponses, Collection, Running
    <3> QED
      BY <2>3, <3>2 DEF WriteHistoryManifest, RecordResponses, ControlInv
  <2>4. CASE RecoverResponses(p)
    <3> DEFINE good == {x \in Player : files[x] = "good"}
    <3>1. history' = [status |-> "in_progress", responses |-> good]
      BY <2>4 DEF RecoverResponses
    <3>2. good \in SUBSET Player
      OBVIOUS
    <3> HIDE DEF good
    <3>3. history' \in Collection
      BY <3>1, <3>2 DEF Collection, Running
    <3> QED
      BY <2>4, <3>3 DEF RecoverResponses, ControlInv
  <2>5. CASE FinishHistory(p)
    <3>1. history' \in Collection
      BY <2>5 DEF FinishHistory, Collection, Running
    <3> QED
      BY <2>5, <3>1 DEF FinishHistory, ControlInv
  <2>6. CASE SaveHistory(p)
    BY <2>6, RefreshAssumption DEF SaveHistory, ControlInv
  <2>7. CASE \E x \in Player : Quarantine(p, x) \/ FetchResponse(p, x) \/ FetchFails(p, x)
    <3>1. PICK x \in Player : Quarantine(p, x) \/ FetchResponse(p, x) \/ FetchFails(p, x)
      BY <2>7
    <3>2. pc[p] \in Collecting /\ UNCHANGED <<lock, bootstrap, manifest, history, mutable>>
      BY <3>1 DEF Quarantine, FetchResponse, FetchFails
    <3>3. \/ pc' = pc
          \/ pc' = [pc EXCEPT ![p] = "record"]
      BY <3>1 DEF Quarantine, FetchResponse, FetchFails
    <3> QED
      BY <3>2, <3>3 DEF ControlInv
  <2> QED
    BY <1>3, <2>1, <2>2, <2>3, <2>4, <2>5, <2>6, <2>7 DEF History
<1>4. CASE Clean(p)
  BY <1>4 DEF Clean, Transform, LateFailure, Complete, ReturnResult, ControlInv
<1> QED
  BY <1>1, <1>2, <1>3, <1>4 DEF Writes

(* A writer is alone: nobody else is past the lock or creates the snapshot. *)
LEMMA WriterIsAlone ==
  ASSUME TypeOK, ControlInv, NEW p \in Proc, Writing(p), NEW q \in Proc \ {p}
  PROVE  pc[q] \in {"idle", "resumelock"}
  BY DEF ControlInv, LockExclusive, Holding, Writing, TypeOK, Labels

LEMMA ControlStep ==
  ASSUME TypeOK, ControlInv, Next, TypeOK'
  PROVE  ControlInv'
<1> USE DEF At, Goto, disk, local, ghosts
<1>0. /\ pc \in [Proc -> Labels] /\ mutable \in [Proc -> BOOLEAN]
      /\ pc' \in [Proc -> Labels] /\ mutable' \in [Proc -> BOOLEAN]
  BY DEF TypeOK
<1>1. ASSUME NEW p \in Proc, Writes(p)
      PROVE  ControlInv'
  <2>1. /\ Writing(p) /\ lock' = lock /\ bootstrap' = bootstrap
        /\ \A q \in Proc \ {p} : pc'[q] = pc[q] /\ mutable'[q] = mutable[q]
        /\ Holding(p)' /\ pc'[p] # "load"
        /\ manifest' = "complete" => pc'[p] \in {"return", "unlock"}
        /\ pc'[p] \in Collecting => history' \in Collection
    BY <1>1, WritingStep
  <2>2. \A q \in Proc \ {p} : pc'[q] \in {"idle", "resumelock"}
    BY <2>1, WriterIsAlone
  <2> QED
    BY <1>0, <2>1, <2>2 DEF ControlInv, LockExclusive, Holding, Writing, Collecting
<1>2. ASSUME NEW p \in Proc, StartNew(p) \/ StartResume(p) \/ FetchBootstrap(p)
      PROVE  ControlInv'
  BY <1>0, <1>2 DEF StartNew, StartResume, FetchBootstrap, ControlInv, LockExclusive,
                    Holding, Writing, Collecting
<1>3. ASSUME NEW p \in Proc, BootstrapFails(p) \/ RejectBootstrap(p) \/ Locked(p)
      PROVE  ControlInv'
  BY <1>0, <1>3 DEF BootstrapFails, RejectBootstrap, Locked, ControlInv, LockExclusive,
                    Holding, Writing, Collecting
<1>4. ASSUME NEW p \in Proc, AcquireLock(p)
      PROVE  ControlInv'
  <2>1. \A q \in Proc : ~Holding(q)
    BY <1>4, RefreshAssumption DEF AcquireLock, ControlInv, LockExclusive
  <2> QED
    BY <1>0, <1>4, <2>1, RefreshAssumption
    DEF AcquireLock, ControlInv, LockExclusive, Holding, Writing, Collecting
<1>5. ASSUME NEW p \in Proc, LoadForResume(p)
      PROVE  ControlInv'
  BY <1>0, <1>5 DEF LoadForResume, ControlInv, LockExclusive, Holding, Writing, Collecting
<1>6. ASSUME NEW p \in Proc, Finish(p)
      PROVE  ControlInv'
  <2>1. \A q \in Proc \ {p} : ~Holding(q)
    BY <1>6 DEF Finish, ControlInv, LockExclusive, Holding
  <2> QED
    BY <1>0, <1>6, <2>1 DEF Finish, Forget, TypeOK, ControlInv, LockExclusive, Holding,
                            Writing, Collecting
<1>7. ASSUME NEW p \in Proc, Kill(p)
      PROVE  ControlInv'
  BY <1>0, <1>7 DEF Kill, Forget, TypeOK, ControlInv, LockExclusive, Holding,
                    Writing, Collecting
<1>8. ASSUME NEW p \in Proc, Interrupt(p)
      PROVE  ControlInv'
  <2>1. ~mutable'[p] \/ Holding(p)'
    BY <1>0, <1>8 DEF Interrupt, ControlInv, Holding
  <2> QED
    BY <1>0, <1>8, <2>1 DEF Interrupt, ControlInv, LockExclusive, Holding,
                            Writing, Collecting
<1>9. CASE Unlock
  BY <1>9 DEF Unlock, ControlInv, LockExclusive, Holding, Writing, Collecting
<1>10. ASSUME NEW x \in Player, Damage(x)
       PROVE  ControlInv'
  BY <1>10 DEF Damage, ControlInv, LockExclusive, Holding, Writing, Collecting
<1> QED
  BY <1>1, <1>2, <1>3, <1>4, <1>5, <1>6, <1>7, <1>8, <1>9, <1>10
     DEF Next, Step, Begin, End, Writes

-----------------------------------------------------------------------------
(* Downloads.  "Stored" is stable: a file goes only if it was damaged. *)

LEMMA StoredStays ==
  ASSUME TypeOK, StoredInv, Next, NEW x \in Player, Stored(x)
  PROVE  Stored(x)'
<1> USE DEF Stored, disk, local, ghosts
<1>1. CASE files' = files /\ damaged' = damaged
  BY <1>1
<1>2. ASSUME NEW p \in Proc, NEW y \in Player, Quarantine(p, y)
      PROVE  Stored(x)'
  BY <1>2 DEF Quarantine, StoredInv, TypeOK
<1>3. ASSUME NEW p \in Proc, NEW y \in Player, FetchResponse(p, y)
      PROVE  Stored(x)'
  BY <1>3 DEF FetchResponse, TypeOK
<1>4. ASSUME NEW y \in Player, Damage(y)
      PROVE  Stored(x)'
  BY <1>4 DEF Damage, TypeOK
<1>5. ASSUME NEW p \in Proc, Step(p), files' # files \/ damaged' # damaged
      PROVE  \E y \in Player : Quarantine(p, y) \/ FetchResponse(p, y)
  <2>1. ~Begin(p)
    BY <1>5 DEF Begin, FetchBootstrap, BootstrapFails, RejectBootstrap, AcquireLock, Locked,
                LoadForResume, SaveStart
  <2>2. ~Fixtures(p)
    BY <1>5 DEF Fixtures, FetchFixtures, WriteFixturesManifest, ReuseFixtures, FixturesFail
  <2>3. ~Clean(p) /\ ~End(p)
    BY <1>5 DEF Clean, Transform, LateFailure, Complete, ReturnResult, End,
                MarkIncomplete, Finish
  <2>4. History(p) => \E y \in Player : Quarantine(p, y) \/ FetchResponse(p, y)
    BY <1>5 DEF History, MakeHistory, WriteHistoryManifest, ResumeHistory, RecoverResponses,
                RecordResponses, FinishHistory, SaveHistory, FetchFails
  <2> QED
    BY <1>5, <2>1, <2>2, <2>3, <2>4 DEF Step
<1>6. CASE Unlock
  BY <1>6 DEF Unlock
<1>7. ASSUME NEW p \in Proc, StartNew(p) \/ StartResume(p) \/ Interrupt(p) \/ Kill(p)
      PROVE  Stored(x)'
  BY <1>7 DEF StartNew, StartResume, Interrupt, Kill
<1> QED
  BY <1>1, <1>2, <1>3, <1>4, <1>5, <1>6, <1>7 DEF Next

(* What is newly recorded, counted as done or called bad by a step. *)
Explained ==
  /\ \A p \in Proc : done'[p] \subseteq done[p] \cup {x \in Player : Stored(x)'}
  /\ history' # None => \/ history' = history
                        \/ \E p \in Proc : history'.responses \subseteq done'[p]
                        \/ history'.responses = {}
                        \/ history # None /\ history'.responses = history.responses
  /\ \A x \in Player : files'[x] = "bad" => files[x] = "bad" \/ x \in damaged'
  /\ \A x \in Player : fetched'[x] # fetched[x] => files[x] = "absent" /\ Stored(x)'
  /\ \A x \in Player : fetched[x] = 0 => fetched'[x] # 2
  /\ damaged \subseteq damaged'

LEMMA StepExplained ==
  ASSUME TypeOK, ControlInv, Next
  PROVE  Explained
<1> USE DEF Explained, Stored, disk, local, ghosts
<1>1. CASE UNCHANGED <<history, files, done, fetched, damaged>>
  BY <1>1 DEF TypeOK
<1>2. ASSUME NEW p \in Proc, MakeHistory(p) \/ WriteHistoryManifest(p)
      PROVE  Explained
  <2>1. UNCHANGED <<files, done, fetched, damaged>>
    BY <1>2 DEF MakeHistory, WriteHistoryManifest
  <2>2. CASE MakeHistory(p)
    <3>1. history'.responses = {}
      BY <2>2 DEF MakeHistory
    <3> QED
      BY <2>1, <3>1 DEF TypeOK
  <2>3. CASE WriteHistoryManifest(p)
    <3>1. history \in Collection /\ history' = [history EXCEPT !.status = "in_progress"]
      BY <2>3 DEF WriteHistoryManifest, ControlInv, Collecting, At
    <3>2. history # None /\ history'.responses = history.responses
      BY <3>1, RefreshAssumption DEF Collection, Running
    <3> QED
      BY <2>1, <3>2 DEF TypeOK
  <2> QED
    BY <1>2, <2>2, <2>3
<1>3. ASSUME NEW p \in Proc, RecoverResponses(p)
      PROVE  Explained
  <2> DEFINE good == {x \in Player : files[x] = "good"}
  <2>1. /\ history' = [status |-> "in_progress", responses |-> good]
        /\ done' = [done EXCEPT ![p] = good]
        /\ UNCHANGED <<files, fetched, damaged>>
    BY <1>3 DEF RecoverResponses
  <2>2. \A x \in good : x \in Player /\ files[x] # "absent"
    OBVIOUS
  <2> HIDE DEF good
  <2>3. history'.responses = good /\ done'[p] = good
    BY <2>1 DEF TypeOK
  <2> QED
    BY <2>1, <2>2, <2>3 DEF TypeOK
<1>4. ASSUME NEW p \in Proc, RecordResponses(p) \/ FinishHistory(p)
      PROVE  Explained
  BY <1>4 DEF RecordResponses, FinishHistory, TypeOK, ControlInv, Collecting, Collection, At
<1>5. ASSUME NEW p \in Proc, NEW y \in Player, Quarantine(p, y)
      PROVE  Explained
  BY <1>5 DEF Quarantine, TypeOK
<1>6. ASSUME NEW p \in Proc, NEW y \in Player, FetchResponse(p, y)
      PROVE  Explained
  BY <1>6 DEF FetchResponse, TypeOK
<1>7. ASSUME NEW p \in Proc, Finish(p) \/ Kill(p)
      PROVE  Explained
  BY <1>7 DEF Finish, Kill, Forget, TypeOK
<1>8. ASSUME NEW p \in Proc, Interrupt(p)
      PROVE  Explained
  BY <1>8 DEF Interrupt, TypeOK
<1>9. ASSUME NEW y \in Player, Damage(y)
      PROVE  Explained
  BY <1>9 DEF Damage, TypeOK
<1>10. ASSUME NEW p \in Proc, Begin(p) \/ Fixtures(p) \/ Clean(p) \/ MarkIncomplete(p)
       PROVE  UNCHANGED <<history, files, done, fetched, damaged>>
  BY <1>10 DEF Begin, FetchBootstrap, BootstrapFails, RejectBootstrap, AcquireLock, Locked,
               LoadForResume, SaveStart, Fixtures, FetchFixtures, WriteFixturesManifest,
               ReuseFixtures, FixturesFail, Clean, Transform, LateFailure, Complete,
               ReturnResult,
               MarkIncomplete
<1>11. ASSUME NEW p \in Proc, ResumeHistory(p) \/ SaveHistory(p)
       PROVE  UNCHANGED <<history, files, done, fetched, damaged>>
  BY <1>11 DEF ResumeHistory, SaveHistory
<1>12. ASSUME NEW p \in Proc, NEW y \in Player, FetchFails(p, y)
       PROVE  UNCHANGED <<history, files, done, fetched, damaged>>
  BY <1>12 DEF FetchFails
<1>13. ASSUME Unlock \/ \E p \in Proc : StartNew(p) \/ StartResume(p)
       PROVE  UNCHANGED <<history, files, done, fetched, damaged>>
  BY <1>13 DEF Unlock, StartNew, StartResume
<1> QED
  BY <1>1, <1>2, <1>3, <1>4, <1>5, <1>6, <1>7, <1>8, <1>9, <1>10, <1>11, <1>12, <1>13
     DEF Next, Step, History, End

LEMMA StoredStep ==
  ASSUME TypeOK, ControlInv, StoredInv, Next, TypeOK'
  PROVE  StoredInv'
<1>1. \A x \in Player : Stored(x) => Stored(x)'
  BY StoredStays
<1>2. Explained
  BY StepExplained
<1>3. \A p \in Proc : \A x \in done'[p] : x \in Player /\ Stored(x)'
  BY <1>1, <1>2 DEF Explained, StoredInv, TypeOK
<1>4. RecordedIsStored'
  <2>1. SUFFICES ASSUME history' # None, NEW x \in history'.responses
                 PROVE  Stored(x)'
    BY DEF RecordedIsStored, Stored
  <2>2. CASE history # None /\ history'.responses = history.responses
    <3>1. x \in Player /\ Stored(x)
      BY <2>1, <2>2 DEF StoredInv, RecordedIsStored, Stored, TypeOK
    <3> QED
      BY <1>1, <3>1
  <2>3. CASE \E p \in Proc : history'.responses \subseteq done'[p]
    BY <1>3, <2>1, <2>3
  <2> QED
    BY <1>2, <2>1, <2>2, <2>3 DEF Explained
<1>5. \A x \in Player : files'[x] = "bad" => x \in damaged'
  BY <1>2 DEF Explained, StoredInv
<1>6. \A x \in Player : fetched'[x] # 0 => Stored(x)'
  BY <1>1, <1>2 DEF Explained, StoredInv
<1>7. FetchedOnce'
  BY <1>2 DEF Explained, StoredInv, FetchedOnce, Stored, TypeOK
<1> QED
  BY <1>3, <1>4, <1>5, <1>6, <1>7 DEF StoredInv, Stored

-----------------------------------------------------------------------------
(* Completion *)

(* What a completed snapshot keeps. *)
Kept == <<bootstrap, fixtures, history, files, clean>>

(* On a completed snapshot only the handler of its own completion writes, and
   only the status of the manifest. *)
LEMMA CompletedStep ==
  ASSUME TypeOK, ControlInv, [Next]_vars, manifest = "complete"
  PROVE  /\ UNCHANGED Kept
         /\ manifest' \in {"complete", "incomplete"}
         /\ Returned => manifest' = "complete" /\ Returned'
<1> USE DEF disk, local, ghosts, Kept
<1>0. /\ pc \in [Proc -> Labels]
      /\ \A p \in Proc : Writing(p) => pc[p] \in {"return", "fail"}
      /\ \A p \in Proc : pc[p] \notin {"bootstrap", "newlock"}
      /\ \A p \in Proc : mutable[p] => Holding(p) /\ pc[p] # "load"
  BY RefreshAssumption DEF ControlInv, TypeOK
<1> DEFINE Same    == UNCHANGED Kept /\ manifest' = "complete"
           Calm(p) == \E l \in Labels \ {"return", "fail"} : Goto(p, l)
<1>1. ASSUME Same, \/ \E p \in Proc : Calm(p)
                   \/ pc' = pc
      PROVE  Returned => Returned'
  BY <1>0, <1>1 DEF Returned, Goto
<1>2. ASSUME NEW p \in Proc, ~Writing(p), Step(p) \/ StartNew(p) \/ StartResume(p)
      PROVE  Same /\ Calm(p)
  <2>1. ~Writes(p)
    BY <1>2, WritingStep
  <2>2. \/ LoadForResume(p) \/ AcquireLock(p) \/ Locked(p) \/ Finish(p)
        \/ FetchBootstrap(p) \/ BootstrapFails(p) \/ RejectBootstrap(p)
        \/ StartNew(p) \/ StartResume(p)
    BY <1>2, <2>1 DEF Step, Begin, End, Writes
  <2>3. Same
    BY <1>0, <2>2 DEF LoadForResume, AcquireLock, Locked, Finish, FetchBootstrap,
                      BootstrapFails, RejectBootstrap, StartNew, StartResume, At
  <2>4. Calm(p)
    BY <1>0, <2>2 DEF LoadForResume, AcquireLock, Locked, Finish, FetchBootstrap, Goto,
                      BootstrapFails, RejectBootstrap, StartNew, StartResume, At, Labels
  <2> QED
    BY <2>3, <2>4
<1>3. ASSUME NEW p \in Proc, Writing(p), Step(p)
      PROVE  ReturnResult(p) \/ MarkIncomplete(p)
  <2>1. pc[p] \in {"return", "fail"}
    BY <1>0, <1>3
  <2>2. ~Begin(p) /\ ~Fixtures(p)
    BY <2>1 DEF At, Begin, FetchBootstrap, BootstrapFails, RejectBootstrap, AcquireLock,
                Locked, LoadForResume, SaveStart, Fixtures, FetchFixtures,
                WriteFixturesManifest, ReuseFixtures, FixturesFail
  <2>3. ~History(p)
    BY <2>1 DEF At, History, MakeHistory, WriteHistoryManifest, ResumeHistory,
                RecoverResponses, RecordResponses, FinishHistory, SaveHistory, Quarantine,
                FetchResponse, FetchFails
  <2>4. ~Transform(p) /\ ~LateFailure(p) /\ ~Complete(p) /\ ~Finish(p)
    BY <2>1 DEF At, Transform, LateFailure, Complete, Finish
  <2> QED
    BY <1>3, <2>2, <2>3, <2>4 DEF Step, Clean, End
<1>4. ASSUME NEW p \in Proc, Kill(p)
      PROVE  Same /\ Calm(p)
  BY <1>4 DEF Kill, Goto, Labels
<1>5. ASSUME NEW p \in Proc, Interrupt(p)
      PROVE  Same /\ (Returned => Calm(p))
  <2>1. Same
    BY <1>0, <1>5 DEF Interrupt, Writing
  <2>2. ASSUME Returned PROVE Calm(p)
    BY <1>0, <1>5, <2>2 DEF Interrupt, Returned, Writing, Holding, At, Goto, Labels
  <2> QED
    BY <2>1, <2>2
<1>6. ASSUME Unlock \/ (\E x \in Player : Damage(x)) \/ UNCHANGED vars
      PROVE  Same /\ pc' = pc
  BY <1>6 DEF Unlock, Damage, vars
<1>7. ASSUME NEW p \in Proc, ReturnResult(p) \/ MarkIncomplete(p)
      PROVE  /\ UNCHANGED Kept /\ manifest' \in {"complete", "incomplete"}
             /\ ~Returned
  BY <1>7 DEF ReturnResult, MarkIncomplete, At, Returned
<1> DEFINE Goal == /\ UNCHANGED Kept
                   /\ manifest' \in {"complete", "incomplete"}
                   /\ Returned => manifest' = "complete" /\ Returned'
<1>8. ASSUME NEW p \in Proc, Step(p) \/ StartNew(p) \/ StartResume(p)
      PROVE  Goal
  <2>1. ~Writing(p) => Same /\ Calm(p)
    BY <1>2, <1>8
  <2>2. Writing(p) /\ Step(p) => Goal
    BY <1>3, <1>7
  <2>3. StartNew(p) \/ StartResume(p) => ~Writing(p)
    BY DEF StartNew, StartResume, At, Writing
  <2>4. Same /\ Calm(p) => Goal
    BY <1>1
  <2> QED
    BY <1>8, <2>1, <2>2, <2>3, <2>4
<1>9. ASSUME NEW p \in Proc, Kill(p) \/ Interrupt(p)
      PROVE  Goal
  <2>1. Same /\ (Returned => Calm(p))
    BY <1>4, <1>5, <1>9
  <2>2. Returned => Returned'
    BY <1>1, <2>1
  <2> QED
    BY <2>1, <2>2
<1>10. Unlock \/ (\E x \in Player : Damage(x)) \/ UNCHANGED vars => Goal
  BY <1>1, <1>6
<1> HIDE DEF Goal
<1>11. Goal
  BY <1>8, <1>9, <1>10 DEF Next
<1> QED
  BY <1>11 DEF Goal

(* Only Complete writes "complete", and it has just checked. *)
LEMMA CompletingStep ==
  ASSUME TypeOK, ControlInv, Next, manifest # "complete", manifest' = "complete"
  PROVE  Coherent'
<1> USE RefreshAssumption DEF disk, local, ghosts
<1>1. ASSUME NEW p \in Proc, Begin(p) \/ Fixtures(p) \/ History(p) \/ End(p)
      PROVE  FALSE
  <2>1. CASE Begin(p)
    BY <2>1 DEF Begin, FetchBootstrap, BootstrapFails, RejectBootstrap, AcquireLock, Locked,
                LoadForResume, SaveStart
  <2>2. CASE Fixtures(p)
    BY <2>2 DEF Fixtures, FetchFixtures, WriteFixturesManifest, ReuseFixtures, FixturesFail
  <2>3. CASE History(p)
    BY <2>3 DEF History, MakeHistory, WriteHistoryManifest, ResumeHistory, RecoverResponses,
                RecordResponses, FinishHistory, SaveHistory, Quarantine, FetchResponse,
                FetchFails
  <2>4. CASE End(p)
    BY <2>4 DEF End, MarkIncomplete, Finish
  <2> QED
    BY <1>1, <2>1, <2>2, <2>3, <2>4
<1>2. ASSUME NEW p \in Proc, Clean(p)
      PROVE  Coherent'
  BY <1>2 DEF Clean, Transform, LateFailure, Complete, ReturnResult, Coherent
<1>3. ASSUME NEW p \in Proc, StartNew(p) \/ StartResume(p) \/ Interrupt(p) \/ Kill(p)
      PROVE  FALSE
  BY <1>3 DEF StartNew, StartResume, Interrupt, Kill
<1>4. ASSUME Unlock \/ \E x \in Player : Damage(x)
      PROVE  FALSE
  BY <1>4 DEF Unlock, Damage
<1> QED
  BY <1>1, <1>2, <1>3, <1>4 DEF Next, Step

LEMMA CoherenceStep ==
  ASSUME TypeOK, ControlInv, CompleteIsCoherent, Next
  PROVE  CompleteIsCoherent'
<1>1. CASE manifest = "complete"
  BY <1>1, CompletedStep DEF CompleteIsCoherent, Coherent, Kept
<1>2. CASE manifest # "complete"
  BY <1>2, CompletingStep DEF CompleteIsCoherent
<1> QED
  BY <1>1, <1>2

-----------------------------------------------------------------------------
(* The theorems *)

LEMMA Stutter == IInv /\ UNCHANGED vars => IInv'
  BY DEF vars, disk, local, ghosts, IInv, TypeOK, ControlInv, LockExclusive, Holding, Writing,
         StoredInv, RecordedIsStored, FetchedOnce, Stored, CompleteIsCoherent, Coherent

LEMMA Preserved == IInv /\ [Next]_vars => IInv'
<1> SUFFICES ASSUME IInv, Next PROVE IInv'
  BY Stutter
<1>1. TypeOK /\ ControlInv /\ StoredInv /\ CompleteIsCoherent
  BY DEF IInv
<1>2. TypeOK'
  BY <1>1, TypeStep
<1> QED
  BY <1>1, <1>2, ControlStep, StoredStep, CoherenceStep DEF IInv

(* The inductive invariant of a snapshot holds in every reachable state. *)
THEOREM Invariance == Spec => []IInv
  BY Start, Preserved, PTL DEF Spec

(* Every variable keeps its type: the manifests never hold a status that the
   loaders of refresh.py and official_data.py would not understand. *)
THEOREM TypeCorrect == Spec => []TypeOK
<1>1. IInv => TypeOK
  BY DEF IInv
<1> QED
  BY <1>1, Invariance, PTL

(* _acquire_snapshot_lock excludes: at most one process works on a snapshot, and
   the lock file is its own, provided unlock_refresh_snapshot is used when nobody
   does. *)
THEOREM LockExclusion == Spec => []LockExclusive
<1>1. IInv => LockExclusive
  BY DEF IInv, ControlInv
<1> QED
  BY <1>1, Invariance, PTL

(* A refresh manifest says "complete" only over a snapshot that passes
   _validate_snapshot_coherence, however it was resumed, killed and damaged. *)
THEOREM Coherence == Spec => []CompleteIsCoherent
<1>1. IInv => CompleteIsCoherent
  BY DEF IInv
<1> QED
  BY <1>1, Invariance, PTL

(* No response is downloaded twice unless its file was damaged, even if a
   process died before the manifest recorded it. *)
THEOREM NoSecondDownload == Spec => []FetchedOnce
<1>1. IInv => FetchedOnce
  BY DEF IInv, StoredInv
<1> QED
  BY <1>1, Invariance, PTL

(* The history manifest records no response that was not stored. *)
THEOREM ManifestTruth == Spec => []RecordedIsStored
<1>1. IInv => RecordedIsStored
  BY DEF IInv, StoredInv
<1> QED
  BY <1>1, Invariance, PTL

(* A completed refresh is immutable: no step of any process changes its responses,
   its collection or its outputs, and once refresh_fpl_data has returned, or its
   process has died, its manifest says complete for ever.  Before that a Ctrl-C in
   the last lines of the try may still mark it incomplete. *)
THEOREM Immutability == Spec => CompletedImmutable
<1>1. IInv /\ [Next]_vars =>
        [manifest = "complete" =>
           /\ UNCHANGED <<bootstrap, fixtures, history, files, clean>>
           /\ manifest' \in {"complete", "incomplete"}
           /\ Returned => manifest' = "complete" /\ Returned']_vars
  BY CompletedStep DEF IInv, Kept
<1> QED
  BY <1>1, Invariance, PTL DEF Spec, CompletedImmutable

-----------------------------------------------------------------------------
(* What no resume can repair.  Doomed looks at a snapshot nobody works on;    *)
(* Hopeless follows it through the resumes that then start and fail.          *)

(* Where a resume is before its fixtures are accepted, or once it has failed. *)
Barred == {"idle", "resumelock", "load", "save", "fixtures", "fail", "unlock"}

Unopened == manifest = None /\ \A p \in Proc : pc[p] = "idle"

HalfFixtures == fixtures = "response" /\ \A p \in Proc : pc[p] \in Barred

DeadHistory ==
  /\ history # None /\ history.status \notin Running
  /\ \A p \in Proc : pc[p] \in Barred \cup {"fixturesmanifest", "history"}

Hopeless == bootstrap /\ manifest # "complete" /\ (Unopened \/ HalfFixtures \/ DeadHistory)

LEMMA DoomIsHopeless == Doomed => Hopeless
  BY DEF Doomed, At, Hopeless, Unopened, HalfFixtures, DeadHistory, Barred

(* The steps a process can take on a hopeless snapshot. *)
LEMMA HopelessSteps ==
  ASSUME Hopeless, NEW p \in Proc, Step(p)
  PROVE  \/ AcquireLock(p) \/ Locked(p) \/ LoadForResume(p) \/ SaveStart(p)
         \/ Fixtures(p) \/ ResumeHistory(p) \/ MarkIncomplete(p) \/ Finish(p)
<1>1. pc[p] \in Barred \cup {"fixturesmanifest", "history"}
  BY DEF Hopeless, Unopened, HalfFixtures, DeadHistory, Barred
<1>2. Begin(p) => AcquireLock(p) \/ Locked(p) \/ LoadForResume(p) \/ SaveStart(p)
  BY <1>1 DEF Barred, Begin, FetchBootstrap, BootstrapFails, RejectBootstrap, At
<1>3. History(p) => ResumeHistory(p)
  <2>1. ~MakeHistory(p)
    BY DEF MakeHistory, At, Hopeless, Unopened, HalfFixtures, DeadHistory, Barred
  <2>2. ~WriteHistoryManifest(p) /\ ~RecoverResponses(p) /\ ~RecordResponses(p)
    BY <1>1 DEF Barred, WriteHistoryManifest, RecoverResponses, RecordResponses, At
  <2>3. ~FinishHistory(p) /\ ~SaveHistory(p)
    BY <1>1 DEF Barred, FinishHistory, SaveHistory, At
  <2>4. \A x \in Player : ~Quarantine(p, x) /\ ~FetchResponse(p, x) /\ ~FetchFails(p, x)
    BY <1>1 DEF Barred, Quarantine, FetchResponse, FetchFails, At
  <2> QED
    BY <2>1, <2>2, <2>3, <2>4 DEF History
<1>4. ~Clean(p)
  BY <1>1 DEF Barred, Clean, Transform, LateFailure, Complete, ReturnResult, At
<1> QED
  BY <1>2, <1>3, <1>4 DEF Step, End

(* A resume of a hopeless snapshot fails where the one before it failed. *)
LEMMA HopelessStays ==
  ASSUME TypeOK, Hopeless, [Next]_vars
  PROVE  Hopeless'
<1> USE RefreshAssumption DEF At, Goto, disk, local, ghosts
<1>0. pc \in [Proc -> Labels]
  BY DEF TypeOK
<1>1. CASE Unopened
  <2>1. \A p \in Proc : ~Step(p)
    BY <1>1, HopelessSteps
       DEF Unopened, AcquireLock, Locked, LoadForResume, SaveStart, Fixtures, FetchFixtures,
           WriteFixturesManifest, ReuseFixtures, FixturesFail, ResumeHistory, MarkIncomplete,
           Finish
  <2>2. \A p \in Proc : ~StartNew(p) /\ ~StartResume(p) /\ ~Interrupt(p) /\ ~Kill(p)
    BY <1>1 DEF Hopeless, Unopened, StartNew, StartResume, Interrupt, Kill
  <2>3. UNCHANGED <<bootstrap, manifest, pc>>
    BY <2>1, <2>2 DEF Next, Unlock, Damage, vars
  <2> QED
    BY <1>1, <2>3 DEF Hopeless, Unopened
<1>2. CASE HalfFixtures
  <2>1. ASSUME NEW p \in Proc, Step(p)
        PROVE  Hopeless'
    <3>1. ~ResumeHistory(p) /\ ~FetchFixtures(p) /\ ~WriteFixturesManifest(p) /\ ~ReuseFixtures(p)
      BY <1>2 DEF HalfFixtures, Barred, ResumeHistory, FetchFixtures, WriteFixturesManifest,
                  ReuseFixtures
    <3>2. \/ AcquireLock(p) \/ Locked(p) \/ LoadForResume(p) \/ SaveStart(p)
          \/ FixturesFail(p) \/ MarkIncomplete(p) \/ Finish(p)
      BY <2>1, <3>1, HopelessSteps DEF Fixtures
    <3>3. UNCHANGED <<bootstrap, fixtures>> /\ manifest' # "complete"
      BY <3>2 DEF Hopeless, AcquireLock, Locked, LoadForResume, SaveStart, FixturesFail,
                  MarkIncomplete, Finish
    <3>4. pc' = [pc EXCEPT ![p] = pc'[p]] /\ pc'[p] \in Barred
      BY <1>0, <1>2, <3>2
         DEF HalfFixtures, Barred, AcquireLock, Locked, LoadForResume, SaveStart,
             FixturesFail, MarkIncomplete, Finish
    <3> QED
      BY <1>0, <1>2, <3>3, <3>4 DEF Hopeless, HalfFixtures
  <2>2. ASSUME NEW p \in Proc, StartNew(p) \/ StartResume(p) \/ Interrupt(p) \/ Kill(p)
        PROVE  Hopeless'
    BY <1>0, <1>2, <2>2
       DEF Hopeless, HalfFixtures, Barred, StartNew, StartResume, Interrupt, Kill
  <2>3. CASE Unlock \/ (\E x \in Player : Damage(x)) \/ UNCHANGED vars
    BY <1>2, <2>3 DEF Hopeless, HalfFixtures, Unlock, Damage, vars
  <2> QED
    BY <2>1, <2>2, <2>3 DEF Next
<1>3. CASE DeadHistory
  <2> DEFINE Room == Barred \cup {"fixturesmanifest", "history"}
  <2>1. ASSUME NEW p \in Proc, Step(p)
        PROVE  Hopeless'
    <3>1. \/ AcquireLock(p) \/ Locked(p) \/ LoadForResume(p) \/ SaveStart(p)
          \/ Fixtures(p) \/ ResumeHistory(p) \/ MarkIncomplete(p) \/ Finish(p)
      BY <2>1, HopelessSteps
    <3>2. UNCHANGED <<bootstrap, history>> /\ manifest' # "complete"
      BY <3>1 DEF Hopeless, AcquireLock, Locked, LoadForResume, SaveStart, Fixtures,
                  FetchFixtures, WriteFixturesManifest, ReuseFixtures, FixturesFail,
                  ResumeHistory, MarkIncomplete, Finish
    <3>3. pc' = [pc EXCEPT ![p] = pc'[p]] /\ pc'[p] \in Room
      BY <1>0, <1>3, <3>1
         DEF DeadHistory, Barred, AcquireLock, Locked, LoadForResume, SaveStart, Fixtures,
             FetchFixtures, WriteFixturesManifest, ReuseFixtures, FixturesFail, ResumeHistory,
             MarkIncomplete, Finish
    <3> QED
      BY <1>0, <1>3, <3>2, <3>3 DEF Hopeless, DeadHistory
  <2>2. ASSUME NEW p \in Proc, StartNew(p) \/ StartResume(p) \/ Interrupt(p) \/ Kill(p)
        PROVE  Hopeless'
    BY <1>0, <1>3, <2>2
       DEF Hopeless, DeadHistory, Barred, StartNew, StartResume, Interrupt, Kill
  <2>3. CASE Unlock \/ (\E x \in Player : Damage(x)) \/ UNCHANGED vars
    BY <1>3, <2>3 DEF Hopeless, DeadHistory, Unlock, Damage, vars
  <2> QED
    BY <2>1, <2>2, <2>3 DEF Next
<1> QED
  BY <1>1, <1>2, <1>3 DEF Hopeless

(* A snapshot without its refresh manifest, with fixtures but not their manifest,
   or with a collection no resume accepts is never completed, by however many
   processes it is resumed, killed and unlocked: the resumes of refresh.py and
   official_data.py cannot repair it. *)
THEOREM DoomIsFinal == Spec => DoomedForEver
<1>1. IInv => TypeOK
  BY DEF IInv
<1>2. TypeOK /\ Hopeless /\ [Next]_vars => Hopeless'
  BY HopelessStays
<1>3. Hopeless => manifest # "complete"
  BY DEF Hopeless
<1> QED
  BY <1>1, <1>2, <1>3, DoomIsHopeless, Invariance, PTL DEF Spec, DoomedForEver
=============================================================================
