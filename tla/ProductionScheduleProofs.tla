----------------------- MODULE ProductionScheduleProofs -----------------------
(***************************************************************************)
(* What holds of ProductionSchedule for any number of places where a run   *)
(* can execute, any window, and any number of events and faults.           *)
(***************************************************************************)
EXTENDS ProductionSchedule, SequenceTheorems, TLAPS

(* A success is one that the engine's receipts prove. *)
Proven(status) ==
  /\ status = "TERMINAL_COMPLETE" => receipts = "evaluated"
  /\ status = "TERMINAL_REALIZED_COMPLETE" => receipts # "none"

(* What a run carries at every label: a proven status once it has one, a whole
   record before it goes for the marker, and the marker while it hashes it. *)
RunInv(r) ==
  /\ run[r].pc \in {"decided", "publish", "hash", "terminal", "terminalhash"} =>
       run[r].status \in Active \cup Terminal /\ Proven(run[r].status)
  /\ run[r].pc \in {"terminal", "terminalhash"} => Whole(r) \in records
  /\ run[r].pc = "terminalhash" => marker # None

(* The marker repeats a record that nobody is still writing. *)
MarkerInv ==
  marker # None => /\ marker.record \in records
                   /\ marker.record.torn = None
                   /\ Proven(marker.record.status)

(* The owner's command installs and loads the service before anything is recorded
   in the lifecycle, and records a deactivation after it has removed the service. *)
OwnerInv ==
  /\ owner.pc = "event" => owner.event \in Events
  /\ owner.pc = "hash" => lifecycle # << >>
  /\ owner.pc = "event" /\ owner.event = "DEACTIVATED" => ~loaded /\ ~installed
  /\ owner.pc \in {"bootstrap", "loaded"} => lifecycle = << >>

(* launchd's job runs only while its label is loaded. *)
ServiceInv ==
  /\ ~loaded => At(Scheduled, "idle")
  /\ Deactivated => ~loaded /\ ~installed

(* Nothing gets past the authorization before the first lifecycle event. *)
QuietInv ==
  lifecycle = << >> => /\ records = {}
                       /\ \A r \in Run : run[r].pc \in {"idle", "authorize"}

RunType == run \in [Run -> Local]

(* Only run r has moved. *)
Only(r) == \A q \in Run \ {r} : run'[q] = run[q]

IInv == /\ TypeOK
        /\ \A r \in Run : RunInv(r)
        /\ MarkerInv /\ OwnerInv /\ ServiceInv /\ QuietInv

-----------------------------------------------------------------------------
(* What the ways of moving a run or the owner's command leave behind *)

LEMMA LabelsAre ==
  /\ \A l \in {"idle", "authorize", "records", "decided", "engine", "publish", "hash",
               "terminal", "terminalhash"} : l \in RunLabels
  /\ \A l \in {"idle", "bootstrap", "loaded", "event", "hash", "kickstart", "bootout",
               "absence", "remove"} : l \in OwnerLabels
  BY DEF RunLabels, OwnerLabels

LEMMA IdleTypes ==
  /\ IdleRun \in Local /\ IdleRun.pc = "idle"
  /\ IdleOwner \in Command /\ IdleOwner.pc = "idle"
  BY WindowAssumption DEF IdleRun, Local, RunLabels, IdleOwner, Command, OwnerLabels

LEMMA Becomes ==
  ASSUME RunType, NEW r \in Run, NEW x \in Local, run' = [run EXCEPT ![r] = x]
  PROVE  RunType' /\ Only(r) /\ run'[r] = x
  BY DEF RunType, Only

LEMMA Goes ==
  ASSUME RunType, NEW r \in Run, NEW l \in RunLabels, Goto(r, l)
  PROVE  /\ RunType' /\ Only(r)
         /\ run'[r].pc = l /\ run'[r].start = run[r].start /\ run'[r].status = run[r].status
<1>1. RunType'
  BY DEF RunType, Goto, Local
<1>2. Only(r) /\ run'[r].pc = l /\ run'[r].start = run[r].start /\ run'[r].status = run[r].status
  BY DEF RunType, Goto, Local, Only
<1> QED
  BY <1>1, <1>2

LEMMA Stops ==
  ASSUME RunType, NEW r \in Run, Stop(r)
  PROVE  RunType' /\ Only(r) /\ run'[r].pc = "idle"
  BY IdleTypes, Becomes DEF Stop

LEMMA OwnerGoes ==
  ASSUME owner \in Command, NEW l \in OwnerLabels, OwnerGoto(l)
  PROVE  owner' \in Command /\ owner'.pc = l /\ owner'.event = owner.event
  BY DEF OwnerGoto, Command

LEMMA Publishes ==
  ASSUME NEW e \in Events, NEW n \in {"idle", "kickstart"}, OwnerPublishes(e, n)
  PROVE  owner' \in Command /\ owner'.pc = "event" /\ owner'.event = e
  BY DEF OwnerPublishes, Command, OwnerLabels

-----------------------------------------------------------------------------
(* The initial state *)

LEMMA Start == Init => IInv
<1> SUFFICES ASSUME Init PROVE IInv
  OBVIOUS
<1>1. TypeOK
  <2>1. run \in [Run -> Local] /\ owner \in Command
    BY IdleTypes DEF Init
  <2>2. lifecycle \in Seq(Event) /\ Len(lifecycle) <= MaxEvents
    BY BoundAssumption, EmptySeq DEF Init
  <2>3. /\ clock \in 0..MaxTime /\ faults \in 0..MaxFaults
    BY WindowAssumption, BoundAssumption DEF Init
  <2>4. /\ installed \in BOOLEAN /\ loaded \in BOOLEAN
        /\ records \subseteq Record /\ marker \in Marker \cup {None} /\ receipts \in Receipts
    BY Zenon DEF Init, Receipts
  <2> QED
    BY <2>1, <2>2, <2>3, <2>4 DEF TypeOK
<1>2. \A r \in Run : run[r].pc = "idle"
  BY IdleTypes DEF Init
<1>3. \A r \in Run : RunInv(r)
  BY <1>2 DEF RunInv
<1>4. MarkerInv /\ OwnerInv /\ ServiceInv /\ QuietInv
  BY <1>2, IdleTypes, RunAssumption
     DEF Init, MarkerInv, OwnerInv, ServiceInv, QuietInv, At, Deactivated
<1> QED
  BY <1>1, <1>3, <1>4 DEF IInv

-----------------------------------------------------------------------------
(* Steps of one run *)

(* The form of every step of run r: records and the marker only grow, the rest
   is unchanged, and the run obeys the invariant. *)
LEMMA RunMoves ==
  ASSUME IInv, NEW r \in Run, RunType', Only(r), RunInv(r)',
         UNCHANGED <<clock, service, lifecycle, receipts, owner>>, faults' \in 0..MaxFaults,
         records' \subseteq Record, marker' \in Marker \cup {None}, MarkerInv',
         \A c \in records : c.torn = None => c \in records',
         marker # None => marker' # None,
         r = Scheduled /\ run'[r].pc # "idle" => loaded,
         lifecycle = << >> => records' = {} /\ run'[r].pc \in {"idle", "authorize"}
  PROVE  IInv'
<1>1. TypeOK'
  BY DEF IInv, TypeOK, RunType, service
<1>2. ASSUME NEW q \in Run PROVE RunInv(q)'
  <2>1. CASE q = r
    BY <2>1
  <2>2. CASE q # r
    <3>1. run'[q] = run[q] /\ Whole(q)' = Whole(q) /\ RunInv(q)
      BY <2>2 DEF Only, IInv, Whole, Torn
    <3>2. Whole(q).torn = None
      BY DEF Whole, Torn
    <3> QED
      BY <3>1, <3>2 DEF RunInv, Proven
  <2> QED
    BY <2>1, <2>2
<1>3. OwnerInv'
  BY DEF IInv, OwnerInv, service
<1>4. ServiceInv'
  BY RunAssumption DEF IInv, ServiceInv, service, At, Only, Deactivated
<1>5. QuietInv'
  BY DEF IInv, QuietInv, Only
<1> QED
  BY <1>1, <1>2, <1>3, <1>4, <1>5 DEF IInv

(* A step of run r that publishes nothing. *)
LEMMA RunMovesOn ==
  ASSUME IInv, NEW r \in Run, RunType', Only(r), RunInv(r)',
         UNCHANGED <<clock, service, evidence, receipts, owner>>, faults' \in 0..MaxFaults,
         r = Scheduled /\ run'[r].pc # "idle" => loaded,
         lifecycle = << >> => run'[r].pc \in {"idle", "authorize"}
  PROVE  IInv'
<1>1. MarkerInv'
  BY DEF IInv, MarkerInv, Proven, evidence
<1> QED
  BY <1>1, RunMoves DEF IInv, TypeOK, QuietInv, evidence, service

LEMMA RunEnds ==
  ASSUME IInv, NEW r \in Run, Stop(r),
         UNCHANGED <<clock, service, evidence, receipts, owner>>, faults' \in 0..MaxFaults
  PROVE  IInv'
<1>1. RunType' /\ Only(r) /\ run'[r].pc = "idle"
  BY Stops DEF IInv, TypeOK, RunType
<1>2. RunInv(r)'
  BY <1>1 DEF RunInv
<1> QED
  BY <1>1, <1>2, RunMovesOn

LEMMA Faulty == ASSUME IInv, Fault PROVE faults' \in 0..MaxFaults
  BY BoundAssumption DEF IInv, TypeOK, Fault

LEMMA TimeType == ASSUME IInv PROVE clock \in 0..MaxTime
  BY DEF IInv, TypeOK

LEMMA DecideType ==
  ASSUME NEW now
  PROVE  Decide(now) \in {"ACTIVE_NOT_YET_DUE", "TERMINAL_REVIEW_REQUIRED", None}
  BY DEF Decide

LEMMA AuthorizePreserves ==
  ASSUME IInv, NEW r \in Run,
         StartRun(r) \/ PreflightFails(r) \/ CheckAuthorization(r) \/ KillRun(r)
  PROVE  IInv'
<1>1. CASE StartRun(r)
  <2>1. Goto(r, "authorize") /\ (r = Scheduled => loaded)
    BY <1>1 DEF StartRun, CanStart
  <2>2. RunType' /\ Only(r) /\ run'[r].pc = "authorize"
    BY <2>1, LabelsAre, Goes DEF IInv, TypeOK, RunType
  <2>3. RunInv(r)'
    BY <2>2 DEF RunInv
  <2> QED
    BY <1>1, <2>1, <2>2, <2>3, RunMovesOn DEF StartRun, IInv, TypeOK
<1>2. CASE PreflightFails(r) \/ KillRun(r)
  BY <1>2, Faulty, RunEnds DEF PreflightFails, KillRun
<1>3. CASE CheckAuthorization(r)
  <2>1. CASE Authorized
    <3>1. Goto(r, "records") /\ run[r].pc = "authorize" /\ lifecycle # << >>
      BY <1>3, <2>1 DEF CheckAuthorization, Authorized, At
    <3>2. RunType' /\ Only(r) /\ run'[r].pc = "records"
      BY <3>1, LabelsAre, Goes DEF IInv, TypeOK, RunType
    <3>3. RunInv(r)'
      BY <3>2 DEF RunInv
    <3>4. r = Scheduled => loaded
      BY <3>1 DEF IInv, ServiceInv, At
    <3> QED
      BY <1>3, <3>1, <3>2, <3>3, <3>4, RunMovesOn DEF CheckAuthorization, IInv, TypeOK
  <2>2. CASE ~Authorized
    BY <1>3, <2>2, RunEnds DEF CheckAuthorization, IInv, TypeOK
  <2> QED
    BY <2>1, <2>2
<1> QED
  BY <1>1, <1>2, <1>3

LEMMA ReadRecordsPreserves ==
  ASSUME IInv, NEW r \in Run, ReadRecords(r)
  PROVE  IInv'
<1> DEFINE l == IF Decide(clock) = None THEN "engine" ELSE "decided"
           m == [pc |-> l, start |-> clock, status |-> Decide(clock)]
<1>1. run[r].pc = "records" /\ UNCHANGED <<clock, service, evidence, receipts, owner, faults>>
  BY DEF ReadRecords, At
<1>2. run' = [run EXCEPT ![r] = IF ~Credible THEN IdleRun ELSE m]
  BY DEF ReadRecords
<1>3. lifecycle # << >> /\ (r = Scheduled => loaded) /\ faults' \in 0..MaxFaults
  BY <1>1 DEF IInv, QuietInv, ServiceInv, At, TypeOK
<1>4. CASE ~Credible
  <2>1. Stop(r)
    BY <1>2, <1>4 DEF Stop
  <2> QED
    BY <1>1, <1>3, <2>1, RunEnds
<1>5. CASE Credible
  <2>1. m \in Local /\ m.pc = l /\ m.status = Decide(clock)
    <3>1. l \in RunLabels
      BY LabelsAre
    <3>2. Decide(clock) \in Active \cup Terminal \cup {None}
      BY DecideType DEF Active, Terminal
    <3> HIDE DEF l
    <3> QED
      BY <3>1, <3>2, TimeType DEF Local
  <2> HIDE DEF m
  <2>2. RunType' /\ Only(r) /\ run'[r] = m
    BY <1>2, <1>5, <2>1, Becomes DEF IInv, TypeOK, RunType
  <2>3. RunInv(r)'
    <3>1. l \in {"engine", "decided"} /\ (l = "decided" => Decide(clock) # None)
      OBVIOUS
    <3>2. Decide(clock) # None =>
            /\ Decide(clock) \in Active \cup Terminal
            /\ Decide(clock) \notin {"TERMINAL_COMPLETE", "TERMINAL_REALIZED_COMPLETE"}
      BY DecideType DEF Active, Terminal
    <3> QED
      BY <2>1, <2>2, <3>1, <3>2 DEF RunInv, Proven
  <2> QED
    BY <1>1, <1>3, <2>2, <2>3, RunMovesOn
<1> QED
  BY <1>4, <1>5

(* The outcome of the engine is turned into a status that the receipts prove. *)
LEMMA MappedIsProven ==
  ASSUME receipts \in Receipts, NEW outcome \in Possible(receipts)
  PROVE  Mapped(outcome) \in Active \cup Terminal /\ Proven(Mapped(outcome))
<1>1. Mapped(outcome) \in Active \cup Terminal
  BY DEF Mapped, Active, Terminal
<1>2. Mapped(outcome) = "TERMINAL_COMPLETE" => outcome = "COMPLETE"
  BY DEF Mapped
<1>3. Mapped(outcome) = "TERMINAL_REALIZED_COMPLETE" => outcome = "REALIZED_COMPLETE"
  BY DEF Mapped
<1>4. outcome = "COMPLETE" => receipts = "evaluated"
  BY DEF Possible, Receipts
<1>5. outcome = "REALIZED_COMPLETE" => receipts # "none"
  BY DEF Possible, Receipts
<1> QED
  BY <1>1, <1>2, <1>3, <1>4, <1>5 DEF Proven

LEMMA RunConcludes ==
  ASSUME RunType, NEW r \in Run, NEW status \in Active \cup Terminal,
         run' = [run EXCEPT ![r].pc = "publish", ![r].status = status]
  PROVE  RunType' /\ Only(r) /\ run'[r].pc = "publish" /\ run'[r].status = status
<1>1. RunType'
  BY LabelsAre DEF RunType, Local
<1>2. Only(r) /\ run'[r].pc = "publish" /\ run'[r].status = status
  BY DEF RunType, Local, Only
<1> QED
  BY <1>1, <1>2

(* The end of a run, with or without a call, for whatever status it has decided on. *)
LEMMA EndingPreserves ==
  ASSUME IInv, NEW r \in Run, run[r].pc \in {"decided", "engine"},
         NEW status \in Active \cup Terminal, Proven(status),
         run' = [run EXCEPT ![r].pc = "publish", ![r].status = Ending(r, status)],
         UNCHANGED <<clock, service, evidence, receipts, owner, faults>>
  PROVE  IInv'
<1>1. lifecycle # << >> /\ (r = Scheduled => loaded) /\ faults' \in 0..MaxFaults
  BY DEF IInv, QuietInv, ServiceInv, At, TypeOK
<1> DEFINE st == Ending(r, status)
<1>2. st \in Active \cup Terminal /\ Proven(st)
  BY DEF Ending, Active, Terminal, Proven
<1>3. run' = [run EXCEPT ![r].pc = "publish", ![r].status = st]
  OBVIOUS
<1> HIDE DEF st
<1>4. RunType' /\ Only(r) /\ run'[r].pc = "publish" /\ run'[r].status = st
  BY <1>2, <1>3, RunConcludes DEF IInv, TypeOK, RunType
<1>5. RunInv(r)'
  BY <1>2, <1>4 DEF RunInv, Proven
<1> QED
  BY <1>1, <1>4, <1>5, RunMovesOn

LEMMA EndWithoutCallPreserves ==
  ASSUME IInv, NEW r \in Run, EndWithoutCall(r)
  PROVE  IInv'
<1>1. run[r].pc = "decided"
  BY DEF EndWithoutCall, At
<1>2. run[r].status \in Active \cup Terminal /\ Proven(run[r].status)
  BY <1>1 DEF IInv, RunInv
<1> QED
  BY <1>1, <1>2, EndingPreserves DEF EndWithoutCall

LEMMA EngineReturnsPreserves ==
  ASSUME IInv, NEW r \in Run, EngineReturns(r)
  PROVE  IInv'
<1>1. run[r].pc = "engine"
  BY DEF EngineReturns, At
<1>2. PICK outcome \in Possible(receipts) :
        run' = [run EXCEPT ![r].pc = "publish", ![r].status = Ending(r, Mapped(outcome))]
  BY DEF EngineReturns
<1>3. Mapped(outcome) \in Active \cup Terminal /\ Proven(Mapped(outcome))
  BY MappedIsProven DEF IInv, TypeOK
<1> QED
  BY <1>1, <1>2, <1>3, EndingPreserves DEF EngineReturns

LEMMA RecordTypes ==
  ASSUME IInv, NEW r \in Run, run[r].status \in Active \cup Terminal
  PROVE  /\ Torn(r) \in Record /\ Torn(r).torn = r /\ Torn(r).status = run[r].status
         /\ Whole(r) \in Record /\ Whole(r).torn = None /\ Whole(r).status = run[r].status
<1>1. run[r].start \in 0..MaxTime
  BY DEF IInv, TypeOK, Local
<1> QED
  BY <1>1 DEF Torn, Whole, Record

LEMMA PublishRecordPreserves ==
  ASSUME IInv, NEW r \in Run, PublishRecord(r)
  PROVE  IInv'
<1>1. /\ run[r].pc = "publish" /\ Goto(r, "hash") /\ records' = records \cup {Torn(r)}
      /\ UNCHANGED <<clock, service, lifecycle, marker, receipts, owner, faults>>
  BY DEF PublishRecord, At
<1>2. lifecycle # << >> /\ (r = Scheduled => loaded) /\ faults' \in 0..MaxFaults
  BY <1>1 DEF IInv, QuietInv, ServiceInv, At, TypeOK
<1>3. run[r].status \in Active \cup Terminal /\ Proven(run[r].status)
  BY <1>1 DEF IInv, RunInv
<1>4. records' \subseteq Record
  BY <1>1, <1>3, RecordTypes DEF IInv, TypeOK
<1>5. /\ RunType' /\ Only(r) /\ run'[r].pc = "hash" /\ run'[r].status = run[r].status
  BY <1>1, LabelsAre, Goes DEF IInv, TypeOK, RunType
<1>6. RunInv(r)'
  BY <1>1, <1>3, <1>5 DEF RunInv, Proven
<1>7. MarkerInv' /\ marker' \in Marker \cup {None}
  BY <1>1 DEF IInv, MarkerInv, Proven, TypeOK
<1> QED
  BY <1>1, <1>2, <1>4, <1>5, <1>6, <1>7, RunMoves

LEMMA HashRecordPreserves ==
  ASSUME IInv, NEW r \in Run, HashRecord(r)
  PROVE  IInv'
<1>1. /\ run[r].pc = "hash" /\ records' = (records \ {Torn(r)}) \cup {Whole(r)}
      /\ IF run[r].status \in Terminal THEN Goto(r, "terminal") ELSE Stop(r)
      /\ UNCHANGED <<clock, service, lifecycle, marker, receipts, owner, faults>>
  BY DEF HashRecord, At
<1>2. lifecycle # << >> /\ (r = Scheduled => loaded) /\ faults' \in 0..MaxFaults
  BY <1>1 DEF IInv, QuietInv, ServiceInv, At, TypeOK
<1>3. run[r].status \in Active \cup Terminal /\ Proven(run[r].status)
  BY <1>1 DEF IInv, RunInv
<1>4. records' \subseteq Record
  BY <1>1, <1>3, RecordTypes DEF IInv, TypeOK
<1>5. \A c \in records : c.torn = None => c \in records'
  BY <1>1, <1>3, RecordTypes, RunAssumption
<1>6. MarkerInv' /\ marker' \in Marker \cup {None}
  BY <1>1, <1>5 DEF IInv, MarkerInv, Proven, TypeOK
<1>7. CASE run[r].status \in Terminal
  <2>1. /\ RunType' /\ Only(r) /\ run'[r].pc = "terminal"
        /\ run'[r].start = run[r].start /\ run'[r].status = run[r].status
    BY <1>1, <1>7, LabelsAre, Goes DEF IInv, TypeOK, RunType
  <2>2. Whole(r)' = Whole(r)
    BY <2>1 DEF Whole, Torn
  <2>3. RunInv(r)'
    BY <1>1, <1>3, <2>1, <2>2 DEF RunInv, Proven
  <2> QED
    BY <1>1, <1>2, <1>4, <1>5, <1>6, <2>1, <2>3, RunMoves
<1>8. CASE run[r].status \notin Terminal
  <2>1. RunType' /\ Only(r) /\ run'[r].pc = "idle"
    BY <1>1, <1>8, Stops DEF IInv, TypeOK, RunType
  <2>2. RunInv(r)'
    BY <2>1 DEF RunInv
  <2> QED
    BY <1>1, <1>2, <1>4, <1>5, <1>6, <2>1, <2>2, RunMoves
<1> QED
  BY <1>7, <1>8

LEMMA PublishMarkerPreserves ==
  ASSUME IInv, NEW r \in Run, PublishMarker(r)
  PROVE  IInv' /\ (marker # None => marker' = marker)
<1>1. /\ run[r].pc = "terminal"
      /\ UNCHANGED <<clock, service, lifecycle, records, receipts, owner, faults>>
  BY DEF PublishMarker, At
<1>2. lifecycle # << >> /\ (r = Scheduled => loaded) /\ faults' \in 0..MaxFaults
  BY <1>1 DEF IInv, QuietInv, ServiceInv, At, TypeOK
<1>3. /\ run[r].status \in Active \cup Terminal /\ Proven(run[r].status)
      /\ Whole(r) \in records
  BY <1>1 DEF IInv, RunInv
<1>4. CASE marker = None
  <2> DEFINE m == [record |-> Whole(r), hashed |-> FALSE]
  <2>1. marker' = m /\ Goto(r, "terminalhash")
    BY <1>4 DEF PublishMarker
  <2>2. m \in Marker /\ m.record = Whole(r) /\ m # None
    <3>1. Whole(r) \in Record
      BY <1>3, RecordTypes
    <3>2. m \in Marker /\ m.record = Whole(r)
      BY <3>1 DEF Marker
    <3> HIDE DEF m
    <3> QED
      BY <3>2, AbsentAssumption
  <2> HIDE DEF m
  <2>3. /\ RunType' /\ Only(r) /\ run'[r].pc = "terminalhash"
        /\ run'[r].start = run[r].start /\ run'[r].status = run[r].status
    BY <2>1, LabelsAre, Goes DEF IInv, TypeOK, RunType
  <2>4. Whole(r)' = Whole(r)
    BY <2>3 DEF Whole, Torn
  <2>5. RunInv(r)'
    BY <1>1, <1>3, <2>1, <2>2, <2>3, <2>4 DEF RunInv, Proven
  <2>6. MarkerInv'
    BY <1>1, <1>3, <2>1, <2>2, RecordTypes DEF MarkerInv, Proven
  <2>7. /\ records' \subseteq Record /\ marker' \in Marker \cup {None}
        /\ \A c \in records : c.torn = None => c \in records'
    BY <1>1, <2>1, <2>2 DEF IInv, TypeOK
  <2> QED
    BY <1>1, <1>2, <1>4, <2>3, <2>5, <2>6, <2>7, RunMoves
<1>5. CASE marker # None
  BY <1>1, <1>2, <1>5, RunEnds DEF PublishMarker, evidence
<1> QED
  BY <1>4, <1>5

LEMMA HashMarkerPreserves ==
  ASSUME IInv, NEW r \in Run, HashMarker(r)
  PROVE  IInv' /\ marker' # None /\ marker'.record = marker.record
<1>1. /\ run[r].pc = "terminalhash" /\ Stop(r) /\ marker' = [marker EXCEPT !.hashed = TRUE]
      /\ UNCHANGED <<clock, service, lifecycle, records, receipts, owner, faults>>
  BY DEF HashMarker, At
<1>2. lifecycle # << >> /\ (r = Scheduled => loaded) /\ faults' \in 0..MaxFaults
  BY <1>1 DEF IInv, QuietInv, ServiceInv, At, TypeOK
<1>3. marker # None /\ marker \in Marker
  BY <1>1 DEF IInv, RunInv, TypeOK
<1>4. marker' \in Marker /\ marker'.record = marker.record
  BY <1>1, <1>3 DEF Marker
<1>5. marker' # None
  BY <1>4, AbsentAssumption
<1>6. MarkerInv'
  BY <1>1, <1>3, <1>4 DEF IInv, MarkerInv, Proven
<1>7. RunType' /\ Only(r) /\ run'[r].pc = "idle"
  BY <1>1, Stops DEF IInv, TypeOK, RunType
<1>8. RunInv(r)'
  BY <1>7 DEF RunInv
<1>9. records' \subseteq Record /\ \A c \in records : c.torn = None => c \in records'
  BY <1>1 DEF IInv, TypeOK
<1> QED
  BY <1>1, <1>2, <1>4, <1>5, <1>6, <1>7, <1>8, <1>9, RunMoves

-----------------------------------------------------------------------------
(* Steps of the owner's command and of the world *)

(* The form of every step that leaves the evidence of the runs alone: runs move,
   if at all, to "idle", or launchd's job starts. *)
LEMMA OwnerMoves ==
  ASSUME IInv, UNCHANGED <<records, marker, receipts>>,
         clock' \in 0..MaxTime, faults' \in 0..MaxFaults,
         installed' \in BOOLEAN, loaded' \in BOOLEAN,
         owner' \in Command, OwnerInv', ServiceInv',
         lifecycle' \in Seq(Event), Len(lifecycle') <= MaxEvents,
         lifecycle' = << >> => lifecycle = << >>,
         RunType',
         \A r \in Run : run'[r] = run[r] \/ run'[r].pc \in {"idle", "authorize"}
  PROVE  IInv'
<1>1. TypeOK'
  BY DEF IInv, TypeOK, RunType
<1>2. ASSUME NEW q \in Run PROVE RunInv(q)'
  BY DEF IInv, RunInv, Proven, Whole, Torn
<1>3. MarkerInv'
  BY DEF IInv, MarkerInv, Proven
<1>4. QuietInv'
  BY DEF IInv, QuietInv
<1> QED
  BY <1>1, <1>2, <1>3, <1>4 DEF IInv

(* A step of the command that moves only the command. *)
LEMMA OwnerMovesOn ==
  ASSUME IInv, UNCHANGED <<clock, service, evidence, receipts, run>>,
         faults' \in 0..MaxFaults, owner' \in Command, OwnerInv'
  PROVE  IInv'
<1>1. ServiceInv' /\ RunType'
  BY DEF IInv, ServiceInv, TypeOK, RunType, service, evidence, At, Deactivated
<1> QED
  BY <1>1, OwnerMoves DEF IInv, TypeOK, service, evidence

LEMMA OwnerTypes ==
  ASSUME IInv
  PROVE  /\ owner \in Command /\ faults \in 0..MaxFaults /\ clock \in 0..MaxTime
         /\ installed \in BOOLEAN /\ loaded \in BOOLEAN
         /\ RunType /\ lifecycle \in Seq(Event) /\ Len(lifecycle) <= MaxEvents
  BY DEF IInv, TypeOK, RunType

(* StopScheduled, and a start by launchd. *)
LEMMA ScheduledStops ==
  ASSUME RunType, StopScheduled
  PROVE  /\ RunType' /\ run'[Scheduled].pc = "idle"
         /\ \A r \in Run : run'[r] = run[r] \/ run'[r].pc = "idle"
<1>1. RunType' /\ Only(Scheduled) /\ run'[Scheduled] = IdleRun
  BY RunAssumption, IdleTypes, Becomes DEF StopScheduled
<1> QED
  BY <1>1, IdleTypes DEF Only

LEMMA ScheduledStarts ==
  ASSUME RunType, Goto(Scheduled, "authorize")
  PROVE  /\ RunType'
         /\ \A r \in Run : run'[r] = run[r] \/ run'[r].pc = "authorize"
<1>1. RunType' /\ Only(Scheduled) /\ run'[Scheduled].pc = "authorize"
  BY RunAssumption, LabelsAre, Goes
<1> QED
  BY <1>1 DEF Only

LEMMA ActivatePreserves == ASSUME IInv, Activate PROVE IInv'
<1>1. /\ lifecycle = << >> /\ ~loaded /\ installed' = TRUE /\ OwnerGoto("bootstrap")
      /\ UNCHANGED <<clock, loaded, evidence, receipts, run, faults>>
  BY DEF Activate
<1>2. owner' \in Command /\ owner'.pc = "bootstrap"
  BY <1>1, LabelsAre, OwnerTypes, OwnerGoes
<1>3. OwnerInv'
  BY <1>1, <1>2 DEF OwnerInv, evidence
<1>4. ServiceInv'
  BY <1>1 DEF IInv, ServiceInv, evidence, At, Deactivated
<1> QED
  BY <1>1, <1>2, <1>3, <1>4, OwnerTypes, OwnerMoves DEF evidence, RunType

LEMMA BootstrapPreserves == ASSUME IInv, Bootstrap PROVE IInv'
<1>1. /\ owner.pc = "bootstrap" /\ loaded' = TRUE /\ OwnerGoto("loaded")
      /\ UNCHANGED <<clock, installed, evidence, receipts, run, faults>>
  BY DEF Bootstrap, OwnerAt
<1>2. owner' \in Command /\ owner'.pc = "loaded"
  BY <1>1, LabelsAre, OwnerTypes, OwnerGoes
<1>3. lifecycle = << >>
  BY <1>1 DEF IInv, OwnerInv
<1>4. OwnerInv' /\ ServiceInv'
  BY <1>1, <1>2, <1>3 DEF OwnerInv, ServiceInv, evidence, Deactivated
<1> QED
  BY <1>1, <1>2, <1>4, OwnerTypes, OwnerMoves DEF evidence, RunType

(* The command goes on to publish an event that is not a deactivation. *)
LEMMA PublishesSomething ==
  ASSUME IInv, NEW e \in Events \ {"DEACTIVATED"}, NEW n \in {"idle", "kickstart"},
         OwnerPublishes(e, n)
  PROVE  owner' \in Command /\ OwnerInv'
<1>1. owner' \in Command /\ owner'.pc = "event" /\ owner'.event = e
  BY Publishes
<1> QED
  BY <1>1 DEF OwnerInv

LEMMA VerifyLoadedPreserves == ASSUME IInv, VerifyLoaded PROVE IInv'
  BY PublishesSomething, OwnerTypes, OwnerMovesOn DEF VerifyLoaded, Events

LEMMA PublishEventPreserves == ASSUME IInv, PublishEvent PROVE IInv'
<1> DEFINE e == [status |-> owner.event, hashed |-> FALSE]
<1>1. /\ owner.pc = "event" /\ lifecycle' = Append(lifecycle, e) /\ OwnerGoto("hash")
      /\ Len(lifecycle) < MaxEvents
      /\ UNCHANGED <<clock, service, records, marker, receipts, run, faults>>
  BY DEF PublishEvent, OwnerAt
<1>2. e \in Event
  BY <1>1 DEF IInv, OwnerInv, Event
<1>3. e.status = owner.event
  OBVIOUS
<1> HIDE DEF e
<1>4. /\ lifecycle' \in Seq(Event) /\ Len(lifecycle') = Len(lifecycle) + 1
      /\ \A i \in 1..Len(lifecycle) : lifecycle'[i] = lifecycle[i]
      /\ lifecycle'[Len(lifecycle) + 1] = e
      /\ lifecycle' # << >>
  BY <1>1, <1>2, OwnerTypes, AppendProperties
<1>5. owner' \in Command /\ owner'.pc = "hash"
  BY <1>1, LabelsAre, OwnerTypes, OwnerGoes
<1>6. OwnerInv'
  BY <1>4, <1>5 DEF OwnerInv
<1>7. ServiceInv'
  <2>1. Deactivated' => Deactivated \/ e.status = "DEACTIVATED"
    BY <1>4, OwnerTypes DEF Deactivated
  <2>2. e.status = "DEACTIVATED" => ~loaded /\ ~installed
    BY <1>1, <1>3 DEF IInv, OwnerInv
  <2> QED
    BY <1>1, <2>1, <2>2 DEF IInv, ServiceInv, At, service
<1>8. Len(lifecycle') <= MaxEvents
  BY <1>1, <1>4, OwnerTypes, BoundAssumption
<1> QED
  BY <1>1, <1>4, <1>5, <1>6, <1>7, <1>8, OwnerTypes, OwnerMoves DEF service, RunType

LEMMA HashEventPreserves == ASSUME IInv, HashEvent PROVE IInv'
<1>1. /\ owner.pc = "hash"
      /\ lifecycle' = [lifecycle EXCEPT ![Len(lifecycle)].hashed = TRUE]
      /\ owner' = [IdleOwner EXCEPT !.pc = owner.next]
      /\ UNCHANGED <<clock, service, records, marker, receipts, run, faults>>
  BY DEF HashEvent, OwnerAt
<1>2. lifecycle # << >>
  BY <1>1 DEF IInv, OwnerInv
<1>3. owner' \in Command /\ owner'.pc \in {"idle", "kickstart"}
  BY <1>1, OwnerTypes, LabelsAre DEF IdleOwner, Command
<1>4. Len(lifecycle) \in DOMAIN lifecycle /\ DOMAIN lifecycle = 1..Len(lifecycle)
  BY <1>2, OwnerTypes, EmptySeq
<1>5. \A i \in 1..Len(lifecycle) : lifecycle[i] \in Event
  BY <1>4, OwnerTypes
<1>6. /\ lifecycle' \in Seq(Event) /\ Len(lifecycle') = Len(lifecycle)
      /\ \A i \in 1..Len(lifecycle) : lifecycle'[i].status = lifecycle[i].status
  <2> DEFINE n == Len(lifecycle)
  <2>1. lifecycle' \in [1..n -> Event]
    BY <1>1, <1>4, <1>5 DEF Event
  <2>2. \A i \in 1..n : lifecycle'[i].status = lifecycle[i].status
    BY <1>1, <1>4, <1>5 DEF Event
  <2>3. n \in Nat
    BY OwnerTypes
  <2> HIDE DEF n
  <2>4. lifecycle' \in Seq(Event) /\ Len(lifecycle') = n
    BY <2>1, <2>3, SeqDef
  <2> QED
    BY <2>2, <2>4 DEF n
<1>7. lifecycle' # << >>
  BY <1>4, <1>6, EmptySeq, OwnerTypes
<1>8. OwnerInv'
  BY <1>3 DEF OwnerInv
<1>9. ServiceInv'
  <2>1. Deactivated' => Deactivated
    BY <1>6, OwnerTypes DEF Deactivated
  <2> QED
    BY <1>1, <2>1 DEF IInv, ServiceInv, At, service
<1> QED
  BY <1>1, <1>3, <1>6, <1>7, <1>8, <1>9, OwnerTypes, OwnerMoves DEF service, RunType

LEMMA KickstartPreserves == ASSUME IInv, Kickstart PROVE IInv'
<1>1. /\ owner.pc = "kickstart" /\ OwnerPublishes("ACTIVE", "idle")
      /\ UNCHANGED <<clock, service, evidence, receipts, faults>>
  BY DEF Kickstart, OwnerAt
<1>2. owner' \in Command /\ OwnerInv'
  BY <1>1, PublishesSomething DEF Events
<1>3. CASE CanStart(Scheduled)
  <2>1. Goto(Scheduled, "authorize") /\ loaded
    BY <1>3 DEF Kickstart, CanStart
  <2>2. RunType' /\ \A r \in Run : run'[r] = run[r] \/ run'[r].pc = "authorize"
    BY <2>1, OwnerTypes, ScheduledStarts
  <2>3. ServiceInv'
    BY <1>1, <2>1 DEF IInv, ServiceInv, Deactivated, service, evidence
  <2> QED
    BY <1>1, <1>2, <2>2, <2>3, OwnerTypes, OwnerMoves DEF service, evidence
<1>4. CASE ~CanStart(Scheduled)
  BY <1>1, <1>2, <1>4, OwnerTypes, OwnerMovesOn DEF Kickstart
<1> QED
  BY <1>3, <1>4

LEMMA ActivationFailsPreserves == ASSUME IInv, ActivationFails PROVE IInv'
<1>1. /\ owner.pc \in {"bootstrap", "loaded", "kickstart"} /\ Fault /\ OwnerGoto("bootout")
      /\ UNCHANGED <<clock, installed, evidence, receipts>>
  BY DEF ActivationFails
<1>2. owner' \in Command /\ owner'.pc = "bootout"
  BY <1>1, LabelsAre, OwnerTypes, OwnerGoes
<1>3. OwnerInv' /\ faults' \in 0..MaxFaults
  BY <1>1, <1>2, Faulty DEF OwnerInv
<1>4. CASE UNCHANGED <<loaded, run>>
  BY <1>1, <1>2, <1>3, <1>4, OwnerMovesOn DEF service
<1>5. CASE OwnerAt("bootstrap") /\ loaded' = TRUE /\ UNCHANGED run
  <2>1. lifecycle = << >>
    BY <1>5 DEF IInv, OwnerInv, OwnerAt
  <2>2. ServiceInv'
    BY <1>1, <1>5, <2>1 DEF ServiceInv, Deactivated, evidence
  <2> QED
    BY <1>1, <1>2, <1>3, <1>5, <2>2, OwnerTypes, OwnerMoves DEF evidence, RunType
<1>6. CASE CanStart(Scheduled) /\ Goto(Scheduled, "authorize") /\ UNCHANGED loaded
  <2>1. RunType' /\ \A r \in Run : run'[r] = run[r] \/ run'[r].pc = "authorize"
    BY <1>6, OwnerTypes, ScheduledStarts
  <2>2. ServiceInv'
    BY <1>1, <1>6 DEF IInv, ServiceInv, Deactivated, evidence, CanStart
  <2> QED
    BY <1>1, <1>2, <1>3, <1>6, <2>1, <2>2, OwnerTypes, OwnerMoves DEF evidence
<1> QED
  BY <1>4, <1>5, <1>6 DEF ActivationFails

LEMMA RollBackPreserves == ASSUME IInv, RollBack PROVE IInv'
<1>1. /\ loaded' = FALSE /\ StopScheduled /\ OwnerGoto("absence")
      /\ UNCHANGED <<clock, installed, evidence, receipts, faults>>
  BY DEF RollBack
<1>2. owner' \in Command /\ owner'.pc = "absence"
  BY <1>1, LabelsAre, OwnerTypes, OwnerGoes
<1>3. OwnerInv'
  BY <1>2 DEF OwnerInv
<1>4. /\ RunType' /\ run'[Scheduled].pc = "idle"
      /\ \A r \in Run : run'[r] = run[r] \/ run'[r].pc = "idle"
  BY <1>1, OwnerTypes, ScheduledStops
<1>5. ServiceInv'
  BY <1>1, <1>4 DEF IInv, ServiceInv, At, Deactivated, evidence
<1> QED
  BY <1>1, <1>2, <1>3, <1>4, <1>5, OwnerTypes, OwnerMoves DEF evidence

LEMMA RollBackEndsPreserves ==
  ASSUME IInv, RollBackRemoves \/ RollBackUncertain
  PROVE  IInv'
<1>1. /\ OwnerPublishes("REVIEW_REQUIRED", "idle")
      /\ installed' = installed \/ installed' = FALSE
      /\ UNCHANGED <<clock, loaded, evidence, receipts, run, faults>>
  BY DEF RollBackRemoves, RollBackUncertain, service
<1>2. owner' \in Command /\ OwnerInv'
  BY <1>1, PublishesSomething DEF Events
<1>3. ServiceInv'
  BY <1>1 DEF IInv, ServiceInv, At, Deactivated, evidence
<1> QED
  BY <1>1, <1>2, <1>3, OwnerTypes, OwnerMoves DEF evidence, RunType

LEMMA DeactivatePreserves == ASSUME IInv, Deactivate PROVE IInv'
<1>1. /\ loaded' = FALSE /\ OwnerGoto("remove")
      /\ IF loaded THEN StopScheduled ELSE UNCHANGED run
      /\ UNCHANGED <<clock, installed, evidence, receipts, faults>>
  BY DEF Deactivate
<1>2. owner' \in Command /\ owner'.pc = "remove"
  BY <1>1, LabelsAre, OwnerTypes, OwnerGoes
<1>3. OwnerInv'
  BY <1>2 DEF OwnerInv
<1>4. /\ RunType' /\ run'[Scheduled].pc = "idle"
      /\ \A r \in Run : run'[r] = run[r] \/ run'[r].pc = "idle"
  <2>1. CASE loaded
    BY <1>1, <2>1, OwnerTypes, ScheduledStops
  <2>2. CASE ~loaded
    BY <1>1, <2>2, OwnerTypes DEF IInv, ServiceInv, At, RunType
  <2> QED
    BY <2>1, <2>2
<1>5. ServiceInv'
  BY <1>1, <1>4 DEF IInv, ServiceInv, At, Deactivated, evidence
<1> QED
  BY <1>1, <1>2, <1>3, <1>4, <1>5, OwnerTypes, OwnerMoves DEF evidence

LEMMA RemovePlistPreserves == ASSUME IInv, RemovePlist PROVE IInv'
<1>1. /\ ~loaded /\ installed' = FALSE /\ OwnerPublishes("DEACTIVATED", "idle")
      /\ UNCHANGED <<clock, loaded, evidence, receipts, run, faults>>
  BY DEF RemovePlist
<1>2. owner' \in Command /\ owner'.pc = "event" /\ owner'.event = "DEACTIVATED"
  BY <1>1, Publishes DEF Events
<1>3. OwnerInv' /\ ServiceInv'
  BY <1>1, <1>2 DEF IInv, OwnerInv, ServiceInv, At, Deactivated, evidence, Events
<1> QED
  BY <1>1, <1>2, <1>3, OwnerTypes, OwnerMoves DEF evidence, RunType

(* The command ends, is refused or is killed. *)
LEMMA OwnerEndsPreserves ==
  ASSUME IInv, DeactivationStops \/ KillOwner
  PROVE  IInv'
<1>1. owner' = IdleOwner /\ UNCHANGED <<clock, service, evidence, receipts, run>>
  BY DEF DeactivationStops, KillOwner
<1>2. faults' \in 0..MaxFaults
  BY Faulty, OwnerTypes DEF DeactivationStops, KillOwner
<1>3. owner' \in Command /\ OwnerInv'
  BY <1>1, IdleTypes DEF OwnerInv
<1> QED
  BY <1>1, <1>2, <1>3, OwnerMovesOn

LEMMA RebootPreserves == ASSUME IInv, Reboot PROVE IInv'
<1>1. /\ loaded' = installed /\ run' = [r \in Run |-> IdleRun] /\ owner' = IdleOwner
      /\ UNCHANGED <<clock, installed, evidence, receipts>>
  BY DEF Reboot
<1>2. faults' \in 0..MaxFaults
  BY Faulty DEF Reboot
<1>3. owner' \in Command /\ OwnerInv'
  BY <1>1, IdleTypes DEF OwnerInv
<1>4. RunType' /\ \A r \in Run : run'[r].pc = "idle"
  BY <1>1, IdleTypes DEF RunType
<1>5. ServiceInv'
  BY <1>1, <1>4, RunAssumption DEF IInv, ServiceInv, At, Deactivated, evidence
<1> QED
  BY <1>1, <1>2, <1>3, <1>4, <1>5, OwnerTypes, OwnerMoves DEF evidence

LEMMA WorldPreserves ==
  ASSUME IInv, EngineAccepts \/ Tick \/ ClockMovesBack
  PROVE  IInv'
<1>1. UNCHANGED <<service, evidence, run, owner>>
  BY DEF EngineAccepts, Tick, ClockMovesBack
<1>2. OwnerInv' /\ ServiceInv' /\ RunType'
  BY <1>1, OwnerTypes
     DEF IInv, OwnerInv, ServiceInv, RunType, At, Deactivated, service, evidence
<1>3. CASE EngineAccepts
  <2>1. /\ receipts' \in Receipts /\ (receipts = "evaluated" => receipts' = "evaluated")
        /\ receipts' # "none" /\ UNCHANGED <<clock, faults>>
    BY <1>3 DEF EngineAccepts, Successors, Receipts, IInv, TypeOK
  <2>2. TypeOK'
    BY <1>1, <2>1 DEF IInv, TypeOK, service, evidence
  <2>3. MarkerInv' /\ \A r \in Run : RunInv(r)'
    BY <1>1, <2>1 DEF IInv, MarkerInv, RunInv, Proven, Whole, Torn, evidence
  <2>4. QuietInv'
    BY <1>1 DEF IInv, QuietInv, evidence
  <2> QED
    BY <1>2, <2>2, <2>3, <2>4 DEF IInv
<1>4. CASE Tick
  <2>1. clock' \in 0..MaxTime /\ UNCHANGED <<receipts, faults>>
    BY <1>4, OwnerTypes, WindowAssumption DEF Tick
  <2> QED
    BY <1>1, <1>2, <2>1, OwnerTypes, OwnerMoves DEF service, evidence, RunType
<1>5. CASE ClockMovesBack
  <2>1. clock' \in 0..MaxTime /\ faults' \in 0..MaxFaults /\ UNCHANGED receipts
    BY <1>5, Faulty DEF ClockMovesBack
  <2> QED
    BY <1>1, <1>2, <2>1, OwnerTypes, OwnerMoves DEF service, evidence, RunType
<1> QED
  BY <1>3, <1>4, <1>5

-----------------------------------------------------------------------------
(* The theorems *)

LEMMA Preserved == IInv /\ [Next]_vars => IInv'
<1> SUFFICES ASSUME IInv, [Next]_vars PROVE IInv'
  OBVIOUS
<1>1. ASSUME NEW r \in Run, StartRun(r) \/ RunStep(r) \/ PreflightFails(r) \/ KillRun(r)
      PROVE  IInv'
  BY <1>1, AuthorizePreserves, ReadRecordsPreserves, EndWithoutCallPreserves,
     EngineReturnsPreserves,
     PublishRecordPreserves, HashRecordPreserves, PublishMarkerPreserves, HashMarkerPreserves
     DEF RunStep
<1>2. ASSUME OwnerStep PROVE IInv'
  BY <1>2, BootstrapPreserves, VerifyLoadedPreserves, PublishEventPreserves,
     HashEventPreserves, KickstartPreserves, RollBackPreserves, RollBackEndsPreserves,
     RemovePlistPreserves DEF OwnerStep
<1>3. ASSUME \/ EngineAccepts \/ Activate \/ Deactivate \/ ActivationFails
             \/ RollBackUncertain \/ DeactivationStops \/ KillOwner \/ Reboot
             \/ Tick \/ ClockMovesBack
      PROVE  IInv'
  BY <1>3, ActivatePreserves, DeactivatePreserves, ActivationFailsPreserves,
     RollBackEndsPreserves, OwnerEndsPreserves, RebootPreserves, WorldPreserves
<1>4. CASE UNCHANGED vars
  <2>1. UNCHANGED <<clock, service, evidence, receipts, run, owner, faults>>
    BY <1>4 DEF vars
  <2>2. OwnerInv'
    BY <2>1 DEF IInv, OwnerInv, service, evidence
  <2> QED
    BY <2>1, <2>2, OwnerTypes, OwnerMovesOn
<1> QED
  BY <1>1, <1>2, <1>3, <1>4 DEF Next

(* The inductive invariant: what each run has established at every label, what
   the marker repeats, and in which order the owner's command removes the
   service and records it (execute_once, activate, deactivate). *)
THEOREM Invariance == Spec => []IInv
  BY Start, Preserved, PTL DEF Spec

(* Every variable has its type, for any window and any number of runs. *)
THEOREM TypeCorrect == Spec => []TypeOK
<1>1. IInv => TypeOK
  BY DEF IInv
<1> QED
  BY <1>1, Invariance, PTL

(* The terminal marker repeats a whole record of a run whose success the
   receipts prove, however many runs overlap, are killed, or see the clock go
   back (publish_terminal). *)
THEOREM MarkerHonesty == Spec => []MarkerHonest
<1>1. IInv => MarkerHonest
  BY DEF IInv, MarkerInv, MarkerHonest, Proven
<1> QED
  BY <1>1, Invariance, PTL

(* Once a deactivation is recorded, launchd has no job and will not get one at
   the next login (deactivate). *)
THEOREM DeactivationQuiet == Spec => []DeactivatedIsQuiet
<1>1. IInv => DeactivatedIsQuiet
  BY DEF IInv, ServiceInv, DeactivatedIsQuiet
<1> QED
  BY <1>1, Invariance, PTL

(* A schedule that reports NOT_ACTIVATED has called no engine (schedule_status). *)
THEOREM NotActivatedInert == Spec => []NotActivatedIsInert
<1>1. "NOT_ACTIVATED" \in Statuses => lifecycle = << >>
  BY DEF Statuses, Progress, Active
<1>2. IInv => NotActivatedIsInert
  BY <1>1 DEF IInv, QuietInv, NotActivatedIsInert, At
<1> QED
  BY <1>2, Invariance, PTL

LEMMA MarkerStep ==
  ASSUME IInv, Next
  PROVE  marker # None => marker' # None /\ marker'.record = marker.record
<1>1. ASSUME NEW r \in Run, PublishMarker(r) \/ HashMarker(r)
      PROVE  marker # None => marker' # None /\ marker'.record = marker.record
  BY <1>1, PublishMarkerPreserves, HashMarkerPreserves
<1>2. ASSUME NEW r \in Run,
             \/ StartRun(r) \/ PreflightFails(r) \/ KillRun(r) \/ CheckAuthorization(r)
             \/ ReadRecords(r) \/ EndWithoutCall(r) \/ EngineReturns(r)
             \/ PublishRecord(r) \/ HashRecord(r)
      PROVE  marker' = marker
  BY <1>2 DEF StartRun, PreflightFails, KillRun, CheckAuthorization, ReadRecords,
              EndWithoutCall, EngineReturns, PublishRecord, HashRecord, evidence
<1>3. ASSUME OwnerStep PROVE marker' = marker
  BY <1>3 DEF OwnerStep, Bootstrap, VerifyLoaded, PublishEvent, HashEvent, Kickstart,
              RollBack, RollBackRemoves, RemovePlist, evidence
<1>4. ASSUME \/ EngineAccepts \/ Activate \/ Deactivate \/ ActivationFails
             \/ RollBackUncertain \/ DeactivationStops \/ KillOwner \/ Reboot
             \/ Tick \/ ClockMovesBack
      PROVE  marker' = marker
  BY <1>4 DEF EngineAccepts, Activate, Deactivate, ActivationFails, RollBackUncertain,
              DeactivationStops, KillOwner, Reboot, Tick, ClockMovesBack, evidence
<1> QED
  BY <1>1, <1>2, <1>3, <1>4 DEF Next, RunStep

(* The first terminal marker stays, whatever overlapping runs conclude
   (publish_terminal refuses to overwrite). *)
THEOREM MarkerStays == Spec => FirstMarkerStays
<1>1. IInv /\ [Next]_vars =>
        [marker # None => marker' # None /\ marker'.record = marker.record]_vars
  BY MarkerStep
<1> QED
  BY <1>1, Invariance, PTL DEF Spec, FirstMarkerStays
=============================================================================
