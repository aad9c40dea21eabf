------------------------- MODULE ProductionSchedule -------------------------
(***************************************************************************)
(* One prepared production schedule for the completion monitor             *)
(* (src/scripts/completion_monitor_production_schedule.py).                *)
(*                                                                         *)
(* launchd starts the scheduled run of "execute_once" while the label is   *)
(* loaded; the owner may also start "run" by hand, and activates or        *)
(* deactivates the schedule.  All evidence is published as a pair of       *)
(* files, the record and then its .sha256, without overwriting: a record   *)
(* whose hash is not (yet) there is rejected by everybody who reads it.    *)
(*                                                                         *)
(* The engine (CompletionMonitor) appears through the receipts it accepts  *)
(* and the outcome it returns, as EngineContract states them.              *)
(***************************************************************************)
EXTENDS Integers, Sequences, EngineContract

CONSTANTS Run,            \* places where a run can execute
          Scheduled,      \* the one of them that launchd starts
          None,
          HasPrediction,  \* the plan names a frozen prediction to evaluate
          NotBefore, Expires, \* the plan's window, against the local clock
          MaxTime,        \* bound on the local clock
          MaxEvents,      \* bound on lifecycle events
          MaxFaults       \* bound on kills, clock rollbacks, failed commands

ASSUME RunAssumption    == Scheduled \in Run /\ None \notin Run
ASSUME WindowAssumption == /\ NotBefore \in Nat /\ Expires \in Nat /\ MaxTime \in Nat
                           /\ NotBefore < Expires /\ Expires <= MaxTime
ASSUME BoundAssumption  == /\ MaxEvents \in Nat /\ MaxFaults \in Nat
                           /\ HasPrediction \in BOOLEAN

VARIABLES
  clock,      \* the local system clock
  installed,  \* the reviewed plist is in the LaunchAgents directory
  loaded,     \* launchd knows the label
  lifecycle,  \* lifecycle-events/, in the order of publication
  records,    \* scheduler-invocations/
  marker,     \* the terminal marker, or None
  receipts,   \* what the engine has accepted for the target
  run,        \* local state of each run
  owner,      \* the owner's activate or deactivate command
  faults

evidence == <<lifecycle, records, marker>>
service  == <<installed, loaded>>
vars     == <<clock, service, evidence, receipts, run, owner, faults>>

-----------------------------------------------------------------------------
(* Values *)

Active   == {"ACTIVE_NOT_YET_DUE", "ACTIVE_WAITING", "ACTIVE_RETRYABLE"}
Terminal == {"TERMINAL_REALIZED_COMPLETE", "TERMINAL_COMPLETE", "TERMINAL_REVIEW_REQUIRED"}
Events   == {"ACTIVE", "DEACTIVATED", "REVIEW_REQUIRED"}

(* hashed: the .sha256 file of the pair is there, too.  An invocation record
   without it is torn, and names the run that was writing it; of whole records
   with the same status and start one is as good as many. *)
Record == [status : Active \cup Terminal, start : 0..MaxTime, torn : Run \cup {None}]
Event  == [status : Events, hashed : BOOLEAN]
Marker == [record : Record, hashed : BOOLEAN]

(* "None" is no marker. *)
ASSUME AbsentAssumption == None \notin Marker

RunLabels == {"idle", "authorize", "records", "decided", "engine", "publish",
              "hash", "terminal", "terminalhash"}
Local     == [pc : RunLabels, start : 0..MaxTime,
              status : Active \cup Terminal \cup {None}]
IdleRun   == [pc |-> "idle", start |-> 0, status |-> None]

OwnerLabels == {"idle", "bootstrap", "loaded", "event", "hash", "kickstart",
                "bootout", "absence", "remove"}
Command     == [pc : OwnerLabels, event : Events \cup {None},
                next : {"idle", "kickstart"}]
IdleOwner   == [pc |-> "idle", event |-> None, next |-> "idle"]

TypeOK ==
  /\ clock \in 0..MaxTime
  /\ installed \in BOOLEAN /\ loaded \in BOOLEAN
  /\ lifecycle \in Seq(Event) /\ Len(lifecycle) <= MaxEvents
  /\ records \subseteq Record
  /\ marker \in Marker \cup {None}
  /\ receipts \in Receipts
  /\ run \in [Run -> Local]
  /\ owner \in Command
  /\ faults \in 0..MaxFaults

Init ==
  /\ clock = 0
  /\ installed = FALSE /\ loaded = FALSE
  /\ lifecycle = << >> /\ records = {} /\ marker = None
  /\ receipts = "none"
  /\ run = [r \in Run |-> IdleRun]
  /\ owner = IdleOwner
  /\ faults = 0

At(r, l)   == run[r].pc = l
Goto(r, l) == run' = [run EXCEPT ![r].pc = l]
Stop(r)    == run' = [run EXCEPT ![r] = IdleRun]

Fault == faults < MaxFaults /\ faults' = faults + 1

-----------------------------------------------------------------------------
(* execute_once *)

(* A run that finds a terminal marker, or half of one, stops at once, being
   quiescent or refused: only one that finds none gets anywhere. *)
CanStart(r) == At(r, "idle") /\ (r = Scheduled => loaded) /\ marker = None

StartRun(r) ==
  /\ CanStart(r)
  /\ Goto(r, "authorize")
  /\ UNCHANGED <<clock, service, evidence, receipts, owner, faults>>

(* full_preflight: the plan, runtime, repository and plist are checked. *)
PreflightFails(r) ==
  /\ At(r, "authorize")
  /\ Fault
  /\ Stop(r)
  /\ UNCHANGED <<clock, service, evidence, receipts, owner>>

(* Mutant: the installed plist is authorization enough. *)
InstalledIsEnough == installed

(* validate_active_authorization: there are lifecycle events, all of them say
   ACTIVE, and the reviewed plist is installed. *)
Authorized ==
  /\ lifecycle # << >> /\ installed
  /\ \A i \in DOMAIN lifecycle : lifecycle[i] = [status |-> "ACTIVE", hashed |-> TRUE]

CheckAuthorization(r) ==
  /\ At(r, "authorize")
  /\ IF Authorized THEN Goto(r, "records") ELSE Stop(r)
  /\ UNCHANGED <<clock, service, evidence, receipts, owner, faults>>

(* The earlier records must all be whole and none of them may have started
   later than now. *)
Credible == \A c \in records : c.torn = None /\ c.start <= clock

(* Mutant: an expired plan still calls the engine. *)
DecideWithoutExpiry(now) ==
  IF now < NotBefore THEN "ACTIVE_NOT_YET_DUE" ELSE None

(* Decide on the clock: too early, too late, or call the engine. *)
Decide(now) ==
  CASE now < NotBefore -> "ACTIVE_NOT_YET_DUE"
    [] now >= Expires  -> "TERMINAL_REVIEW_REQUIRED"
    [] OTHER           -> None

ReadRecords(r) ==
  /\ At(r, "records")
  /\ run' = [run EXCEPT ![r] =
       IF ~Credible THEN IdleRun
       ELSE [pc     |-> IF Decide(clock) = None THEN "engine" ELSE "decided",
             start  |-> clock,
             status |-> Decide(clock)]]
  /\ UNCHANGED <<clock, service, evidence, receipts, owner, faults>>

(* The clock is read again; if it went back meanwhile the result is a review. *)
Ending(r, status) ==
  IF clock < run[r].start THEN "TERMINAL_REVIEW_REQUIRED" ELSE status

(* A run outside the window ends without a call. *)
EndWithoutCall(r) ==
  /\ At(r, "decided")
  /\ run' = [run EXCEPT ![r].pc = "publish", ![r].status = Ending(r, run[r].status)]
  /\ UNCHANGED <<clock, service, evidence, receipts, owner, faults>>

(* The engine accepts a realized snapshot and then its evaluation, during a
   run of this schedule or a monitor-completion that somebody else started. *)
EngineAccepts ==
  /\ receipts' \in Successors(receipts)
  /\ UNCHANGED <<clock, service, evidence, run, owner, faults>>

(* Mutant: the outcome is recorded as it comes. *)
Unmapped(outcome) == outcome

(* Mutant: every outcome that is not a review counts as success. *)
AnySuccess(outcome) ==
  CASE outcome \in {"locked", "retryable"}       -> "ACTIVE_RETRYABLE"
    [] outcome = "WAITING"                       -> "ACTIVE_WAITING"
    [] outcome \in {"REALIZED_COMPLETE", "COMPLETE"} ->
         IF HasPrediction THEN "TERMINAL_COMPLETE" ELSE "TERMINAL_REALIZED_COMPLETE"
    [] OTHER                                     -> "TERMINAL_REVIEW_REQUIRED"

(* outcome_mapping *)
Mapped(outcome) ==
  CASE outcome \in {"locked", "retryable"}                -> "ACTIVE_RETRYABLE"
    [] outcome = "WAITING"                                -> "ACTIVE_WAITING"
    [] outcome = "REALIZED_COMPLETE" /\ ~HasPrediction    -> "TERMINAL_REALIZED_COMPLETE"
    [] outcome = "COMPLETE" /\ HasPrediction              -> "TERMINAL_COMPLETE"
    [] OTHER                                              -> "TERMINAL_REVIEW_REQUIRED"

(* The outcome is one that EngineContract allows; that it fits the plan is for the
   controller to see. *)
EngineReturns(r) ==
  /\ At(r, "engine")
  /\ \E outcome \in Possible(receipts) :
       run' = [run EXCEPT ![r].pc = "publish",
                          ![r].status = Ending(r, Mapped(outcome))]
  /\ UNCHANGED <<clock, service, evidence, receipts, owner, faults>>

(* The record a run writes, and the same record once its hash is there. *)
Torn(r)  == [status |-> run[r].status, start |-> run[r].start, torn |-> r]
Whole(r) == [Torn(r) EXCEPT !.torn = None]

(* publish_invocation: the record, and then its hash. *)
PublishRecord(r) ==
  /\ At(r, "publish")
  /\ records' = records \cup {Torn(r)}
  /\ Goto(r, "hash")
  /\ UNCHANGED <<clock, service, lifecycle, marker, receipts, owner, faults>>

HashRecord(r) ==
  /\ At(r, "hash")
  /\ records' = (records \ {Torn(r)}) \cup {Whole(r)}
  /\ IF run[r].status \in Terminal THEN Goto(r, "terminal") ELSE Stop(r)
  /\ UNCHANGED <<clock, service, lifecycle, marker, receipts, owner, faults>>

(* Mutant: a later terminal result replaces the marker. *)
ReplaceMarker(r) ==
  /\ At(r, "terminal")
  /\ marker' = [record |-> Whole(r), hashed |-> FALSE]
  /\ Goto(r, "terminalhash")
  /\ UNCHANGED <<clock, service, lifecycle, records, receipts, owner, faults>>

(* publish_terminal: refused if there is a marker by now. *)
PublishMarker(r) ==
  /\ At(r, "terminal")
  /\ IF marker = None
       THEN marker' = [record |-> Whole(r), hashed |-> FALSE] /\ Goto(r, "terminalhash")
       ELSE Stop(r) /\ UNCHANGED marker
  /\ UNCHANGED <<clock, service, lifecycle, records, receipts, owner, faults>>

HashMarker(r) ==
  /\ At(r, "terminalhash")
  /\ marker' = [marker EXCEPT !.hashed = TRUE]
  /\ Stop(r)
  /\ UNCHANGED <<clock, service, lifecycle, records, receipts, owner, faults>>

KillRun(r) ==
  /\ ~At(r, "idle")
  /\ Fault
  /\ Stop(r)
  /\ UNCHANGED <<clock, service, evidence, receipts, owner>>

-----------------------------------------------------------------------------
(* activate *)

OwnerAt(l)   == owner.pc = l
OwnerGoto(l) == owner' = [owner EXCEPT !.pc = l]

(* The command publishes a lifecycle event and goes on at next. *)
OwnerPublishes(event, next) == owner' = [pc |-> "event", event |-> event, next |-> next]

(* launchctl stops the job that launchd started, not one started by hand. *)
StopScheduled == run' = [run EXCEPT ![Scheduled] = IdleRun]

(* All of it is checked, then the plist is published.  Refusals change nothing. *)
Activate ==
  /\ OwnerAt("idle")
  /\ marker = None /\ records = {} /\ lifecycle = << >>
  /\ ~installed /\ ~loaded /\ clock < Expires
  /\ installed' = TRUE
  /\ OwnerGoto("bootstrap")
  /\ UNCHANGED <<clock, loaded, evidence, receipts, run, faults>>

Bootstrap ==
  /\ OwnerAt("bootstrap")
  /\ loaded' = TRUE
  /\ OwnerGoto("loaded")
  /\ UNCHANGED <<clock, installed, evidence, receipts, run, faults>>

VerifyLoaded ==
  /\ OwnerAt("loaded")
  /\ OwnerPublishes("ACTIVE", "kickstart")
  /\ UNCHANGED <<clock, service, evidence, receipts, run, faults>>

(* publish_lifecycle *)
PublishEvent ==
  /\ OwnerAt("event")
  /\ Len(lifecycle) < MaxEvents
  /\ lifecycle' = Append(lifecycle, [status |-> owner.event, hashed |-> FALSE])
  /\ OwnerGoto("hash")
  /\ UNCHANGED <<clock, service, records, marker, receipts, run, faults>>

HashEvent ==
  /\ OwnerAt("hash")
  /\ lifecycle' = [lifecycle EXCEPT ![Len(lifecycle)].hashed = TRUE]
  /\ owner' = [IdleOwner EXCEPT !.pc = owner.next]
  /\ UNCHANGED <<clock, service, records, marker, receipts, run, faults>>

(* The first run starts at once and overlaps the second activation event. *)
Kickstart ==
  /\ OwnerAt("kickstart")
  /\ IF CanStart(Scheduled) THEN Goto(Scheduled, "authorize") ELSE UNCHANGED run
  /\ OwnerPublishes("ACTIVE", "idle")
  /\ UNCHANGED <<clock, service, evidence, receipts, faults>>

(* A launchctl command fails or times out, with or without its effect. *)
ActivationFails ==
  /\ owner.pc \in {"bootstrap", "loaded", "kickstart"}
  /\ Fault
  /\ \/ UNCHANGED <<loaded, run>>
     \/ OwnerAt("bootstrap") /\ loaded' = TRUE /\ UNCHANGED run
     \/ OwnerAt("kickstart") /\ CanStart(Scheduled) /\ Goto(Scheduled, "authorize")
          /\ UNCHANGED loaded
  /\ OwnerGoto("bootout")
  /\ UNCHANGED <<clock, installed, evidence, receipts>>

(* The rollback: bootout, verify that the label is gone, remove the plist. *)
RollBack ==
  /\ OwnerAt("bootout")
  /\ loaded' = FALSE
  /\ StopScheduled
  /\ OwnerGoto("absence")
  /\ UNCHANGED <<clock, installed, evidence, receipts, faults>>

RollBackRemoves ==
  /\ OwnerAt("absence")
  /\ ~loaded
  /\ installed' = FALSE
  /\ OwnerPublishes("REVIEW_REQUIRED", "idle")
  /\ UNCHANGED <<clock, loaded, evidence, receipts, run, faults>>

(* What made the activation fail makes its rollback fail, too: the label is
   not gone, and the plist stays. *)
RollBackUncertain ==
  /\ owner.pc \in {"bootout", "absence"}
  /\ OwnerPublishes("REVIEW_REQUIRED", "idle")
  /\ UNCHANGED <<clock, service, evidence, receipts, run, faults>>

-----------------------------------------------------------------------------
(* deactivate *)

Deactivate ==
  /\ OwnerAt("idle") /\ Len(lifecycle) < MaxEvents
  /\ loaded' = FALSE
  /\ IF loaded THEN StopScheduled ELSE UNCHANGED run
  /\ OwnerGoto("remove")
  /\ UNCHANGED <<clock, installed, evidence, receipts, faults>>

(* Without the flag an installed plist is not removed, and nothing recorded;
   so if absence cannot be verified. *)
DeactivationStops ==
  /\ OwnerAt("remove")
  /\ owner' = IdleOwner
  /\ UNCHANGED <<clock, service, evidence, receipts, run, faults>>

(* Mutant: the event is recorded although the plist stays. *)
KeepPlist ==
  /\ OwnerAt("remove")
  /\ ~loaded
  /\ OwnerPublishes("DEACTIVATED", "idle")
  /\ UNCHANGED <<clock, service, evidence, receipts, run, faults>>

RemovePlist ==
  /\ OwnerAt("remove")
  /\ ~loaded
  /\ installed' = FALSE
  /\ OwnerPublishes("DEACTIVATED", "idle")
  /\ UNCHANGED <<clock, loaded, evidence, receipts, run, faults>>

-----------------------------------------------------------------------------
(* The world outside *)

KillOwner ==
  /\ ~OwnerAt("idle")
  /\ Fault
  /\ owner' = IdleOwner
  /\ UNCHANGED <<clock, service, evidence, receipts, run>>

(* Nothing survives; launchd loads what is installed at the next login. *)
Reboot ==
  /\ Fault
  /\ loaded' = installed
  /\ run' = [r \in Run |-> IdleRun]
  /\ owner' = IdleOwner
  /\ UNCHANGED <<clock, installed, evidence, receipts>>

Tick ==
  /\ clock < MaxTime
  /\ clock' = clock + 1
  /\ UNCHANGED <<service, evidence, receipts, run, owner, faults>>

ClockMovesBack ==
  /\ Fault
  /\ \E t \in 0..MaxTime : t < clock /\ clock' = t
  /\ UNCHANGED <<service, evidence, receipts, run, owner>>

-----------------------------------------------------------------------------
(* schedule_status *)

Deactivated ==
  \E i \in DOMAIN lifecycle : lifecycle[i].status = "DEACTIVATED"
Readable    ==
  /\ \A c \in records : c.torn = None
  /\ \A i \in DOMAIN lifecycle : lifecycle[i].hashed
  /\ marker # None => marker.hashed
Revoked     == \E i \in DOMAIN lifecycle : lifecycle[i].status # "ACTIVE"

(* Starts within one tick are not told apart: any of the last may be the latest. *)
Latest == {c \in records : \A d \in records : d.start <= c.start}

(* An active schedule reports its latest record, before the first one whether it
   is due. *)
Progress ==
  IF records = {} THEN {IF clock < NotBefore THEN "ACTIVE_NOT_YET_DUE" ELSE "REVIEW_REQUIRED"}
  ELSE {IF c.status \in Active THEN c.status ELSE "REVIEW_REQUIRED" : c \in Latest}

(* What schedule_status may return; on evidence it cannot read it raises. *)
Statuses ==
  CASE ~Readable -> {}
    [] Readable /\ ~loaded /\ ~installed /\ Deactivated -> {"DEACTIVATED"}
    [] Readable /\ ~loaded /\ ~installed /\ marker = None /\ lifecycle = << >> ->
         {"NOT_ACTIVATED"}
    [] Readable /\ loaded /\ installed /\ lifecycle # << >> /\ ~Revoked ->
         IF marker # None THEN {"TERMINAL_QUIESCENT"} ELSE Progress
    [] OTHER -> {"REVIEW_REQUIRED"}

-----------------------------------------------------------------------------

RunStep(r) == \/ CheckAuthorization(r) \/ ReadRecords(r) \/ EndWithoutCall(r)
              \/ EngineReturns(r) \/ PublishRecord(r) \/ HashRecord(r)
              \/ PublishMarker(r) \/ HashMarker(r)

OwnerStep == \/ Bootstrap \/ VerifyLoaded \/ PublishEvent \/ HashEvent \/ Kickstart
             \/ RollBack \/ RollBackRemoves \/ RemovePlist

Next == \/ \E r \in Run : \/ StartRun(r) \/ RunStep(r)
                          \/ PreflightFails(r) \/ KillRun(r)
        \/ EngineAccepts
        \/ Activate \/ Deactivate \/ OwnerStep
        \/ ActivationFails \/ RollBackUncertain \/ DeactivationStops
        \/ KillOwner \/ Reboot \/ Tick \/ ClockMovesBack

Spec == Init /\ [][Next]_vars

(* Fairness.  launchd keeps starting the loaded job, a run that is not killed
   goes on, time passes.  Nothing is asked of the owner's commands. *)
Fairness ==
  /\ WF_vars(StartRun(Scheduled)) /\ WF_vars(Tick)
  /\ \A r \in Run : WF_vars(RunStep(r))

FairSpec == Spec /\ Fairness

-----------------------------------------------------------------------------
(* Safety *)

(* The terminal marker repeats a whole invocation record, and a success it
   reports is one that the engine's receipts prove. *)
MarkerHonest ==
  marker # None =>
    /\ marker.record \in records
    /\ marker.record.status = "TERMINAL_COMPLETE" => receipts = "evaluated"
    /\ marker.record.status = "TERMINAL_REALIZED_COMPLETE" => receipts # "none"

(* Whatever two overlapping runs conclude, the first marker stays. *)
FirstMarkerStays ==
  [][marker # None => marker' # None /\ marker'.record = marker.record]_vars

(* After a recorded deactivation launchd has no job, nor will it load one at
   the next login: the service is gone and none of its runs is left. *)
DeactivatedIsQuiet ==
  Deactivated => ~loaded /\ ~installed /\ At(Scheduled, "idle")

(* A schedule whose status is NOT_ACTIVATED has never called the engine, even
   if its activation was tried and rolled back, or "run" was started by hand. *)
NotActivatedIsInert ==
  "NOT_ACTIVATED" \in Statuses =>
    records = {} /\ \A r \in Run : ~At(r, "engine")

-----------------------------------------------------------------------------
(* Liveness *)

(* A run died between a record and its hash. *)
Damaged == \E c \in records : c.torn # None /\ ~At(c.torn, "hash")

(* An unattended schedule comes to an end within its window: with a marker,
   or because the owner or damaged evidence stops it. *)
Concludes ==
  (loaded /\ Authorized) ~> (marker # None \/ ~loaded \/ ~Authorized \/ Damaged)

(* What the documentation says of a crash "after Task028B terminal result but
   before marker": the next invocation calls the engine again and the marker
   is published. *)
CrashIsReentered ==
  (\E r \in Run : At(r, "hash") /\ run[r].status \in Terminal /\ run[r].start < Expires)
    ~> (marker # None \/ ~loaded \/ ~Authorized)
=============================================================================
