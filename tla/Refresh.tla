------------------------------ MODULE Refresh ------------------------------
(***************************************************************************)
(* One official-data snapshot: its creation by refresh_fpl_data, and any   *)
(* number of explicit resumes (src/src/fpl_decision_engine/refresh.py and  *)
(* official_data.py).                                                      *)
(*                                                                         *)
(* The snapshot is a directory of files.  Each file appears in a step of   *)
(* its own, since a kill between two of them is what a resume must cope    *)
(* with.  Contents are abstracted to what the code decides on: a response  *)
(* is good or bad, a manifest has a status and the responses it records.   *)
(***************************************************************************)
EXTENDS Naturals, FiniteSets

CONSTANTS Proc,            \* processes that may work on the snapshot
          Player,          \* players of the bootstrap, frozen with it
          None,            \* no file, no lock owner
          MaxFaults        \* bound on kills, interrupts and damaged files

ASSUME RefreshAssumption ==
  /\ None \notin Proc /\ MaxFaults \in Nat
  /\ None \notin {"in_progress", "incomplete", "complete"}
  /\ None \notin [status : {None, "in_progress", "incomplete", "partial", "complete"},
                   responses : SUBSET Player]

VARIABLES
  lock,       \* .refresh.lock
  bootstrap,  \* bootstrap-static.json is published
  manifest,   \* status in refresh.manifest.json
  fixtures,   \* fixtures.json and fixtures.manifest.json
  history,    \* player_history: None, or its manifest status and responses
  files,      \* the response file of each player
  clean,      \* transformed outputs that exist
  pc,         \* control point of each process
  todo,       \* missing_ids still to be requested
  done,       \* the process's copy of manifest["responses"]
  mutable,    \* manifest_mutable: a failure may mark the manifest
  faults,     \* kills, interrupts and damage so far
  fetched,    \* history: how often each response was downloaded
  damaged     \* history: players whose response was damaged outside

disk    == <<bootstrap, manifest, fixtures, history, files, clean>>
local   == <<todo, done, mutable>>
ghosts  == <<fetched, damaged>>
vars    == <<lock, disk, pc, local, faults, ghosts>>

Labels == {"idle", "bootstrap", "newlock", "resumelock", "load", "save", "fixtures",
           "fixturesmanifest", "history", "historymanifest", "recover", "fetch",
           "record", "savehistory", "transform", "return", "fail", "unlock"}

Running   == {"in_progress", "incomplete", "partial"}
Outputs   == {"players", "fixtures", "history"}
FileState == {"absent", "good", "bad"}

TypeOK ==
  /\ lock \in Proc \cup {None}
  /\ bootstrap \in BOOLEAN
  /\ manifest \in {None, "in_progress", "incomplete", "complete"}
  /\ fixtures \in {"absent", "response", "complete"}
  /\ history \in {None} \cup [status : {None, "complete"} \cup Running,
                              responses : SUBSET Player]
  /\ files \in [Player -> FileState]
  /\ clean \subseteq Outputs
  /\ pc \in [Proc -> Labels]
  /\ todo \in [Proc -> SUBSET Player]
  /\ done \in [Proc -> SUBSET Player]
  /\ mutable \in [Proc -> BOOLEAN]
  /\ faults \in 0..MaxFaults
  /\ fetched \in [Player -> 0..2]
  /\ damaged \subseteq Player

Init ==
  /\ lock = None
  /\ bootstrap = FALSE
  /\ manifest = None
  /\ fixtures = "absent"
  /\ history = None
  /\ files = [x \in Player |-> "absent"]
  /\ clean = {}
  /\ pc = [p \in Proc |-> "idle"]
  /\ todo = [p \in Proc |-> {}]
  /\ done = [p \in Proc |-> {}]
  /\ mutable = [p \in Proc |-> FALSE]
  /\ faults = 0
  /\ fetched = [x \in Player |-> 0]
  /\ damaged = {}

At(p, l)   == pc[p] = l
Goto(p, l) == pc' = [pc EXCEPT ![p] = l]

Holding(p) == pc[p] \notin {"idle", "bootstrap", "newlock", "resumelock"}

(* The process forgets its local variables when it ends. *)
Forget(p) ==
  /\ todo' = [todo EXCEPT ![p] = {}]
  /\ done' = [done EXCEPT ![p] = {}]
  /\ mutable' = [mutable EXCEPT ![p] = FALSE]

-----------------------------------------------------------------------------
(* Creation and resume, up to the lock *)

(* The only creation: directory names are fresh timestamps. *)
StartNew(p) ==
  /\ At(p, "idle")
  /\ ~bootstrap /\ \A q \in Proc : At(q, "idle")
  /\ Goto(p, "bootstrap")
  /\ UNCHANGED <<lock, disk, local, faults, ghosts>>

(* fetch_bootstrap_static publishes the response atomically, or raises. *)
FetchBootstrap(p) ==
  /\ At(p, "bootstrap")
  /\ bootstrap' = TRUE
  /\ Goto(p, "newlock")
  /\ UNCHANGED <<lock, manifest, fixtures, history, files, clean, local, faults, ghosts>>

BootstrapFails(p) ==
  /\ At(p, "bootstrap")
  /\ Goto(p, "idle")
  /\ UNCHANGED <<lock, disk, local, faults, ghosts>>

(* refresh --resume needs a bootstrap and a refresh manifest. *)
StartResume(p) ==
  /\ At(p, "idle")
  /\ bootstrap /\ manifest # None
  /\ Goto(p, "resumelock")
  /\ UNCHANGED <<lock, disk, local, faults, ghosts>>

(* The bootstrap has no usable player list: no lock, no manifest, ever. *)
RejectBootstrap(p) ==
  /\ At(p, "newlock")
  /\ Goto(p, "idle")
  /\ UNCHANGED <<lock, disk, local, faults, ghosts>>

AcquireLock(p) ==
  /\ pc[p] \in {"newlock", "resumelock"}
  /\ lock = None
  /\ lock' = p
  /\ Goto(p, IF At(p, "newlock") THEN "save" ELSE "load")
  /\ UNCHANGED <<disk, local, faults, ghosts>>

Locked(p) ==
  /\ pc[p] \in {"newlock", "resumelock"}
  /\ lock # None
  /\ Goto(p, "idle")
  /\ UNCHANGED <<lock, disk, local, faults, ghosts>>

(* Mutant: a completed refresh is resumed like any other. *)
LoadAnything(p) ==
  /\ At(p, "load")
  /\ Goto(p, "save")
  /\ UNCHANGED <<lock, disk, local, faults, ghosts>>

(* A completed refresh is immutable; the manifest is not yet ours to mark. *)
LoadForResume(p) ==
  /\ At(p, "load")
  /\ Goto(p, IF manifest = "complete" THEN "unlock" ELSE "save")
  /\ UNCHANGED <<lock, disk, local, faults, ghosts>>

(* The first manifest of a new refresh, or the "resuming" one. *)
SaveStart(p) ==
  /\ At(p, "save")
  /\ manifest' = "in_progress"
  /\ mutable' = [mutable EXCEPT ![p] = TRUE]
  /\ Goto(p, "fixtures")
  /\ UNCHANGED <<lock, bootstrap, fixtures, history, files, clean, todo, done,
                 faults, ghosts>>

-----------------------------------------------------------------------------
(* _validate_or_fetch_fixtures: two files, the response first *)

FetchFixtures(p) ==
  /\ At(p, "fixtures")
  /\ fixtures = "absent"
  /\ fixtures' = "response"
  /\ Goto(p, "fixturesmanifest")
  /\ UNCHANGED <<lock, bootstrap, manifest, history, files, clean, local, faults, ghosts>>

WriteFixturesManifest(p) ==
  /\ At(p, "fixturesmanifest")
  /\ fixtures' = "complete"
  /\ Goto(p, "history")
  /\ UNCHANGED <<lock, bootstrap, manifest, history, files, clean, local, faults, ghosts>>

ReuseFixtures(p) ==
  /\ At(p, "fixtures")
  /\ fixtures = "complete"
  /\ Goto(p, "history")
  /\ UNCHANGED <<lock, disk, local, faults, ghosts>>

(* The request fails, or a response without its manifest is found. *)
FixturesFail(p) ==
  /\ At(p, "fixtures")
  /\ fixtures # "complete"
  /\ Goto(p, "fail")
  /\ UNCHANGED <<lock, disk, local, faults, ghosts>>

-----------------------------------------------------------------------------
(* fetch_player_histories_for_snapshot *)

(* The refresh manifest records the fixtures, then the directory is made. *)
MakeHistory(p) ==
  /\ At(p, "history")
  /\ history = None
  /\ manifest' = "in_progress"
  /\ history' = [status |-> None, responses |-> {}]
  /\ Goto(p, "historymanifest")
  /\ UNCHANGED <<lock, bootstrap, fixtures, files, clean, local, faults, ghosts>>

WriteHistoryManifest(p) ==
  /\ At(p, "historymanifest")
  /\ history' = [history EXCEPT !.status = "in_progress"]
  /\ todo' = [todo EXCEPT ![p] = Player]
  /\ Goto(p, "fetch")
  /\ UNCHANGED <<lock, bootstrap, manifest, fixtures, files, clean, done, mutable,
                 faults, ghosts>>

(* Mutant: a finished collection is taken as it is. *)
ResumeFinishedHistory(p) ==
  /\ At(p, "history")
  /\ history # None
  /\ manifest' = "in_progress"
  /\ Goto(p, IF history.status = None THEN "fail"
             ELSE IF history.status = "complete" THEN "transform" ELSE "recover")
  /\ UNCHANGED <<lock, bootstrap, fixtures, history, files, clean, local, faults, ghosts>>

(* resume=True whenever the directory exists: its manifest must exist and
   must not be complete. *)
ResumeHistory(p) ==
  /\ At(p, "history")
  /\ history # None
  /\ manifest' = "in_progress"
  /\ Goto(p, IF history.status \in Running THEN "recover" ELSE "fail")
  /\ UNCHANGED <<lock, bootstrap, fixtures, history, files, clean, local, faults, ghosts>>

(* Mutant: an invalid response ends the resume. *)
RefuseInvalid(p, x) ==
  /\ At(p, "recover")
  /\ files[x] = "bad"
  /\ Goto(p, "fail")
  /\ UNCHANGED <<lock, disk, local, faults, ghosts>>

(* An invalid response is moved to quarantine. *)
Quarantine(p, x) ==
  /\ At(p, "recover")
  /\ files[x] = "bad"
  /\ files' = [files EXCEPT ![x] = "absent"]
  /\ UNCHANGED <<lock, bootstrap, manifest, fixtures, history, clean, pc, local,
                 faults, ghosts>>

(* Mutant: only what the manifest recorded is kept; the rest is deleted and
   requested again. *)
RecoverRecorded(p) ==
  LET good == {x \in history.responses : files[x] = "good"} IN
  /\ At(p, "recover")
  /\ \A x \in Player : files[x] # "bad"
  /\ files' = [x \in Player |-> IF x \in good THEN "good" ELSE "absent"]
  /\ history' = [status |-> "in_progress", responses |-> good]
  /\ done' = [done EXCEPT ![p] = good]
  /\ todo' = [todo EXCEPT ![p] = Player \ good]
  /\ Goto(p, "fetch")
  /\ UNCHANGED <<lock, bootstrap, manifest, fixtures, clean, mutable, faults, ghosts>>

(* Valid responses are kept, also those the manifest had not yet recorded. *)
RecoverResponses(p) ==
  LET good == {x \in Player : files[x] = "good"} IN
  /\ At(p, "recover")
  /\ \A x \in Player : files[x] # "bad"
  /\ history' = [status |-> "in_progress", responses |-> good]
  /\ done' = [done EXCEPT ![p] = good]
  /\ todo' = [todo EXCEPT ![p] = Player \ good]
  /\ Goto(p, "fetch")
  /\ UNCHANGED <<lock, bootstrap, manifest, fixtures, files, clean, mutable, faults, ghosts>>

(* One request: the response file appears, its metadata follows in the next
   manifest; or the request fails and the next player is tried. *)
FetchResponse(p, x) ==
  /\ At(p, "fetch")
  /\ x \in todo[p] /\ files[x] = "absent"
  /\ files' = [files EXCEPT ![x] = "good"]
  /\ fetched' = [fetched EXCEPT ![x] = IF @ < 2 THEN @ + 1 ELSE 2]
  /\ todo' = [todo EXCEPT ![p] = @ \ {x}]
  /\ done' = [done EXCEPT ![p] = @ \cup {x}]
  /\ Goto(p, "record")
  /\ UNCHANGED <<lock, bootstrap, manifest, fixtures, history, clean, mutable, faults,
                 damaged>>

(* Mutant: a failed request is recorded like a successful one. *)
CountFailureAsDone(p, x) ==
  /\ At(p, "fetch")
  /\ x \in todo[p]
  /\ todo' = [todo EXCEPT ![p] = @ \ {x}]
  /\ done' = [done EXCEPT ![p] = @ \cup {x}]
  /\ Goto(p, "record")
  /\ UNCHANGED <<lock, disk, mutable, faults, ghosts>>

FetchFails(p, x) ==
  /\ At(p, "fetch")
  /\ x \in todo[p]
  /\ todo' = [todo EXCEPT ![p] = @ \ {x}]
  /\ Goto(p, "record")
  /\ UNCHANGED <<lock, disk, done, mutable, faults, ghosts>>

RecordResponses(p) ==
  /\ At(p, "record")
  /\ history' = [history EXCEPT !.responses = done[p]]
  /\ Goto(p, "fetch")
  /\ UNCHANGED <<lock, bootstrap, manifest, fixtures, files, clean, local, faults, ghosts>>

(* No request is left: complete, or partial and PartialHistoryFetchError. *)
FinishHistory(p) ==
  /\ At(p, "fetch")
  /\ todo[p] = {}
  /\ history' = [status    |-> IF done[p] = Player THEN "complete" ELSE "partial",
                 responses |-> done[p]]
  /\ Goto(p, IF done[p] = Player THEN "savehistory" ELSE "fail")
  /\ UNCHANGED <<lock, bootstrap, manifest, fixtures, files, clean, local, faults, ghosts>>

SaveHistory(p) ==
  /\ At(p, "savehistory")
  /\ manifest' = "in_progress"
  /\ Goto(p, "transform")
  /\ UNCHANGED <<lock, bootstrap, fixtures, history, files, clean, local, faults, ghosts>>

-----------------------------------------------------------------------------
(* Transforms and the final validation *)

(* An output that exists is not made again; the history transform checks every
   response against its manifest. *)
Transform(p) ==
  /\ At(p, "transform")
  /\ \E o \in Outputs \ clean :
       /\ o = "fixtures" => "players" \in clean
       /\ o = "history"  => {"players", "fixtures"} \subseteq clean
                            /\ \A x \in Player : files[x] = "good"
       /\ clean' = clean \cup {o}
  /\ UNCHANGED <<lock, bootstrap, manifest, fixtures, history, files, pc, local,
                 faults, ghosts>>

(* Disk, database or validation errors, in any of the last four stages. *)
LateFailure(p) ==
  /\ At(p, "transform")
  /\ Goto(p, "fail")
  /\ UNCHANGED <<lock, disk, local, faults, ghosts>>

(* _validate_snapshot_coherence *)
Coherent ==
  /\ bootstrap /\ fixtures # "absent"
  /\ history # None /\ history.status = "complete" /\ history.responses = Player
  /\ \A x \in Player : files[x] = "good"
  /\ clean = Outputs

(* Mutant: outputs are counted, the responses behind them are not read. *)
CompleteOnOutputs(p) ==
  /\ At(p, "transform")
  /\ clean = Outputs
  /\ manifest' = "complete"
  /\ Goto(p, "return")
  /\ UNCHANGED <<lock, bootstrap, fixtures, history, files, clean, local, faults, ghosts>>

Complete(p) ==
  /\ At(p, "transform")
  /\ Coherent
  /\ manifest' = "complete"
  /\ Goto(p, "return")
  /\ UNCHANGED <<lock, bootstrap, fixtures, history, files, clean, local, faults, ghosts>>

(* The completion is logged and the result returned, still inside the try. *)
ReturnResult(p) ==
  /\ At(p, "return")
  /\ Goto(p, "unlock")
  /\ UNCHANGED <<lock, disk, local, faults, ghosts>>

-----------------------------------------------------------------------------
(* Failure handling *)

(* Ctrl-C: the history loop first marks its own manifest; the refresh manifest
   is marked once it is this process's to mark, even when it already says
   complete.  A second Ctrl-C leaves the handler before it has marked it. *)
Interrupt(p) ==
  /\ pc[p] \notin {"idle", "unlock"}
  /\ faults < MaxFaults
  /\ faults' = faults + 1
  /\ history' = IF pc[p] \in {"fetch", "record"}
                THEN [status |-> "incomplete", responses |-> done[p]] ELSE history
  /\ Goto(p, IF ~Holding(p) THEN "idle"
             ELSE IF mutable[p] /\ ~At(p, "fail") THEN "fail" ELSE "unlock")
  /\ UNCHANGED <<lock, bootstrap, manifest, fixtures, files, clean, local, ghosts>>

(* Mutant: the status of the history manifest is copied. *)
MarkPartial(p) ==
  /\ At(p, "fail")
  /\ manifest' = IF history = None THEN "incomplete" ELSE history.status
  /\ Goto(p, "unlock")
  /\ UNCHANGED <<lock, bootstrap, fixtures, history, files, clean, local, faults, ghosts>>

(* except BaseException: the refresh is incomplete, and the exception says
   "resume with". *)
MarkIncomplete(p) ==
  /\ At(p, "fail")
  /\ manifest' = "incomplete"
  /\ Goto(p, "unlock")
  /\ UNCHANGED <<lock, bootstrap, fixtures, history, files, clean, local, faults, ghosts>>

(* finally: the lock file is removed, whoever created it. *)
Finish(p) ==
  /\ At(p, "unlock")
  /\ lock' = None
  /\ Goto(p, "idle")
  /\ Forget(p)
  /\ UNCHANGED <<disk, faults, ghosts>>

Kill(p) ==
  /\ ~At(p, "idle")
  /\ faults < MaxFaults
  /\ faults' = faults + 1
  /\ Goto(p, "idle")
  /\ Forget(p)
  /\ UNCHANGED <<lock, disk, ghosts>>

(* Mutant: the operator does not look. *)
UnlockUnseen ==
  /\ lock # None
  /\ lock' = None
  /\ UNCHANGED <<disk, pc, local, faults, ghosts>>

(* unlock_refresh_snapshot, by an operator who has verified that no process
   works on the snapshot. *)
Unlock ==
  /\ lock # None
  /\ \A p \in Proc : ~Holding(p)
  /\ lock' = None
  /\ UNCHANGED <<disk, pc, local, faults, ghosts>>

(* A response file is changed outside the program before completion. *)
Damage(x) ==
  /\ manifest # "complete" /\ files[x] = "good"
  /\ faults < MaxFaults
  /\ faults' = faults + 1
  /\ files' = [files EXCEPT ![x] = "bad"]
  /\ damaged' = damaged \cup {x}
  /\ UNCHANGED <<lock, bootstrap, manifest, fixtures, history, clean, pc, local, fetched>>

-----------------------------------------------------------------------------

Begin(p)    == \/ FetchBootstrap(p) \/ BootstrapFails(p) \/ RejectBootstrap(p)
               \/ AcquireLock(p) \/ Locked(p) \/ LoadForResume(p) \/ SaveStart(p)
Fixtures(p) == \/ FetchFixtures(p) \/ WriteFixturesManifest(p) \/ ReuseFixtures(p)
               \/ FixturesFail(p)
History(p)  == \/ MakeHistory(p) \/ WriteHistoryManifest(p) \/ ResumeHistory(p)
               \/ RecoverResponses(p) \/ RecordResponses(p)
               \/ FinishHistory(p) \/ SaveHistory(p)
               \/ \E x \in Player : Quarantine(p, x) \/ FetchResponse(p, x)
                                   \/ FetchFails(p, x)
Clean(p)    == Transform(p) \/ LateFailure(p) \/ Complete(p) \/ ReturnResult(p)
End(p)      == MarkIncomplete(p) \/ Finish(p)

Step(p) == Begin(p) \/ Fixtures(p) \/ History(p) \/ Clean(p) \/ End(p)

Next ==
  \/ \E p \in Proc : StartNew(p) \/ StartResume(p) \/ Step(p) \/ Interrupt(p) \/ Kill(p)
  \/ Unlock
  \/ \E x \in Player : Damage(x)

Spec == Init /\ [][Next]_vars

(* The owner keeps resuming; a process that is not killed or interrupted keeps
   running; requests and late stages do not fail for ever; leftover locks are
   inspected and removed. *)
Fairness ==
  /\ \A p \in Proc :
       /\ SF_vars(StartNew(p)) /\ SF_vars(StartResume(p)) /\ WF_vars(Step(p))
       /\ SF_vars(FetchBootstrap(p)) /\ SF_vars(AcquireLock(p)) /\ SF_vars(FetchFixtures(p))
       /\ \A x \in Player : SF_vars(FetchResponse(p, x))
       /\ SF_vars(Transform(p)) /\ SF_vars(Complete(p))
  /\ WF_vars(Unlock)

FairSpec == Spec /\ Fairness

-----------------------------------------------------------------------------
(* Safety *)

(* The snapshot lock excludes a second resume of the same snapshot. *)
LockExclusive == \A p \in Proc : Holding(p) => lock = p

(* A refresh manifest says "complete" only over a coherent snapshot: every
   response of the frozen player list present, valid and recorded, all outputs
   there, however many processes, kills and resumes it took. *)
CompleteIsCoherent == manifest = "complete" => Coherent

(* No process is between the writing of "complete" and its return, or in the
   handler of a failure. *)
Returned == \A p \in Proc : pc[p] \notin {"return", "fail"}

(* "A completed refresh is immutable": its responses, its collection and its
   outputs never change again, and once the refresh has returned neither does its
   manifest, whatever is started, resumed, killed or interrupted.  Until then a
   Ctrl-C may still turn the manifest into an incomplete one, and nothing else. *)
CompletedImmutable ==
  [][manifest = "complete" =>
       /\ UNCHANGED <<bootstrap, fixtures, history, files, clean>>
       /\ manifest' \in {"complete", "incomplete"}
       /\ Returned => manifest' = "complete" /\ Returned']_vars

(* "Partial resume reuses successes": no response is downloaded twice, unless
   its file was damaged in between, even if the process died before the
   manifest recorded it. *)
FetchedOnce == \A x \in Player : fetched[x] = 2 => x \in damaged

(* The history manifest records no response that was not stored. *)
RecordedIsStored ==
  history # None =>
    \A x \in history.responses : files[x] # "absent" \/ x \in damaged

-----------------------------------------------------------------------------
(* What resuming can and cannot repair *)

(* Nobody works on the snapshot and no resume can ever complete it: it has no
   refresh manifest, fixtures without their manifest, a history directory
   without its manifest, or a finished history collection. *)
Doomed ==
  /\ \A p \in Proc : At(p, "idle")
  /\ bootstrap /\ manifest # "complete"
  /\ \/ manifest = None
     \/ fixtures = "response"
     \/ history # None /\ history.status \notin Running

(* A doomed snapshot never becomes complete, whatever is resumed. *)
DoomedForEver == [](Doomed => [](manifest # "complete"))

(* Those are the only ones: from everywhere else, resuming again and again
   completes the snapshot, for good. *)
CompletesUnlessDoomed == <>(Doomed \/ [](manifest = "complete"))

(* RefreshIncompleteError, raised whenever the manifest was marked incomplete:
   "an incomplete refresh can be resumed safely". *)
IncompleteIsResumable == (manifest = "incomplete") ~> (manifest = "complete")
=============================================================================
