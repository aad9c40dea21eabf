# Verification of the FPL decision engine

TLA+ specifications, TLC runs and TLAPS proofs for the stateful parts of
`fpl-decision-engine`: what may happen when its commands overlap, fail half way,
are killed, and are run again. Paths below are relative to the repository root;
`PROJECT.json` gives, for every definition, the lines it models.

The engine is a set of one-shot commands that share a file system. Nothing runs
permanently: `launchd` or the owner starts a command, it reads files, perhaps
calls the public FPL service, publishes files, and exits. What can go wrong
therefore lives *between* two published files: another command, a kill, a clock
step, a changed answer of the service. Hence every module publishes each file in
an action of its own.

## Inventory

| component | state it keeps | operations | interacts with | hard behaviour | correct when |
|---|---|---|---|---|---|
| completion monitor (`completion_monitor.py`) | per target: `.completion-monitor.lock`, `state.json`, `realized-receipt.json`, `evaluation-receipt.json`, review history | `monitor_completion`, `reset_completion_monitor`, `unlock_completion_monitor` | probes the service, calls refresh and evaluator | overlap, kills, stability interval, two-request probe | receipts are write-once and backed by final data; one refresh per capture; truthful status |
| refresh (`refresh.py`, `official_data.py`, `pipeline.py`) | a snapshot directory: bootstrap, fixtures, history, manifests, lock; clean outputs | `refresh_fpl_data` new / `--resume`, `unlock_refresh_snapshot` | called by the monitor and by the owner | partial failure, resume, Ctrl-C, kills | "complete" only over coherent data; complete is immutable once the refresh has returned; no download repeated |
| production schedule (`scripts/completion_monitor_production_schedule.py`) | lifecycle events, invocation records, terminal marker, installed plist, launchd label | `execute_once`, `activate`, `deactivate`, `schedule_status` | launchd, completion monitor | overlapping runs, two-file evidence, rollback, restart, clock | first marker stays and is honest; a deactivated schedule is quiet |
| evaluation (`evaluation.py`) | evaluation directories | `evaluate_xfp` | monitor | manifest last | metrics only over realized final data |
| operational runner (`operational_runner.py`, `operational_manifest.py`, `presentation/gameweek_decision.py`) | a preparation directory; per evidence: manager state, receipt, decision, report, gameweek decision, final manifest | `prepare_gameweek`, `resume_gameweek` | refresh, features, predictions, decisions, journal | no lock and no progress record: files are found by searching; staging left by a kill; replaced inputs; deadline | a completed decision binds one chain made from the pinned inputs before the deadline, and stays readable |
| manager evidence (`manager_evidence_authoring.py`, `local_decision_wizard.py`) | one draft file per preparation, published evidence | guided session, publication, run | runner, artifact reader | sessions sharing the draft, interrupt at any question, deadline between checks | published is what the owner saw and agreed to |
| decision optimizer (`decision.py`, `transfer_decision.py`, `decision_reliability.py`) | none but the published decision | best squad, line-up, transfer; reliability report | projections, manager state | ties within a tolerance, two algorithms for one result, legality of a swap | no legal alternative is better; the report reproduces the decision |
| manager state (`manager_state.py`, `manager_decision.py`, `editable_manager.py`) | recorded states | fetch, compare, record by hand, advise | public service, optimizer | events without public picks, chips, incomplete projections | the comparison is with the selection the manager really locked |
| journal and diff (`decision_journal.py`, `decision_diff.py`) | write-once entries and outcomes | record, compare | completed decisions | other runs go on; deadline on both sides | an entry stays evidence of its chain |
| features, predictions (`features.py`, `predictions.py`, `projection_provider.py`) | parquet outputs | build, predict, select provider | refresh outputs | leakage of later gameweeks | only the past is used |
| artifact access (`artifact_snapshot.py`, `trusted_artifact_reader.py`, `fpl_decision_app/`) | none (bounded copies) | copy, verified read, HTTP GET | all published artifacts | file changes while copied | a read is one version |
| checkpoint, private evidence (`scripts/encrypted_checkpoint.py`, `scripts/private_evidence_context.py`) | content-addressed store, observations, contexts; archives with receipts, restored trees with markers | capture, create context, create, verify, restore | the whole data tree | no lock; directories filled file by file; edits while copying; kills; damage | what was reported can be verified ever after; a checkpoint is one instant |
| research (`historical*.py`), CLI (`__main__.py`), guards (`scripts/check_*.py`), `web/` | none of their own | offline tables, argument parsing, scans, display | - | - | - |

`PROJECT.json` lists all of them with their status, and under `hazards` the places
in the code where a test hardly reaches.

## Modules

| module | models |
|---|---|
| `ReceiptLedger` | abstract: what the monitor promises about its two receipts |
| `CompletionMonitor` | `completion_monitor.py`; refines `ReceiptLedger` |
| `CompletionMonitorProofs` | theorems about it, under any operator |
| `MonitorCarefulProofs` | theorems about what it may report, and about it under a careful operator |
| `Refresh` | `refresh.py` and the fetchers of `official_data.py` and `pipeline.py` |
| `RefreshProofs` | theorems about it |
| `EngineContract` | what the schedule expects of the monitor it calls: order of acceptance, possible outcomes |
| `ProductionSchedule` | `completion_monitor_production_schedule.py` |
| `ProductionScheduleProofs` | theorems about it |
| `OperationalRunner` | `operational_runner.py`, `operational_manifest.py` and the stages they call |
| `EvidenceAuthoring` | `local_decision_wizard.py`, `manager_evidence_authoring.py`; extends the runner: a session starts a run |
| `DecisionJournal` | `decision_journal.py`; extends both and composes the whole gameweek |
| `GameweekProofs` | theorems about the whole gameweek, overlapping runs included |
| `GameweekOrderProofs` | theorems about evidence no two runs worked on at once |
| `PrivateEvidence` | `private_evidence_context.py` |
| `Checkpoint` | `encrypted_checkpoint.py`, composed with the invocations that change the tree meanwhile |
| `CheckpointProofs` | lemmas about the store, theorems about the store and its checkpoints together |
| `SquadDecision` | `decision.py`, `transfer_decision.py`, `manager_state.py`, `manager_decision.py`, `editable_manager.py`, `projection_provider.py` |
| `DecisionReliability` | `decision_reliability.py`, over the decision `SquadDecision` publishes |
| `DecisionProofs` | theorems about the algorithms of both and about what the commands show |
| `MC...` | the same modules for TLC, with symmetry sets |

### CompletionMonitor

`Proc` are the places where a command can run; `pc` and `mem` are its control
point and the local variables it still needs. `lock`, `state`, `realized`,
`evaluation` and `archive` are the files of the control directory, `snapshots`
and `evaluations` those of the data roots, `official` is what the service serves.

* `Start` reads the clock (before the lock, as the code does), `AcquireLock` /
  `Locked` create the lock file, `LoadState` reads `state.json`.
* `ReviewReceipts` ... `NothingAccepted` are the alternatives of the
  reconciliation with the receipts; `FindCandidate` ... `NoCandidate` the scan for
  an existing snapshot and what follows from an interrupted refresh.
* `ProbeEvent` and `ProbeFixtures` are two requests, between which `official` may
  change; `Decide` is the readiness and stability decision.
* `Prepare` says what `state.json` will be and where the code goes on, `WriteState`
  (control point `put`) writes it: every decision and its publication are two
  steps. Receipts are published (`PublishRealized`, `PublishEvaluation`) before the
  state that reports them.
* `BeginRefresh` / `FinishRefresh` are the runner's effect on the data root, with
  the bootstrap and the fixtures read at different times. `Refresh` has the detail.
* `RefuseReset` / `ArchiveReview` are the reset, which archives the review by an
  exclusive link before it replaces `state.json`. `archive` is the scope of the
  archived record as long as `state.json` still holds that review.
* `Finish` is the `finally` clause: it removes the lock file whoever owns it.
  `Unlock` is the unlock command, which checks nothing; `CarefulOperator` says
  whether the person who calls it has checked that nothing runs.
* `Kill`, `Damage`, `OfficialChanges`, `DeadlinePasses` and the owner's own refresh
  are the outside.

Times are relative to the present, `Now`: `Tick` moves recorded times back, and
stops at 0. With `Now >= Stability + MaxStall` no comparison of the code can tell
the difference, so that the unbounded clock needs no bound. A snapshot is reduced
to three facts: complete manifest, final data, bytes intact. The retained first
observation is kept only in a WAITING state: elsewhere nobody reads it. The checks
of both receipts' existence at reconciliation are one step.

### Refresh

One snapshot directory and any number of attempts on it. `fixtures` is absent, a
response, or a response with its manifest; `history` is the collection's manifest
(status and recorded players), `files` the response files. `StartNew`/`StartResume`,
`FetchBootstrap`, `AcquireLock`, `SaveStart`, the fixtures pair, `MakeHistory`,
`WriteHistoryManifest`, `Quarantine`, `RecoverResponses`, one `FetchResponse` or
`FetchFails` and one `RecordResponses` per player, `FinishHistory`, `Transform`,
`Complete` follow the code; `ReturnResult` is the rest of the `try` after the manifest
says complete. `MarkIncomplete` is the `except BaseException` branch, `Interrupt` is
Ctrl-C anywhere in the `try` (which marks the history manifest first, and also takes
back a manifest that says complete already) and in the handler (which then marks
nothing), `Kill` runs no handler. `LateFailure` is any failure after the collection. The
requests' retries are inside `FetchResponse`/`FetchFails`. `fetched` and `damaged` are
history variables.

### ProductionSchedule

One prepared plan. `run` has one local state per place a run can execute, one of
which launchd starts; `owner` is the running `activate` or `deactivate`. Every piece
of evidence is two files, the record and its hash: an event, record or marker is
published unhashed (`PublishEvent`, `PublishRecord`, `PublishMarker`) and then
hashed, and whoever reads a half gives up, as the code does. The engine is what
`EngineContract` says of it: receipts advance (`EngineAccepts`, also by a monitor
started elsewhere) and success is reported only when they back it (`Possible`). An
outcome may be behind the receipts: a call that decided to wait may report so after
another invocation has accepted the result. `MonitorCarefulProofs` proves that
`CompletionMonitor` keeps this contract. launchctl may fail with or without effect, a
restart loads whatever plist is installed, the clock may be set back. Whole records with
equal status and start are one element of `records`; `Statuses` is the set of what
`schedule_status` may say, since starts within one tick are not told apart. A run reads
the clock a second time before it writes its record, whether it called the engine
(`EngineReturns`) or not (`EndWithoutCall`). That the state files cannot be hashed then,
which also makes the record a review, is left out. A run that finds a marker does nothing,
so `StartRun` requires that there is none.

### OperationalRunner, EvidenceAuthoring, DecisionJournal

The three form one specification, `DecisionJournal!Spec`, of a gameweek.

*Preparation.* `observed`, `inputs` and `predicting` are the snapshot, the feature and
the prediction files a `prepare_gameweek` works on: version 1 is the file as it was
produced, 2 anything else, 0 absent. `RefreshStage` ... `PinInputs` follow the stages,
`CopyInput` copies one file, `RenamePreparation` publishes the directory, and
`CheckPreparation` validates it, after it was published. `ReplaceInput` may strike
between any two of them. What that validation looks at is `DirectoryValid`
(`_validate_preparation_directory`): the copies are what the manifest says and the
refresh manifests reconcile. Only a resume, a session and its publication look into the
features and the predictions as well (`PreparationValid`, `load_validated_preparation`).

*Completion.* A file is named by its writer: `statefile[r]`, `decision[r]` and
`reliability[r]` are what run `r` wrote. Each is filled and moved in steps (`stage`
torn, whole, final), because every search by name also finds a staging directory;
`StageFails` cleans up, `KillRun` does not. `StageRefuses` is a stage that refuses the
data before it writes a file (`TRUSTED_STAGE_FAILED`, or the `IndexError` of item 12, which
nobody catches: error `UNEXPECTED`). No stage refuses evidence in `Computable`; for other
evidence each stage may or may not, which allows more than the program does, where a stage
refuses the same data every time. `FindState`, `FindDecision` and `FindReliability` are the
searches, and a run adopts what it finds. `receipt`, `gameweek` and `final` are published
by `_write_atomic`: linked under a temporary name that is removed in the next step, until
when the state is in `doubled`. `CompletedChainValid` is `_completed_result`. `overlapped`
remembers the evidence two runs have worked on at once.

*Sessions.* Session `r` belongs to run `r` and starts it (`RunDecision`), or the owner
calls `resume-gameweek` directly (`ResumeByHand`). `draft` is the shared file,
`session[r].draft` the one in memory; a content of evidence is named by its squad.
`Pick` saves the file only, `PickLast` brings the memory up to date, `Interrupt` saves
memory over the file. `CheckPublication`, `StageEvidence`, `RenameEvidence` are
`publish_verified_evidence` with the check before it: the clock is read twice before the
file is staged (`CheckPublication`, one step) and again before it is renamed.
`session[r].read` is the last reading, and what is published remembers it.

*Journal.* `RecordEntry` and `RecordOutcome` validate the chain as the reader does
(`Readable`) and publish a write-once record, while everything else goes on.

Abstracted: the rename of a filled temporary directory is one step, as is the reading
of one chain; formats, prompts, catalogue search and wording are left out.

### PrivateEvidence, Checkpoint

A content directory, an observation and a context are counters of the file operations
done on them, in the order of the code: directory made, file linked (two names), staged
name removed (one name). `FillContent`, `LinkRecord`, `LinkContext` advance them,
`ActorFails` runs the `finally` clauses and `KillActor` does not; both add the directory
to the history `cuts` if it stays unfinished. Readers refuse a file of two names. The
edition of the owner's file is its metadata. `StartCapture` opens the file and reads the
first bytes, `ReadRest` the others: if the owner has saved it meanwhile, what was read may
be either edition or bytes of no edition (`Mixed`), and only the comparison in `CopySource`
tells. Each write of an editor is an edition of its own, a half-saved file one of its
contents. That two editions differ in their metadata is assumed of the file system. An
invocation performs one operation. A context refers to any of the observations there are;
engine references and relations to other contexts are validated in the same way and left
out, and the owner's description is the same each time.

`Checkpoint` scans the tree in two parts, one after the other, streams the archive,
scans again and links the receipt; `restore` consumes a checkpoint twice. The scope is
whatever the invocations of `PrivateEvidence` leave in the tree meanwhile, because only
the operator's word says that it is quiet.

### SquadDecision, DecisionReliability

Each command is one action, which reads the artifact `rows` and replaces `shown`; only a
transfer decision is published (`decision`). The algorithms are written as the code runs
them: `ScanOrder` is the order of the nested loops, `Keep` the comparison with the
tolerance and `Kept` what a scan has kept at its end, `FixedSquadDiagnostic` the greedy
second algorithm of the report. The solver
is external: `OptimizeSquad` is what its three passes must return. Projections are
integers; the tolerance of 1e-8 is a small integer, so that near ties exist.
`Represented` is the event the public fetch selects. Formation bounds are constants of
the model; `_formation_counts` has them hard-coded as 3..5, 2..5 and 1..3, the same
values as `STARTING_POSITION_BOUNDS`.

## Runs

| run | instance | shows |
|---|---|---|
| `MonitorSafe` | 2 invocations, 2 predictions, 2 snapshots, 1 kill or damage, interval 1, careful operator | exclusion, one refresh per reset, one evaluation per binding, truthful outcomes, review left only by an archived reset, quiet after receipts |
| `MonitorCareless` | 2 invocations, 2 predictions, 1 snapshot, operator unlocks at any time | receipts backed, status truthful, `ReceiptLedger` refined, all without mutual exclusion |
| `MonitorLive` | 1 invocation place, 2 versions, interval 2, stall 1, 1 fault, fairness | the refresh waits long enough; settled data are answered |
| `MonitorSeen` | as above, no fault | **violated**: the two sightings may be closer than documented |
| `RefreshSafety` | 2 processes, 3 players, 3 faults | complete is coherent and, once returned, immutable; downloads are kept, lock excludes |
| `RefreshLive` | 1 process, 2 players, 2 faults, fairness | the doomed states are for ever, all others complete |
| `RefreshResumable` | 1 process, 1 player, no fault, fairness | **violated**: a late failure is never resumable |
| `ScheduleRuns` | scheduled and manual run, 3 clock values, 3 events, 1 fault, fairness | marker honest and stable, deactivation quiet, rollback inert, schedule concludes |
| `ScheduleCrash` | scheduled run, 1 fault, fairness | **violated**: a torn invocation record is not re-entered |
| `Gameweek` | 2 preparers, 2 runs with their sessions, 2 contents of evidence, one of which a stage may refuse, and an unsupported one, 2 records, 2 faults, deadline 1 | a ready preparation is what its call hashed; a completed decision binds one chain, is written once and stays readable; what blocks a resume; honest sessions; anchored journal |
| `Private` | 2 invocations, 1 content, 1 context, 1 edit, 1 fault, 1 checkpoint, 1 restore | reported evidence can be verified ever after and is of one edition; what blocks a digest; a checkpoint and its restoration are one instant |
| `Choices` | 504 artifacts, 9 players, squads of 7, 5 starters | advice against exhaustion over all legal squads and line-ups; the report reproduces the decision |

### Bounds, and why they suffice

* Two invocations: the lock and the exclusive links are about pairs; a third can do
  to the second only what the second did to the first. The proofs have no bound.
* Two predictions and two snapshots: enough for "another prediction than the one
  evaluated" and "another snapshot than the one accepted", and for a refresh after
  a reset. `attempts` and `evaluations` count up to 2, "too many" in all properties.
* `Stability`, `MaxStall`: an interval of 2 with stalls of 1 is the smallest in
  which a slow sighting shortens the distance without making it zero.
* `MaxFaults`: one kill anywhere, followed by everything that recovery does,
  including another invocation that overlaps it. `RefreshSafety` allows three, so
  that a resume may be killed, too, and its data damaged.
* Three players: one fetched, one failed, one not yet requested.
* Clock 0..2 against `NotBefore` 1 and `Expires` 2: too early, due and expired.
  Three lifecycle events: both of the activation and a deactivation.

* `Gameweek`: two runs and two sessions are a pair for every file they may share, a
  third only repeats the second. Two supported contents: the second can come from the
  other session or from an earlier draft; the unsupported one is refused. One of the supported is
  `Computable`, so that a refusal by a stage and a decision meet. Deadline 1 and
  clock 0..2: before, at and after it. Two faults: a run killed, and its successor.
  `Handed` keeps the phases apart: resumes start when all preparers are idle, from an
  initial state in which they have run and left a sound preparation, or one whose
  features were replaced before the copy or already before they were hashed. That loses
  nothing, since a published preparation never changes and a resume reads nothing else.
  `MaxRecords` 2 allows an entry and its outcome, or two entries.
* `Private`: one content and `Mixed`; the second invocation meets every half-filled
  directory of the first. The clock moves only while some invocation has not started:
  afterwards nobody reads it. The deadline is 1, the clock 0..1.
* `Choices`: squads of 2 GK, 2 DEF, 2 MID, 1 FWD, line-ups of 5, club limit 2: small
  enough for exhaustion, large enough for two formations, a swap that one club's limit
  forbids only because of who leaves, one only affordable with the bank, and ties of
  equal cost. Projections 0, 20, 40 and none, 21 for a near tie with a tolerance of 5;
  one player each blank, incomplete with and without minutes, missing, or invalid.
  One decision per behaviour, as its file is write-once. Histories of locked selections
  contain a missing newest event, an illegal selection and a chip.

Deadlock is not checked: when the bounds are used up, or the marker is published
and the owner is done, these systems are meant to be at rest.

### Fairness

* Monitor: the documentation has the owner's schedule start invocations again and
  again (`SF Start`), a process that is not killed goes on (`WF Step`), requests do
  not fail for ever (`SF` on the two probe steps), the clock advances, and a
  leftover lock is eventually removed, which the runbook asks of the operator.
  Nothing obliges the service to settle (`Settles` is the antecedent), the reset to
  be called, or refreshes to succeed.
* Refresh: the owner keeps resuming and requests and late stages do not fail for
  ever; kills and interrupts are bounded, not fair.
* `Gameweek`, `Private` and `Choices` check safety only: their commands are started by
  the owner, whom nothing obliges, and what blocks them for ever is stated as an
  invariant (`BlockedOnlyWithCause`, `BlockedOnlyByCut`).
* Schedule: launchd starts a loaded job again (`WF StartRun` for the scheduled
  place only), a run that is not killed goes on, time passes. Manual runs, the owner's
  commands, even once begun, and the engine's acceptance are not fair.

## Proofs

Every safety property that a passing run checks is proved for every value of the constants
its module allows. Each proof module first states its inductive invariant, as a conjunction of
named parts; TLC has checked each of them on the instances of the runs before it was proved.

### The monitor and its receipts

`CompletionMonitorProofs` proves, for every set of invocations, predictions and
versions, every window and every number of snapshots and faults:

| theorem | states |
|---|---|
| `TypeCorrect` | `Spec => []TypeOK` |
| `ReceiptsBacked` | `Spec => []ReceiptBacked` |
| `StatusTruth` | `Spec => []StatusTruthful` |
| `LedgerRefinement` | `Spec => LedgerRefined`: initial state to initial state, each step to a ledger step or a stutter |
| `LockExclusion` | `CarefulOperator => (Spec => []LockExclusive)` |

The assumptions are those of `CompletionMonitor` on its constants: the window is
wide enough, bounds are naturals, and `None` is none of the values that may be
absent. All but `LockExclusion` hold however carelessly locks are removed, so the
argument cannot use mutual exclusion. It is: *what an invocation has seen accepted
stays accepted.* Receipts are created by exclusive link and never removed, complete
final snapshots stay complete and final. So the inductive invariant `IInv` records,
per control point, the facts an invocation has established and relies on later:
past `evaluate` there is a realized receipt, at `put` the state about to be written
is backed by the receipts (`Backed`), the snapshot to be published is complete and
final, and no two invocations download the same snapshot. The types are not
inductive without it (`mem[p].snap` must be a snapshot at `capture`). Each action
then has one lemma on what it does to its invocation, and the facts of all others
survive because only their own steps weaken them. `LockExclusive` is inductive by
itself given the types: acquiring needs `lock = None`, releasing is done by the only
holder, and a careful unlock happens when there is none.

### Refresh

`RefreshProofs` proves, for every set of processes and players and every number of
faults, the safety properties of `RefreshSafety`, and that a doomed snapshot stays so:

| theorem | states |
|---|---|
| `TypeCorrect` | `Spec => []TypeOK` |
| `LockExclusion` | `Spec => []LockExclusive` |
| `Coherence` | `Spec => []CompleteIsCoherent` |
| `Immutability` | `Spec => CompletedImmutable` |
| `NoSecondDownload` | `Spec => []FetchedOnce` |
| `ManifestTruth` | `Spec => []RecordedIsStored` |
| `DoomIsFinal` | `Spec => DoomedForEver` |

Assumed of the constants: `None` is no process, no manifest status and no history
manifest. That a lock is removed only when nobody works on the snapshot is the
guard of `Unlock`. The inductive invariant has three parts besides the types.

* Control (`ControlInv`). The lock's owner is the only one past the lock, the creator
  is alone until it has it, only an owner may mark the manifest, and **no process
  works on a completed snapshot but the one that completed it**: `LoadForResume` lets nobody past
  `load` then, and `Complete` is the last write of its process, unless a Ctrl-C finds it
  before it has returned: then the handler writes the status once more. From this
  follows immutability (`Returned` says that no such process is left), and from
  immutability that coherence, once checked, stays.
* Downloads (`StoredInv`). *Stored is stable*: a response file disappears only by
  quarantine, which needs a bad file, hence a damaged one. So what a process or a
  manifest counts as done is stored, what was fetched once is stored or damaged,
  and since a fetch needs an absent file, a second one needs damage.
  `StepExplained` says where a step's new facts come from; `StoredStep` combines it
  with `StoredStays`.
* Coherence itself, which only `CompletingStep` can establish.

`DoomedForEver` has the form of a temporal property but is safety: `[](Doomed => []...)`.
`Doomed` speaks of a snapshot nobody works on, and the next resume makes it false, so it is
not inductive. `Hopeless` follows it through the resumes: without a manifest nobody ever
starts; with half a pair of fixtures every process stays before or fails at the check of
the fixtures (`Barred`); with a collection no resume accepts it gets as far as that
collection and fails there. No step leaves `Hopeless`, and none of its steps is `Complete`.

### The monitor beyond its receipts

`MonitorCarefulProofs` proves the other safety properties of `MonitorSafe` and that the monitor
keeps `EngineContract`. Whoever deletes locks:

| theorem | states |
|---|---|
| `OutcomeTruth` | `Spec => []OutcomeTruthful` |
| `RefreshIsStable` | `Spec => RefreshOnlyWhenStable` |
| `ContractOrder` | `Spec => AcceptsInOrder`: receipts advance as `EngineAccepts` of the schedule assumes |
| `ContractOutcomes` | `Spec => []ReportsWhatIsPossible /\ PossibleStays`: what a call is about to report is `Possible` for what is accepted, and remains so |

For `OutcomeTruth` the claim must be followed from where it is decided: an invocation that
is about to write its last state, or to unlock, claims only what the receipts prove
(`ClaimInv`), and receipts stay. For `RefreshIsStable`: a response arrived at most
`MaxStall` after the date of its observation (`SeenInTime`), in `state.json` and in the
memory of every invocation; the difference of two dates is at least `Stability`, hence
that of the arrivals at least `Stability - MaxStall`. That, and no more, is what the code
guarantees (see `MonitorSeen`). The contract is what the schedule's proofs rest on: its order
follows from the refinement of the ledger, its outcomes from `ClaimInv`. A call that ends
without an outcome has raised, which the schedule sees as "retryable", "error" or (before the
lock is taken) "locked".

Under `CarefulOperator`, where `LockExclusive` holds:

| theorem | states |
|---|---|
| `SingleRefresh` | `Spec => []OneRefreshPerReset` |
| `SingleEvaluation` | `Spec => []EvaluatedOnce` |
| `ReviewIsReset` | `Spec => ReviewLeftOnlyByReset` |
| `ReceiptsEndWork` | `Spec => QuietAfterReceipts` |

None of them is inductive, because what an invocation does rests on what it read some steps
ago. `CarefulInv` says that this is still so: `state.json` is what was loaded (`Loaded`), it
is not under review while work goes on (`Undisputed`), nobody probes a REFRESHING target
(`NotRefreshing`), capture goes on only without a receipt (`NoReceiptYet`), the refresh about
to begin is the first since the reset (`FirstRefresh`), the evaluation about to run has no
predecessor (`FirstEvaluation`), and the state about to be written may replace the present
one (`Writable`). Of `state.json` itself it needs `WaitingIsFresh` (a refresh since the last
reset shows in the status, because REFRESHING is written first) and `EarlyReview`. The steps
of other invocations disturb none of it: an invocation that holds the lock excludes them.

### Production schedule

`ProductionScheduleProofs` proves, for any set of places where a run can execute, any window
and any number of events and faults, every safety property of `ScheduleRuns`:

| theorem | states |
|---|---|
| `TypeCorrect` | `Spec => []TypeOK` |
| `MarkerHonesty` | `Spec => []MarkerHonest` |
| `DeactivationQuiet` | `Spec => []DeactivatedIsQuiet` |
| `NotActivatedInert` | `Spec => []NotActivatedIsInert` |
| `MarkerStays` | `Spec => FirstMarkerStays` |

Assumed of the constants: those of `ProductionSchedule`, with `None` no marker. The inductive
invariant: a run carries a status only if the engine's receipts prove it, and they only
advance; it goes for the marker only with a whole record, and records stay (`RunInv`,
`MarkerInv`). The owner's command records a deactivation only after it has removed the
service (`OwnerInv`), and launchd's job runs only while its label is loaded (`ServiceInv`).
Before the first lifecycle event nobody is past the authorization (`QuietInv`): this is
stronger than `NotActivatedIsInert`, which would allow a run that was authorized earlier.

### The gameweek

`GameweekProofs` and `GameweekOrderProofs` prove every property of the run `Gameweek`, for
any number of preparers, runs, contents of evidence, records and faults:

| theorem | states |
|---|---|
| `TypeCorrect` | `Spec => []TypeOK` |
| `PreparationPinned` | `Spec => []ReadyIsPinned` |
| `ManifestBinds` | `Spec => []FinalBound` |
| `SessionsHonest` | `Spec => []SessionHonest` |
| `RecordsAnchored` | `Spec => []JournalAnchored` |
| `NothingReplaced` | `Spec => WriteOnce` |
| `CompletedDecisionStands` | `Spec => []CompletionStands` |
| `BlockedWithCause` | `Spec => []BlockedOnlyWithCause` |

`Spec` is that of `DecisionJournal`, the composition of all three modules. Assumed of the
constants: evidence no stage refuses is supported evidence, and `None` is no time, no
file, no error, no publication and no result.

*With overlaps* (`GameweekInv`). A run knows files of others by name, read at another time.
What is such a name worth? The file can only change while its writer is still at it, and then
two runs worked on the evidence at once, which `overlapped` has recorded (`OverlapsSeen`). So
`NamedState`, `NamedDecision` and `NamedReliability` say of a file named by a run, a file, a
gameweek decision or a final manifest: it is there, no longer torn and for the right
predecessor, or the evidence was overlapped. `RunRow` lists which names a run has at which
label. Each step of a run does one of a few things to its own files (`OwnStep`); `Onward` says
that a run keeps its evidence and a finished file stays, and from it the named files of all
others survive. Preparation, sessions and journal add their rows: what was pinned has a
reconciled refresh, observed before the deadline; whoever published a content showed it, and
read the clock before the deadline.

*Without overlaps* (`OrderInv`). For evidence that no two runs worked on at once, there is at
most one file of each kind (`OneEach`); the receipt leads to the state and each decision to
the receipt. The hard part is what a run has found *absent*: at `newstate` there is no state
yet, at `newdecision` no decision, at all labels before the final manifest no manifest
(`WorkRow`). Nobody else can have changed that since, because another run at work on the
same evidence would be an overlap. `CompletedDecisionStands` follows. `BlockedRow` records why
a run ended without a decision: the preparation was unsound, a stage refused the data, or an
earlier run died with a file in staging, where it stays.

Proving it also improved the property: `CompletionStands` used to except decisions whose
writer was still moving them, a case that cannot arise. The exception is gone.

### Private evidence and checkpoints

`CheckpointProofs` proves every property of the run `Private`, for any number of
invocations, contents, contexts, edits, checkpoints and restores:

| theorem | states |
|---|---|
| `StoreTypeCorrect` | `Spec => []StoreTypeOK` |
| `CapturesStand` | `Spec => []CapturedStands` |
| `OnlyCutsBlock` | `Spec => []BlockedOnlyByCut` |
| `RestoredOneInstant` | `Spec => []RestoredIsOneInstant` |
| `TreeOnlyGrows` | `Spec => [][Grows]_vars` |

Assumed: `None` is no context. `StoreInv` says of every directory that it is absent, whole,
being filled by exactly one invocation, or cut (`Slots`, stated once and used for contents,
observations and contexts), and of every invocation what it has verified so far (`Knows`).
`TreeOnlyGrows` makes the rest an argument about an order. `create` scans the tree twice
without a lock, part by part. What was scanned lies before the tree at the end of the first
scan, and that lies before what the second scan sees (`Precedes`); if the second scan finds
each part as it was, all three are equal. So the archive is the tree of one instant, the end
of the first scan, and it has the evidence of each of its contexts, as every tree has
(`Past`). The edits of the owner's file do not disturb this: each gives another edition.
That is also why a captured content is of one edition: while the file was read its edition
can only have grown, so if it is the same at the comparison nothing was saved in between, and
what was read is what the file was (`Knows` at `copied`).

### Decisions and their report

`DecisionProofs` proves both properties of the run `Choices`, for any league, artifact,
budget, bank, locked selection, screen and cap, and on the way what the algorithms compute:

| theorem | states |
|---|---|
| `OptimizeXIAnswers` | the exhaustive scan returns a best line-up of any squad, ties to the lowest ids |
| `SolverAnswers` | the criteria of the three solves, then the scan, give the optimum in the budget |
| `ChangesLead` | the change list leads from the locked line-up to the best one |
| `ReachableIs` | the legal swaps lead to exactly the affordable valid squads one transfer away |
| `DiagnosticIsScan` | the greedy algorithm of the report returns what the scan returns |
| `AlwaysFaithful` | `Spec => []Faithful` |
| `AlwaysAdviceIsBest` | `Spec => []AdviceIsBest` |
| `AlwaysReportReproducesDecision` | `Spec => []ReportReproducesDecision` |

The inductive invariant `Faithful` is needed because advice outlives the step that computed
it: a published decision is the evaluation of a sound universe, of the artifact as it still
is, and what is shown is what its command computes from that artifact and that decision.
Neither property is inductive: `AdviceIsBest` of a decision does not say that the views and
the diagnostic, run later, find its candidates again. The rest is about the algorithms.

* *The scan.* The nested loops are a strict total order on the line-ups of a squad
  (`ScannedOrdered`), so the sequence enumerates them all (`ScanEnumerates`). One comparison
  keeps a best line-up (`KeepBest`), hence the scan does (`KeptBest`), in whatever order it
  meets them: the report's scan over formations uses the same lemma.
* *The greedy algorithm.* In a best line-up a player could be exchanged for one of his
  position who is ahead of him, which would score more, or tie with lower ids. So a best
  line-up is the greedy one of its formation (`BestIsFormationXI`). This needs projections
  that are equal or more than the tolerance apart (`Distinct`, the negation of `NearTie`).
* *One transfer.* The code checks one swap, `Reachable` describes whole squads. They agree
  (`LegalSwapReachable`) because a swap within a position keeps the shape, because money
  compares the one player bought with the one sold, and because a club is counted without the
  player who leaves. The preference is a total order on the candidates (`PreferredOrdered`),
  so that the first of them is within the tolerance of every other.

Sums and scans are folds, recursive functions over finite sets. The provers cannot
instantiate an induction theorem, which takes a predicate. Here the predicate is a *set*: of
the subsets for which the recursive equation has a solution, or of the indexes for which a
fact holds. Well-foundedness of strict inclusion on the subsets of a finite set, which the
library states with sets, gives a minimal counterexample (`MinimalSet`), and from it that the
folds exist (`FoldExists`) and induction over numbers (`Induction`).

Assumed of the constants: their types (`SquadAssumption`, with `None` no integer and no
candidate), that some formation is possible and a squad has the players for each
(`FormationAssumption`: the hard-coded bounds satisfy it), that screens hide players
(`ReliabilityAssumption`), and `ToleranceAssumption`: no two scores of an artifact are more
than one and at most two tolerances apart. The last is a restriction on the data, which the
code does not enforce. It says that being tied is transitive, as the code takes it to be when
it sorts with `_candidate_compare` and when it replaces a line-up by a tied one. With the
tolerance at 1e-8 and projections of a few decimals it holds; what happens without it is the
second part of item 11 below.

### What stays with TLC

* Liveness: `AnswerEventually`, `CompletesUnlessDoomed`, `Concludes`, which rest on fairness
  and so on ENABLED.
* The three refuted properties (`SeenApart`, `IncompleteIsResumable`, `CrashIsReentered`) are
  counterexamples of small instances, and there is nothing to prove.

Every other property of every run is a theorem.

## What the runs found

1. **A refresh that fails late can never be resumed** (`RefreshResumable`). Resuming
   calls the history collection with `resume=True` whenever its directory exists, and
   a finished collection refuses (`official_data.py:443`). `RefreshIncompleteError`
   and TASK028A say the opposite. `RefreshLive` characterises all doomed states. One
   way into them is worth naming: a Ctrl-C after the manifest has said complete, in the
   logging and the return that follow (`refresh.py:827-843`), is still caught by the
   `except BaseException`, which rewrites the manifest to incomplete; the snapshot was
   whole and is now one that no resume completes. "A completed refresh is immutable"
   therefore holds from the return on, and `CompletedImmutable` says exactly that.
2. **The two sightings may be closer than 15 minutes** (`MonitorSeen`): observations
   are dated by the start of their invocation (`completion_monitor.py:1117`).
3. **A kill inside `publish_hashed` is not re-entered** (`ScheduleCrash`), contrary to
   the failure table of TASK028E. The torn record blocks every later run.

Met on the way, and as documented: asking a completed target for another prediction
leads to a review that no reset may leave; a kill between the terminal record and the
marker makes the next run call the engine once more.

The properties of the three newer runs hold. They are stated with these limits, which a
reader of the code should know; each is what the code does, seen in the model:

4. **A kill inside a staging directory blocks the evidence for ever.** Runs find files by
   searching below the decision directory (`_unique_artifact`), staging included, and
   nothing removes what a killed run left there. `README.md:1376` says that partial states
   are resumed. `BlockedOnlyWithCause` says when they are not: then, and when a stage refuses
   the data of this evidence, which retrying does not change.
5. **Overlapping resumes of the same evidence** may publish two manager states; every
   later resume then ends with a conflict. Hence `overlapped` in `CompletionStands` and
   `FinalBound`.
6. The deadline is read before the final manifest is built, so the file may appear after
   it. `FinalBound` is about the time that was read.
7. A preparation whose input was replaced between hashing and copying is published before
   it is validated, and its identifier stays unusable. It is never `ready` (`ReadyIsPinned`).
   Features or predictions replaced between their validation and the hashing are worse:
   hashes and copies agree, `_validate_preparation_directory` looks no further, and the
   preparation is reported ready. Every resume then refuses it
   (`load_validated_preparation`).
8. Ctrl-C while a squad is being replaced saves the draft in memory over the picks saved
   one by one, although each of them was reported as saved. `SessionHonest` holds, because
   the draft file is never evidence. Ctrl-C after the rename inside the publication reports
   CANCELLED, although the evidence is there.
9. A file that was linked and not yet unlinked from its temporary name, when its writer is
   killed, has two names for ever; `artifact_snapshot` and the readers of the private store
   refuse it (`Readable`, `BlockedOnlyByCut`).
10. `capture_source` and `create_context` take no directory back: a failure after the first
    `mkdir` blocks that digest, observation or context for ever (`BlockedOnlyByCut`).
11. Projections closer than the tolerance are tied in `optimize_xi` and ranked in
    `_fixed_squad_diagnostic`, so that the report may refuse its own engine's decision:
    `NearTie` excepts them. Candidates whose objectives differ by less are tied in the
    decision and ranked in the views: `CandidatesNearTie` excepts those. And being tied is not
    transitive. Line-ups of 3, 4 and 5 defenders, each 0.8 tolerances below the one before
    and with lower ids, are each tied with the line-up kept so far, so that `optimize_xi`
    returns the last one, 1.6 tolerances below the best; TLC evaluates such a league so. The
    order of the candidates is then none, and which one sorting puts first is open. Which
    line-up is kept then also depends on the order of the scan, which `ScanOrder` has by id
    and the code by its input, with an incoming player last. With the tolerance of 1e-8 no
    manager will notice; `ToleranceAssumption` excludes such artifacts.
12. Without any legal transfer the report ends with an `IndexError`
    (`build_sensitivity_views` indexes an empty ranking), although the decision itself is
    published as ROLL. `Analyze` has it as the command `crashed`.

## Plan

Done: every component that keeps state shared by steps of several actors is modelled.
Every safety property that a passing run checks is proved. Left, in this order:

1. The composition of `ProductionSchedule` and `CompletionMonitor` in one state machine,
   for the lock left behind by SIGTERM at deactivation. What each assumes of the other
   about receipts and outcomes is proved (`ContractOrder`, `ContractOutcomes`).
2. The publication of `evaluate-entry` and `evaluate-editable` reports as write-once files.

## Not modelled, and why

* `transform.py`, `gameweek_transform.py`, the SQL of `features.py`, `predictions.py` and
  `evaluation.py`: table expressions whose correctness is numerical. The models have their
  outputs, the order in which they are published and what refers to them.
* `historical*.py`: offline experiments over past seasons, sequential table arithmetic.
* `decision_diff.py`: a field-by-field comparison of two payloads that publishes nothing.
* `completion_monitor_schedule_drill.py`: the rehearsal the production script replaced.
* `artifact_snapshot.py` and `fpl_decision_app/`: bounded copies and GET handlers that
  change nothing; of the verified reads, what the session and the journal rely on is modelled.
* `__main__.py`, `tls.py`, `check_staged_*.py`, `inventory_private_evidence.py` and the web
  client: argument parsing, an HTTPS opener, scans of text, listings and display.
