-------------------------- MODULE OperationalRunner --------------------------
(***************************************************************************)
(* The two phases of a gameweek decision                                   *)
(* (src/src/fpl_decision_engine/operational_runner.py).                    *)
(*                                                                         *)
(* prepare_gameweek pins the official refresh, the features and the        *)
(* predictions of one gameweek in a preparation directory.                 *)
(* resume_gameweek binds one file of manager evidence to that preparation  *)
(* and publishes, one file after the other, a manager state, its receipt,  *)
(* a transfer decision, a reliability report, the gameweek decision and    *)
(* the final manifest.  There is no lock: two resumes of the same evidence *)
(* may run at once, a resume may be killed at any step, and the next one   *)
(* continues from the files it finds.                                      *)
(***************************************************************************)
EXTENDS Integers, FiniteSets

CONSTANTS Preparer,    \* calls of prepare_gameweek
          Run,         \* calls of resume_gameweek; each writes under a name of its own
          Evidence,    \* contents of manager evidence files
          Supported,   \* those for this preparation and without a chip
          Computable,  \* those whose data no decision stage refuses
          None,
          Deadline,    \* the official deadline; time is a small number
          MaxTime,     \* bound on time
          MaxFaults    \* bound on kills and replaced files

ASSUME RunnerAssumption == /\ Supported \subseteq Evidence /\ Computable \subseteq Supported
                           /\ None \notin Run /\ None \notin Evidence
ASSUME TimeAssumption   == /\ Deadline \in Nat /\ MaxTime \in Nat /\ MaxFaults \in Nat
                           /\ 0 < Deadline /\ Deadline <= MaxTime

VARIABLES
  now,
  observed,    \* when the refresh was observed, or None before it
  inputs,      \* the files prepare_gameweek works on
  predicting,  \* how far the prediction outputs are published
  prep,        \* the preparation directory, or None
  preparer,
  run,
  statefile,   \* manual_editable_state.json, by the run that wrote it
  receipt,     \* manager_submission.json, by evidence: the state it names
  decision,    \* candidates and one_transfer_decision.json, by writer
  reliability, \* decision_reliability.json, by writer
  gameweek,    \* gameweek_decision.json, by the manager state it is for
  final,       \* final_operational_manifest.json, likewise
  doubled,     \* the states whose gameweek decision or manifest still has its temporary name
  overlapped,  \* history: evidence two runs have worked on at once
  faults

sources    == <<observed, inputs, predicting>>
chain      == <<statefile, receipt, decision, reliability, gameweek, final, doubled>>
runnerVars == <<now, sources, prep, preparer, run, chain, overlapped, faults>>

-----------------------------------------------------------------------------
(* Values *)

(* The files that are pinned; "refresh" stands for bootstrap, fixtures, player
   histories, the players table and their manifests.  Version 0 is absent,
   1 as it was produced, 2 anything else. *)
Input   == {"refresh", "features", "predictions"}
Version == 0..2
Time    == 0..MaxTime

Preparation == [manifest : [Input -> Version], copies : [Input -> Version]]

PreparerLabels == {"idle", "event", "features", "predict", "predictdir", "predicthalf",
                   "validate", "pin", "publish", "copy", "check", "ready", "failed", "dead"}
PreparerState  == [pc : PreparerLabels, pinned : [Input -> Version],
                   copies : [Input -> Version]]
Nothing        == [i \in Input |-> 0]
Produced       == [i \in Input |-> 1]
Replaced       == [Produced EXCEPT !["features"] = 2]

(* A published file or a copy still in a staging directory, where every search
   by name (rglob) finds it as well.  "torn" is a file of which not all is
   written; for a decision, a staging directory with only the candidates.  A
   path to a file leads nowhere once the file has left its staging directory. *)
Stage       == {"torn", "whole", "final"}
Path        == [by : Run, stage : Stage]
StateFile   == [stage : Stage, ev : Evidence, at : Time]
Decision    == [stage : Stage, state : Path]
Reliability == [stage : Stage, state : Run, decision : Run]
Gameweek    == [decision : Run, reliability : Run]
Final       == [decision : Run, reliability : Run, at : Time]

Errors == {"DEADLINE", "INVALID_EVIDENCE", "CONFLICT", "HASH_MISMATCH", "MISSING",
           "STAGE_FAILED", "STORAGE", "UNEXPECTED"}

\* "None" is no time, no file and no error.
ASSUME AbsentAssumption ==
  /\ None \notin UNION {Time, Preparation, Path, StateFile, Decision, Reliability, Gameweek, Final}
  /\ None \notin Errors

RunLabels == {"idle", "state", "newstate", "fillstate", "movestate", "receipt", "decision",
              "newdecision", "filldecision", "movedecision", "reliability",
              "newreliability", "fillreliability", "movereliability", "assemble",
              "gameweek", "unlinkgameweek", "final", "unlinkfinal", "verify", "done", "failed", "dead"}
RunState == [pc : RunLabels, ev : Evidence \cup {None}, at : Time,
             state : Path \cup {None}, decision : Run \cup {None},
             reliability : Path \cup {None},
             error : Errors \cup {None}]
IdleRun  == [pc |-> "idle", ev |-> None, at |-> 0, state |-> None, decision |-> None,
             reliability |-> None, error |-> None]

RunnerTypeOK ==
  /\ now \in Time
  /\ observed \in Time \cup {None}
  /\ inputs \in [Input -> Version]
  /\ predicting \in {"none", "dir", "half", "both"}
  /\ prep \in Preparation \cup {None}
  /\ preparer \in [Preparer -> PreparerState]
  /\ run \in [Run -> RunState]
  /\ statefile \in [Run -> StateFile \cup {None}]
  /\ receipt \in [Evidence -> Path \cup {None}]
  /\ decision \in [Run -> Decision \cup {None}]
  /\ reliability \in [Run -> Reliability \cup {None}]
  /\ gameweek \in [Run -> Gameweek \cup {None}]
  /\ final \in [Run -> Final \cup {None}]
  /\ doubled \subseteq Run
  /\ overlapped \subseteq Evidence
  /\ faults \in 0..MaxFaults

(* Two histories begin here.  In one, nothing exists and the preparers run; in
   the other they have run, and left a preparation that is sound or, when an
   input was replaced before it was copied or already before it was hashed, not.
   Handed bounds the model: it keeps the phases apart, since a published
   preparation does not change. *)
RunnerInit ==
  /\ now = 0
  /\ \/ observed = None /\ predicting = "none" /\ prep = None /\ inputs = Nothing
     \/ /\ observed = 0 /\ predicting = "both" /\ inputs = Produced
        /\ \E hashed, copied \in {Produced, Replaced} :
             /\ hashed = Replaced => copied = Replaced
             /\ prep = [manifest |-> hashed, copies |-> copied]
  /\ preparer = [p \in Preparer |-> [pc |-> "idle", pinned |-> Nothing, copies |-> Nothing]]
  /\ run = [r \in Run |-> IdleRun]
  /\ statefile = [r \in Run |-> None] /\ receipt = [e \in Evidence |-> None]
  /\ decision = [r \in Run |-> None] /\ reliability = [r \in Run |-> None]
  /\ gameweek = [r \in Run |-> None] /\ final = [r \in Run |-> None]
  /\ doubled = {} /\ overlapped = {} /\ faults = 0

BeforeDeadline == now < Deadline
Handed == prep # None /\ \A p \in Preparer : preparer[p].pc = "idle"

(* _write_atomic: an absent file is linked, the same bytes are accepted. *)
Conflicts(old, new) == old \notin {None, new}

-----------------------------------------------------------------------------
(* prepare_gameweek *)

PreparerAt(p, l) == preparer[p].pc = l
PreparerGoto(p, l) == preparer' = [preparer EXCEPT ![p].pc = l]

(* The feature rule: every observation lies strictly before the deadline. *)
EvidenceCutoffHolds == observed \in Time /\ observed < Deadline

(* _validate_refresh and _official_event; whether the caller asked for the
   gameweek that is next depends on the caller. *)
RefreshReconciles == inputs["refresh"] = 1

FeatureMatches    == inputs["features"] = 1
PredictionMatches == predicting = "both" /\ inputs["predictions"] = 1

(* _validate_preparation_directory: the copies have the hashes of the manifest
   and the chain of refresh manifests reconciles.  What is in the features and
   the predictions is not looked at here. *)
DirectoryValid ==
  /\ prep # None
  /\ prep.copies = prep.manifest
  /\ prep.manifest["refresh"] = 1

(* load_validated_preparation validates the copies of the features and the
   predictions as well. *)
PreparationValid ==
  /\ DirectoryValid
  /\ prep.manifest["features"] = 1 /\ prep.manifest["predictions"] = 1

(* stages.refresh: a new snapshot.  Only a stage supplied by the caller returns
   a snapshot that was complete before; refresh_fpl_data refuses to. *)
RefreshStage(p) ==
  /\ PreparerAt(p, "idle") /\ ~Handed
  /\ IF inputs["refresh"] = 0
       THEN inputs' = [inputs EXCEPT !["refresh"] = 1] /\ observed' = now
       ELSE UNCHANGED <<inputs, observed>>
  /\ PreparerGoto(p, "event")
  /\ UNCHANGED <<now, predicting, prep, run, chain, overlapped, faults>>

OfficialEvent(p) ==
  /\ PreparerAt(p, "event")
  /\ \E next \in BOOLEAN :
       PreparerGoto(p, IF RefreshReconciles /\ next /\ BeforeDeadline THEN "features" ELSE "failed")
  /\ UNCHANGED <<now, sources, prep, run, chain, overlapped, faults>>

BuildFeatures(p) ==
  /\ PreparerAt(p, "features")
  /\ IF EvidenceCutoffHolds
       THEN /\ inputs' = [inputs EXCEPT !["features"] = IF @ = 0 THEN 1 ELSE @]
            /\ PreparerGoto(p, "predict")
       ELSE UNCHANGED inputs /\ PreparerGoto(p, "failed")
  /\ UNCHANGED <<now, observed, predicting, prep, run, chain, overlapped, faults>>

(* _validate_feature precedes the look at the prediction files. *)
FindPredictions(p) ==
  /\ PreparerAt(p, "predict")
  /\ PreparerGoto(p, CASE ~FeatureMatches -> "failed"
                       [] predicting = "none" -> "predictdir"
                       [] predicting = "both" -> "validate"
                       [] OTHER -> "failed")
  /\ UNCHANGED <<now, sources, prep, run, chain, overlapped, faults>>

(* _write_outputs_exclusive: the directory and then its two files. *)
Predict(p) ==
  \/ /\ PreparerAt(p, "predictdir")
     /\ IF predicting = "none"
          THEN predicting' = "dir" /\ PreparerGoto(p, "predicthalf")
          ELSE UNCHANGED predicting /\ PreparerGoto(p, "failed")
     /\ UNCHANGED inputs
  \/ /\ PreparerAt(p, "predicthalf")
     /\ IF predicting = "dir"
          THEN /\ predicting' = "half"
               /\ UNCHANGED <<inputs, preparer>>
          ELSE /\ predicting' = "both"
               /\ inputs' = [inputs EXCEPT !["predictions"] = 1]
               /\ PreparerGoto(p, "validate")

PredictStage(p) ==
  /\ Predict(p)
  /\ UNCHANGED <<now, observed, prep, run, chain, overlapped, faults>>

ValidatePredictions(p) ==
  /\ PreparerAt(p, "validate")
  /\ PreparerGoto(p, IF PredictionMatches THEN "pin" ELSE "failed")
  /\ UNCHANGED <<now, sources, prep, run, chain, overlapped, faults>>

(* build_preparation_manifest hashes every file once more, after they have
   been validated, and the deadline is checked again. *)
PinInputs(p) ==
  /\ PreparerAt(p, "pin")
  /\ IF EvidenceCutoffHolds /\ BeforeDeadline
       THEN preparer' = [preparer EXCEPT ![p].pc = "publish", ![p].pinned = inputs]
       ELSE PreparerGoto(p, "failed")
  /\ UNCHANGED <<now, sources, prep, run, chain, overlapped, faults>>

(* An existing directory is reused when it validates and has the same
   manifest; the identifier covers only deadline, gameweek and refresh. *)
ReusePreparation(p) ==
  /\ PreparerAt(p, "publish")
  /\ PreparerGoto(p, CASE prep = None -> "copy"
                       [] prep # None /\ DirectoryValid /\ prep.manifest = preparer[p].pinned -> "ready"
                       [] OTHER -> "failed")
  /\ UNCHANGED <<now, sources, prep, run, chain, overlapped, faults>>

CopyInput(p, i) ==
  /\ PreparerAt(p, "copy")
  /\ preparer[p].copies[i] = 0
  /\ preparer' = [preparer EXCEPT ![p].copies[i] = inputs[i]]
  /\ UNCHANGED <<now, sources, prep, run, chain, overlapped, faults>>

AllCopied(p) == \A i \in Input : preparer[p].copies[i] # 0

(* Mutant: the published copies are not validated. *)
RenameUnchecked(p) ==
  /\ PreparerAt(p, "copy")
  /\ AllCopied(p)
  /\ IF prep = None
       THEN /\ prep' = [manifest |-> preparer[p].pinned, copies |-> preparer[p].copies]
            /\ PreparerGoto(p, "ready")
       ELSE UNCHANGED prep /\ PreparerGoto(p, "failed")
  /\ UNCHANGED <<now, sources, run, chain, overlapped, faults>>

(* The staging directory is renamed; one that exists is not replaced. *)
RenamePreparation(p) ==
  /\ PreparerAt(p, "copy")
  /\ AllCopied(p)
  /\ IF prep = None
       THEN /\ prep' = [manifest |-> preparer[p].pinned, copies |-> preparer[p].copies]
            /\ PreparerGoto(p, "check")
       ELSE UNCHANGED prep /\ PreparerGoto(p, "failed")
  /\ UNCHANGED <<now, sources, run, chain, overlapped, faults>>

CheckPreparation(p) ==
  /\ PreparerAt(p, "check")
  /\ PreparerGoto(p, IF DirectoryValid THEN "ready" ELSE "failed")
  /\ UNCHANGED <<now, sources, prep, run, chain, overlapped, faults>>

(* A stage fails; predictions that are half published are rolled back. *)
PreparerFails(p) ==
  /\ preparer[p].pc \in {"features", "predictdir", "predicthalf", "copy"}
  /\ PreparerGoto(p, "failed")
  /\ predicting' = IF PreparerAt(p, "predicthalf") THEN "none" ELSE predicting
  /\ UNCHANGED <<now, observed, inputs, prep, run, chain, overlapped, faults>>

PrepareStep(p) ==
  \/ RefreshStage(p) \/ OfficialEvent(p) \/ BuildFeatures(p) \/ FindPredictions(p)
  \/ PredictStage(p) \/ ValidatePredictions(p) \/ PinInputs(p) \/ ReusePreparation(p)
  \/ \E i \in Input : CopyInput(p, i)
  \/ RenamePreparation(p) \/ CheckPreparation(p) \/ PreparerFails(p)

-----------------------------------------------------------------------------
(* resume_gameweek: looking at what is there *)

At(r, l)      == run[r].pc = l
Goto(r, l)    == run' = [run EXCEPT ![r].pc = l]
\* A call that ends forgets its local variables.
Ended(r, l)   == [IdleRun EXCEPT !.pc = l, !.ev = run[r].ev]
Fail(r, why)  == run' = [run EXCEPT ![r] = [Ended(r, "failed") EXCEPT !.error = why]]
Live(r)       == run[r].pc \notin {"idle", "done", "failed", "dead"}
RunnerIdle    == UNCHANGED <<now, sources, prep, preparer, overlapped, faults>>

Leads(files, path) == files[path.by] # None /\ files[path.by].stage = path.stage

States(e)        == {q \in Run : statefile[q] # None /\ statefile[q].ev = e}
Decisions(s)     == {q \in Run : decision[q] # None /\ decision[q].state.by = s}
Reliabilities(s) == {q \in Run : reliability[q] # None /\ reliability[q].state = s}

(* load_reliability_context: the decision names its candidates at their final
   place, and the manager state at the path it was read from. *)
ContextLoads(d) == /\ decision[d] # None
                   /\ decision[d].stage = "final" /\ Leads(statefile, decision[d].state)

(* build_gameweek_decision follows the links of both artifacts. *)
Builds(d, q) == /\ ContextLoads(d)
                /\ reliability[q] # None
                /\ reliability[q].stage # "torn" /\ reliability[q].decision = d

(* _completed_result: one decision and one reliability report below the
   decision directory, those the final manifest names, and a gameweek decision
   that is rebuilt to the same bytes. *)
CompletedChainValid(s) ==
  /\ final[s] # None
  /\ Decisions(s) = {final[s].decision}
  /\ Reliabilities(s) = {final[s].reliability}
  /\ gameweek[s] = [decision |-> final[s].decision, reliability |-> final[s].reliability]
  /\ Builds(final[s].decision, final[s].reliability)

-----------------------------------------------------------------------------
(* resume_gameweek: the steps *)

(* load_validated_preparation, the deadline, the evidence file and its
   alignment with the preparation; reuse does not come before the deadline. *)
StartResume(r, e) ==
  /\ At(r, "idle")
  /\ Handed
  /\ run' = [run EXCEPT ![r] =
       [IdleRun EXCEPT !.ev = e,
          !.pc = IF PreparationValid /\ BeforeDeadline /\ e \in Supported THEN "state" ELSE "failed",
          !.error = CASE ~PreparationValid -> "HASH_MISMATCH"
                      [] PreparationValid /\ ~BeforeDeadline -> "DEADLINE"
                      [] PreparationValid /\ BeforeDeadline /\ e \notin Supported -> "INVALID_EVIDENCE"
                      [] OTHER -> None]]
  /\ overlapped' = IF \E q \in Run \ {r} : Live(q) /\ run[q].ev = e
                     THEN overlapped \cup {e} ELSE overlapped
  /\ UNCHANGED <<now, sources, prep, preparer, chain, faults>>

(* Mutant: every call verifies the manager again. *)
VerifyAgain(r) ==
  /\ At(r, "state")
  /\ IF BeforeDeadline
       THEN run' = [run EXCEPT ![r].pc = "newstate", ![r].at = now]
       ELSE Fail(r, "DEADLINE")
  /\ RunnerIdle /\ UNCHANGED chain

(* _manager_state: the only state below the submission is adopted; without one
   the manager is verified now. *)
FindState(r) ==
  /\ At(r, "state")
  /\ LET e == run[r].ev IN
     CASE Cardinality(States(e)) > 1 -> Fail(r, "CONFLICT")
       [] States(e) = {} ->
            IF BeforeDeadline
              THEN run' = [run EXCEPT ![r].pc = "newstate", ![r].at = now]
              ELSE Fail(r, "DEADLINE")
       [] OTHER ->
            LET q    == CHOOSE x \in States(e) : TRUE
                path == [by |-> q, stage |-> statefile[q].stage]
            IN  IF path.stage = "torn" \/ Conflicts(receipt[e], path)
                  THEN Fail(r, "HASH_MISMATCH")
                  ELSE run' = [run EXCEPT ![r].state = path,
                                 ![r].pc = IF receipt[e] = None THEN "receipt" ELSE "decision"]
  /\ RunnerIdle /\ UNCHANGED chain

(* create_manual_editable_state: the file is opened and written in a staging
   directory, which is then renamed. *)
CreateState(r) ==
  /\ \/ /\ At(r, "newstate") /\ Goto(r, "fillstate")
        /\ statefile' = [statefile EXCEPT ![r] = [stage |-> "torn", ev |-> run[r].ev, at |-> run[r].at]]
     \/ /\ At(r, "fillstate") /\ Goto(r, "movestate")
        /\ statefile' = [statefile EXCEPT ![r].stage = "whole"]
     \/ /\ At(r, "movestate")
        /\ statefile' = [statefile EXCEPT ![r].stage = "final"]
        /\ run' = [run EXCEPT ![r].pc = "receipt", ![r].state = [by |-> r, stage |-> "final"]]
  /\ RunnerIdle /\ UNCHANGED <<receipt, decision, reliability, gameweek, final, doubled>>

(* Mutant: the receipt of another state is replaced. *)
ReplaceReceipt(r) ==
  /\ At(r, "receipt")
  /\ Goto(r, "decision") /\ receipt' = [receipt EXCEPT ![run[r].ev] = run[r].state]
  /\ RunnerIdle /\ UNCHANGED <<statefile, decision, reliability, gameweek, final, doubled>>

WriteReceipt(r) ==
  /\ At(r, "receipt")
  /\ LET e == run[r].ev IN
     IF Conflicts(receipt[e], run[r].state)
       THEN Fail(r, "CONFLICT") /\ UNCHANGED receipt
       ELSE Goto(r, "decision") /\ receipt' = [receipt EXCEPT ![e] = run[r].state]
  /\ RunnerIdle /\ UNCHANGED <<statefile, decision, reliability, gameweek, final, doubled>>

(* A completed decision is validated and returned.  Otherwise the only
   decision is adopted, unless it is half published. *)
FindDecision(r) ==
  /\ At(r, "decision")
  /\ LET s == run[r].state.by IN
     CASE final[s] # None -> Goto(r, "verify")
       [] final[s] = None /\ Cardinality(Decisions(s)) > 1 -> Fail(r, "CONFLICT")
       [] final[s] = None /\ Decisions(s) = {} -> Goto(r, "newdecision")
       [] OTHER ->
            LET d == CHOOSE x \in Decisions(s) : TRUE
            IN  IF decision[d].stage = "torn"
                  THEN Fail(r, "MISSING")
                  ELSE run' = [run EXCEPT ![r].pc = "reliability", ![r].decision = d]
  /\ RunnerIdle /\ UNCHANGED chain

(* write_one_transfer_decision: the candidates, the decision, the rename. *)
CreateDecision(r) ==
  /\ \/ /\ At(r, "newdecision") /\ Goto(r, "filldecision")
        /\ decision' = [decision EXCEPT ![r] = [stage |-> "torn", state |-> run[r].state]]
     \/ /\ At(r, "filldecision") /\ Goto(r, "movedecision")
        /\ decision' = [decision EXCEPT ![r].stage = "whole"]
     \/ /\ At(r, "movedecision")
        /\ decision' = [decision EXCEPT ![r].stage = "final"]
        /\ run' = [run EXCEPT ![r].pc = "reliability", ![r].decision = r]
  /\ RunnerIdle /\ UNCHANGED <<statefile, receipt, reliability, gameweek, final, doubled>>

(* A stage refuses the data, as it does every time.  evaluate_transfer does so
   before a file is written, a transfer without a free one for instance; the
   reliability report when its context or its analysis is refused, or, without
   a candidate, with an error that nobody expects; build_gameweek_decision when
   the report is published.  Over-approximated: any of them may refuse data that
   is not Computable. *)
StageRefuses(r) ==
  /\ run[r].ev \notin Computable
  /\ \/ /\ run[r].pc \in {"newdecision", "reliability", "newreliability", "gameweek"}
        /\ Fail(r, "STAGE_FAILED")
     \/ At(r, "newreliability") /\ Fail(r, "UNEXPECTED")
  /\ RunnerIdle /\ UNCHANGED chain

FindReliability(r) ==
  /\ At(r, "reliability")
  /\ LET found == Reliabilities(run[r].state.by) IN
     CASE ~ContextLoads(run[r].decision) -> Fail(r, "STAGE_FAILED")
       [] ContextLoads(run[r].decision) /\ Cardinality(found) > 1 -> Fail(r, "CONFLICT")
       [] ContextLoads(run[r].decision) /\ found = {} -> Goto(r, "newreliability")
       [] OTHER ->
            LET q == CHOOSE x \in found : TRUE
            IN  IF Builds(run[r].decision, q)
                  THEN run' = [run EXCEPT ![r].pc = "gameweek",
                                 ![r].reliability = [by |-> q, stage |-> reliability[q].stage]]
                  ELSE Fail(r, "STAGE_FAILED")
  /\ RunnerIdle /\ UNCHANGED chain

(* write_decision_reliability, and build_gameweek_decision at its end. *)
CreateReliability(r) ==
  /\ \/ /\ At(r, "newreliability") /\ Goto(r, "fillreliability")
        /\ reliability' = [reliability EXCEPT ![r] =
             [stage |-> "torn", state |-> run[r].state.by, decision |-> run[r].decision]]
     \/ /\ At(r, "fillreliability") /\ Goto(r, "movereliability")
        /\ reliability' = [reliability EXCEPT ![r].stage = "whole"]
     \/ /\ At(r, "movereliability")
        /\ reliability' = [reliability EXCEPT ![r].stage = "final"]
        /\ IF ContextLoads(run[r].decision)
             THEN run' = [run EXCEPT ![r].pc = "gameweek",
                            ![r].reliability = [by |-> r, stage |-> "final"]]
             ELSE Fail(r, "STAGE_FAILED")
  /\ RunnerIdle /\ UNCHANGED <<statefile, receipt, decision, gameweek, final, doubled>>

Built(r)     == [decision |-> run[r].decision, reliability |-> run[r].reliability.by]
Manifest(r)  == [decision |-> run[r].decision, reliability |-> run[r].reliability.by, at |-> run[r].at]

(* Mutant: the clock is not read again. *)
FinalizeWithoutClock(r) ==
  /\ At(r, "gameweek")
  /\ run' = [run EXCEPT ![r].pc = "final", ![r].at = now]
  /\ RunnerIdle /\ UNCHANGED chain

(* The finalization time, and build_final_operational_manifest, which hashes
   the artifacts at the paths they were found at. *)
Finalize(r) ==
  /\ At(r, "gameweek")
  /\ CASE Conflicts(gameweek[run[r].state.by], Built(r)) -> Fail(r, "CONFLICT")
       [] ~Conflicts(gameweek[run[r].state.by], Built(r)) /\ ~BeforeDeadline -> Fail(r, "DEADLINE")
       [] OTHER -> IF Leads(reliability, run[r].reliability)
                     THEN run' = [run EXCEPT ![r].pc = "assemble", ![r].at = now]
                     ELSE Fail(r, "MISSING")
  /\ RunnerIdle /\ UNCHANGED chain

(* _write_atomic links the file under its name and only then removes the
   temporary one.  While it has both, an artifact snapshot does not read it. *)
WriteGameweek(r) ==
  /\ At(r, "assemble")
  /\ LET s == run[r].state.by IN
     CASE gameweek[s] = None ->
            /\ Goto(r, "unlinkgameweek") /\ gameweek' = [gameweek EXCEPT ![s] = Built(r)]
            /\ doubled' = doubled \cup {s}
       [] gameweek[s] = Built(r) -> Goto(r, "final") /\ UNCHANGED <<gameweek, doubled>>
       [] OTHER -> Fail(r, "CONFLICT") /\ UNCHANGED <<gameweek, doubled>>
  /\ RunnerIdle /\ UNCHANGED <<statefile, receipt, decision, reliability, final>>

WriteFinal(r) ==
  /\ At(r, "final")
  /\ LET s == run[r].state.by IN
     CASE final[s] = None ->
            /\ Goto(r, "unlinkfinal") /\ final' = [final EXCEPT ![s] = Manifest(r)]
            /\ doubled' = doubled \cup {s}
       [] final[s] = Manifest(r) -> Goto(r, "verify") /\ UNCHANGED <<final, doubled>>
       [] OTHER -> Fail(r, "CONFLICT") /\ UNCHANGED <<final, doubled>>
  /\ RunnerIdle /\ UNCHANGED <<statefile, receipt, decision, reliability, gameweek>>

Unlink(r) ==
  /\ \/ At(r, "unlinkgameweek") /\ Goto(r, "final")
     \/ At(r, "unlinkfinal") /\ Goto(r, "verify")
  /\ doubled' = doubled \ {run[r].state.by}
  /\ RunnerIdle /\ UNCHANGED <<statefile, receipt, decision, reliability, gameweek, final>>

VerifyCompleted(r) ==
  /\ At(r, "verify")
  /\ IF CompletedChainValid(run[r].state.by) /\ Leads(statefile, run[r].state)
       THEN Goto(r, "done")
       ELSE Fail(r, "HASH_MISMATCH")
  /\ RunnerIdle /\ UNCHANGED chain

ResumeStep(r) ==
  \/ FindState(r) \/ CreateState(r) \/ WriteReceipt(r) \/ FindDecision(r)
  \/ CreateDecision(r) \/ FindReliability(r) \/ CreateReliability(r) \/ StageRefuses(r)
  \/ Finalize(r) \/ WriteGameweek(r) \/ WriteFinal(r) \/ Unlink(r) \/ VerifyCompleted(r)

-----------------------------------------------------------------------------
(* Faults and time *)

Fault == faults < MaxFaults /\ faults' = faults + 1

(* Mutant: the staging directory stays. *)
StageLeftBehind(r) ==
  /\ Fault
  /\ run[r].pc \in {"fillstate", "movestate", "filldecision", "movedecision",
                      "fillreliability", "movereliability"}
  /\ Fail(r, "STORAGE")
  /\ UNCHANGED <<now, sources, prep, preparer, chain, overlapped>>

(* A write or rename fails: the staging directory is removed again. *)
StageFails(r) ==
  /\ Fault
  /\ Fail(r, "STORAGE")
  /\ \/ run[r].pc \in {"fillstate", "movestate"} /\ statefile' = [statefile EXCEPT ![r] = None]
        /\ UNCHANGED <<decision, reliability>>
     \/ run[r].pc \in {"filldecision", "movedecision"} /\ decision' = [decision EXCEPT ![r] = None]
        /\ UNCHANGED <<statefile, reliability>>
     \/ run[r].pc \in {"fillreliability", "movereliability"} /\ reliability' = [reliability EXCEPT ![r] = None]
        /\ UNCHANGED <<statefile, decision>>
  /\ UNCHANGED <<now, sources, prep, preparer, receipt, gameweek, final, doubled, overlapped>>

KillRun(r) ==
  /\ Live(r) /\ Fault /\ run' = [run EXCEPT ![r] = Ended(r, "dead")]
  /\ UNCHANGED <<now, sources, prep, preparer, chain, overlapped>>

KillPreparer(p) ==
  /\ preparer[p].pc \notin {"idle", "ready", "failed", "dead"} /\ Fault /\ PreparerGoto(p, "dead")
  /\ UNCHANGED <<now, sources, prep, run, chain, overlapped>>

(* A file outside the preparation is replaced or damaged; no resume reads it. *)
ReplaceInput(i) ==
  /\ inputs[i] = 1 /\ ~Handed /\ Fault
  /\ inputs' = [inputs EXCEPT ![i] = 2]
  /\ UNCHANGED <<now, observed, predicting, prep, preparer, run, chain, overlapped>>

Tick ==
  /\ now < MaxTime /\ now' = now + 1
  /\ UNCHANGED <<sources, prep, preparer, run, chain, overlapped, faults>>

\* Who starts a resume is up to the modules that extend this one.
RunnerNext ==
  \/ \E p \in Preparer : PrepareStep(p) \/ KillPreparer(p)
  \/ \E r \in Run : ResumeStep(r) \/ StageFails(r) \/ KillRun(r)
  \/ \E i \in Input : ReplaceInput(i)
  \/ Tick

-----------------------------------------------------------------------------
(* Properties *)

(* A preparation that was reported ready is pinned: its copies are exactly the
   files this call hashed, of one reconciled refresh that was observed before
   the deadline, though files may be replaced between hashing and copying and
   another call may publish first (prepare_gameweek).  It does not say that they
   are the files this call validated: features or predictions that are replaced
   between validation and hashing are pinned and reported ready as well. *)
ReadyIsPinned ==
  \A p \in Preparer : PreparerAt(p, "ready") =>
     /\ prep.copies = preparer[p].pinned /\ prep.manifest = preparer[p].pinned
     /\ prep.copies["refresh"] = 1 /\ observed < Deadline

(* A final manifest binds one chain: it names the decision and the reliability
   report that the gameweek decision was built from, both made for the manager
   state it is filed under, and neither the verification of the manager nor
   the finalization happened at the deadline or later, nor in the wrong order.
   Holds with killed runs, and with overlapping ones as far as the files still
   exist: a run may adopt a file that its writer then fails to move to its
   place and removes (resume_gameweek). *)
FinalBound ==
  \A s \in Run : final[s] # None =>
     LET f == final[s] IN
     /\ gameweek[s] = [decision |-> f.decision, reliability |-> f.reliability]
     /\ decision[f.decision] # None
     /\ decision[f.decision].stage = "final" /\ decision[f.decision].state.by = s
     /\ IF reliability[f.reliability] = None
          THEN run[s].ev \in overlapped
          ELSE /\ reliability[f.reliability].stage # "torn"
               /\ reliability[f.reliability].decision = f.decision
     /\ IF statefile[s] = None
          THEN run[s].ev \in overlapped
          ELSE statefile[s].ev = run[s].ev /\ statefile[s].at <= f.at
     /\ run[s].ev \in Supported /\ f.at < Deadline

(* While no two resumes of the evidence overlapped, it has at most one
   completed decision, whatever was killed or failed, and a completed decision
   stays readable: no later run adds anything that makes its chain ambiguous. *)
CompletionStands ==
  \A s \in Run : final[s] # None /\ run[s].ev \notin overlapped =>
     States(run[s].ev) = {s} /\ CompletedChainValid(s)

(* Nothing published is replaced or taken away again: not the preparation, not
   a file that reached its final place, not the receipt, the gameweek decision
   or the final manifest (_write_atomic and the renamed directories). *)
WriteOnce ==
  [][/\ prep # None => prep' = prep
     /\ \A q \in Run :
          /\ statefile[q] # None /\ statefile[q].stage = "final" => statefile'[q] = statefile[q]
          /\ decision[q] # None /\ decision[q].stage = "final" => decision'[q] = decision[q]
          /\ reliability[q] # None /\ reliability[q].stage = "final" => reliability'[q] = reliability[q]
          /\ gameweek[q] # None => gameweek'[q] = gameweek[q]
          /\ final[q] # None => final'[q] = final[q]
     /\ \A e \in Evidence : receipt[e] # None => receipt'[e] = receipt[e]]_runnerVars

(* What stops an interrupted decision from being resumed.  If no other run
   worked on the evidence at the same time and the preparation is sound, a
   resume of supported evidence that does not end with a decision, though
   neither the clock nor the disk stopped it, has one of two causes.  A decision stage refuses the data of
   this evidence, and then it finds no ambiguity, mismatch or missing file; or an
   earlier resume was killed while a file was still in its staging directory,
   where it stays and is found again every time (_unique_artifact,
   _manager_state; README.md:1376 says without this exception that partial states
   are resumed). *)
LeftStaged(q) ==
  /\ run[q].pc = "dead"
  /\ \/ statefile[q] # None /\ statefile[q].stage # "final"
     \/ decision[q] # None /\ decision[q].stage # "final"
     \/ reliability[q] # None /\ reliability[q].stage # "final"

BlockedOnlyWithCause ==
  \A r \in Run :
     run[r].error \in {"CONFLICT", "HASH_MISMATCH", "MISSING", "STAGE_FAILED", "UNEXPECTED"}
       /\ run[r].ev \notin overlapped /\ PreparationValid
     => \/ \E q \in Run : run[q].ev = run[r].ev /\ LeftStaged(q)
        \/ run[r].error \in {"STAGE_FAILED", "UNEXPECTED"} /\ run[r].ev \notin Computable
=============================================================================
