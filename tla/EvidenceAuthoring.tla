--------------------------- MODULE EvidenceAuthoring ---------------------------
(***************************************************************************)
(* How the owner's answers become verified manager evidence                *)
(* (src/src/fpl_decision_engine/manager_evidence_authoring.py and          *)
(* local_decision_wizard.py).                                              *)
(*                                                                         *)
(* A guided session selects a squad, saves it after every pick in one      *)
(* draft file per preparation, asks the other facts again, shows a review, *)
(* publishes the evidence under the hash of its contents and may then run  *)
(* the decision itself: session r makes call r of resume_gameweek.  Two    *)
(* sessions may share the draft file, and the owner may interrupt one at   *)
(* any question.  A content of evidence is named by the squad in it.       *)
(***************************************************************************)
EXTENDS OperationalRunner

VARIABLES
  draft,      \* what the shared draft file holds, or None
  session,    \* the session that call r of resume_gameweek belongs to
  published   \* by content: who published it, and the last reading of the clock before

authoringVars == <<draft, session, published>>

-----------------------------------------------------------------------------
(* A draft is empty, partly picked, or complete: then it has the squad of some
   evidence.  Only the squad of a saved draft is ever used again. *)
Draft == {"empty", "partial"} \cup Evidence

SessionLabels == {"idle", "squad", "picking", "facts", "review", "publish", "stage",
                  "rename", "published", "running", "ended"}
Results == {"CANCELLED", "DEADLINE_REACHED", "UNSUPPORTED", "STORAGE_FAILURE",
            "TRUST_CHAIN_INVALID", "VERIFIED_EVIDENCE_PUBLISHED",
            "VERIFIED_DECISION_AVAILABLE"}

\* draft: the one in memory; asked: the facts are answered; shown: the evidence
\* that the owner saw in the review and agreed to publish; read: what the clock
\* showed when it was last read.
SessionState == [pc : SessionLabels, draft : Draft, asked : BOOLEAN, read : Time,
                 shown : Evidence \cup {None}, result : Results \cup {None}]
Publication  == [by : Run, at : Time]

\* "None" is no publication and no result.
ASSUME AuthoringAssumption == None \notin Publication /\ None \notin Results

NewSession   == [pc |-> "idle", draft |-> "empty", asked |-> FALSE, read |-> 0, shown |-> None,
                 result |-> None]

AuthoringTypeOK ==
  /\ draft \in Draft \cup {None}
  /\ session \in [Run -> SessionState]
  /\ published \in [Evidence -> Publication \cup {None}]

AuthoringInit ==
  /\ draft = None
  /\ session = [r \in Run |-> NewSession]
  /\ published = [e \in Evidence |-> None]

In(r, l)       == session[r].pc = l
Proceed(r, l)  == session' = [session EXCEPT ![r].pc = l]
Closed(r, result) == [NewSession EXCEPT !.pc = "ended", !.shown = session[r].shown, !.result = result]
End(r, result) == session' = [session EXCEPT ![r] = Closed(r, result)]
Complete(d)    == d \in Evidence

-----------------------------------------------------------------------------
(* run_guided_manager_decision: from the draft to the review *)

(* The preparation is loaded and validated, then the clock and the draft. *)
StartSession(r) ==
  /\ In(r, "idle") /\ At(r, "idle")
  /\ Handed
  /\ CASE ~PreparationValid -> End(r, "TRUST_CHAIN_INVALID") /\ UNCHANGED draft
       [] PreparationValid /\ ~BeforeDeadline -> End(r, "DEADLINE_REACHED") /\ UNCHANGED draft
       [] OTHER ->
            /\ draft' = IF draft = None THEN "empty" ELSE draft
            /\ session' = [session EXCEPT ![r].pc = "squad", ![r].draft = draft']
  /\ UNCHANGED <<runnerVars, published>>

(* Mutant: an incomplete selection is offered as well. *)
UseAnySquad(r) ==
  /\ In(r, "squad")
  /\ draft' = session[r].draft
  /\ Proceed(r, "facts")
  /\ UNCHANGED <<runnerVars, published>>

UseSavedSquad(r) ==
  /\ In(r, "squad") /\ Complete(session[r].draft)
  /\ draft' = session[r].draft
  /\ Proceed(r, "facts")
  /\ UNCHANGED <<runnerVars, published>>

(* Chosen at the start or, with a save of the draft, in the review. *)
SelectSquad(r) ==
  /\ \/ In(r, "squad") /\ UNCHANGED draft
     \/ In(r, "review") /\ draft' = session[r].draft
  /\ Proceed(r, "picking")
  /\ UNCHANGED <<runnerVars, published>>

(* _select_squad saves every pick; the draft in memory follows at the end.
   Players that would break a rule of the game are not offered, so the squad is
   legal.  After a replacement in the review the selection is confirmed at
   once, or the draft is invalid. *)
Pick(r) ==
  /\ In(r, "picking")
  /\ draft' = "partial"
  /\ UNCHANGED <<runnerVars, session, published>>

PickLast(r, e) ==
  /\ In(r, "picking") /\ draft # None
  /\ draft' = e
  /\ \/ session' = [session EXCEPT ![r].draft = e,
                      ![r].pc = IF session[r].asked THEN "review" ELSE "facts"]
     \/ session[r].asked /\ End(r, "CANCELLED")
  /\ UNCHANGED <<runnerVars, published>>

(* Entry, bank, transfers, chip, source and the confirmation of the selection;
   every answer saves the draft again, also those that end the session. *)
AnswerFacts(r) ==
  /\ In(r, "facts")
  /\ draft' = session[r].draft
  /\ \/ session' = [session EXCEPT ![r].pc = "review", ![r].asked = TRUE]
     \/ End(r, "UNSUPPORTED")
     \/ End(r, "CANCELLED")
  /\ UNCHANGED <<runnerVars, published>>

Review(r) ==
  /\ In(r, "review")
  /\ \/ session' = [session EXCEPT ![r].pc = "publish", ![r].shown = session[r].draft]
     \/ End(r, "CANCELLED")
  /\ UNCHANGED <<runnerVars, draft, published>>

-----------------------------------------------------------------------------
(* publish_verified_evidence *)

ReadClock(r, l) == session' = [session EXCEPT ![r].pc = l, ![r].read = now]

(* Mutant: what is published is read back from the draft file. *)
PublishDraftFile(r) ==
  /\ In(r, "publish") /\ Complete(draft)
  /\ session' = [session EXCEPT ![r].pc = IF BeforeDeadline THEN "stage" ELSE "ended",
                                ![r].draft = draft,
                                ![r].result = IF BeforeDeadline THEN None ELSE "DEADLINE_REACHED"]
  /\ UNCHANGED <<runnerVars, draft, published>>

(* The clock is read, the draft is saved once more, the preparation must not
   have changed, and the clock is read again. *)
CheckPublication(r) ==
  /\ In(r, "publish")
  /\ CASE ~BeforeDeadline -> End(r, "DEADLINE_REACHED") /\ draft' \in {draft, session[r].draft}
       [] BeforeDeadline /\ ~PreparationValid -> End(r, "TRUST_CHAIN_INVALID") /\ draft' = session[r].draft
       [] OTHER -> /\ draft' = session[r].draft
                   /\ ReadClock(r, IF published[session[r].draft] # None THEN "published" ELSE "stage")
  /\ UNCHANGED <<runnerVars, published>>

(* Mutant: the time of the last reading is not compared with the deadline. *)
StageLate(r) ==
  /\ In(r, "stage")
  /\ ReadClock(r, "rename")
  /\ UNCHANGED <<runnerVars, draft, published>>

(* The staged file is loaded back and the clock is read for the last time. *)
StageEvidence(r) ==
  /\ In(r, "stage")
  /\ IF BeforeDeadline THEN ReadClock(r, "rename") ELSE End(r, "DEADLINE_REACHED")
  /\ UNCHANGED <<runnerVars, draft, published>>

(* A directory that another session published first is reused. *)
RenameEvidence(r) ==
  /\ In(r, "rename")
  /\ LET e == session[r].draft IN
     published' = [published EXCEPT ![e] = IF @ = None THEN [by |-> r, at |-> session[r].read] ELSE @]
  /\ Proceed(r, "published")
  /\ UNCHANGED <<runnerVars, draft>>

-----------------------------------------------------------------------------
(* The decision *)

(* The owner agrees to the run, or ends the session with the evidence. *)
RunDecision(r) ==
  /\ In(r, "published")
  /\ \/ StartResume(r, session[r].draft) /\ Proceed(r, "running")
     \/ End(r, "VERIFIED_EVIDENCE_PUBLISHED") /\ UNCHANGED runnerVars
  /\ UNCHANGED <<draft, published>>

(* load_verified_result reads the completed chain through an artifact snapshot,
   which refuses a file that still has two names.  An error that the session does
   not expect ends it without a result. *)
Readable(s) == CompletedChainValid(s) /\ statefile[s] # None /\ s \notin doubled

ShowDecision(r) ==
  /\ In(r, "running")
  /\ \/ At(r, "failed") /\ End(r, IF run[r].error = "UNEXPECTED" THEN None ELSE "TRUST_CHAIN_INVALID")
     \/ /\ At(r, "done")
        /\ End(r, IF Readable(run[r].state.by) THEN "VERIFIED_DECISION_AVAILABLE"
                                                ELSE "TRUST_CHAIN_INVALID")
  /\ UNCHANGED <<runnerVars, draft, published>>

-----------------------------------------------------------------------------
(* Interrupts and failures *)

(* End of input or Ctrl-C: the draft in memory is saved, which after some picks
   is the one before them.  The run, if there is one, stops where it is. *)
Interrupt(r) ==
  /\ session[r].pc \notin {"idle", "ended"}
  /\ faults < MaxFaults /\ faults' = faults + 1
  /\ draft' = session[r].draft
  /\ End(r, IF session[r].pc \in {"published", "running"}
              THEN "VERIFIED_EVIDENCE_PUBLISHED" ELSE "CANCELLED")
  /\ run' = IF Live(r) THEN [run EXCEPT ![r] = Ended(r, "dead")] ELSE run
  /\ UNCHANGED <<now, sources, prep, preparer, chain, overlapped, published>>

(* The draft or the staged evidence cannot be written. *)
StorageFails(r) ==
  /\ session[r].pc \notin {"idle", "published", "running", "ended"}
  /\ faults < MaxFaults /\ faults' = faults + 1
  /\ End(r, "STORAGE_FAILURE")
  /\ UNCHANGED <<now, sources, prep, preparer, run, chain, overlapped, draft, published>>

(* resume-gameweek from the command line, with any file of evidence. *)
ResumeByHand(r, e) ==
  /\ In(r, "idle")
  /\ StartResume(r, e)
  /\ UNCHANGED authoringVars

SessionStep(r) ==
  \/ StartSession(r) \/ UseSavedSquad(r) \/ SelectSquad(r) \/ Pick(r)
  \/ \E e \in Supported : PickLast(r, e)
  \/ AnswerFacts(r) \/ Review(r) \/ CheckPublication(r) \/ StageEvidence(r)
  \/ RenameEvidence(r) \/ RunDecision(r) \/ ShowDecision(r)
  \/ Interrupt(r) \/ StorageFails(r)
  \/ \E e \in Evidence : ResumeByHand(r, e)

-----------------------------------------------------------------------------
(* Properties *)

(* Whatever two sessions do with their common draft file, the evidence that is
   published is what the owner of the session that published it saw and agreed
   to, and the last time that session read the clock the deadline had not
   passed, though it may have when the evidence took its place; a session that
   claims published evidence or a verified decision has them, for that same
   evidence (run_guided_manager_decision, publish_verified_evidence). *)
SessionHonest ==
  /\ \A e \in Evidence : published[e] # None =>
       session[published[e].by].shown = e /\ published[e].at < Deadline
  /\ \A r \in Run : LET s == session[r] IN
       /\ s.result \in {"VERIFIED_EVIDENCE_PUBLISHED", "VERIFIED_DECISION_AVAILABLE"} =>
            published[s.shown] # None
       /\ s.result = "VERIFIED_DECISION_AVAILABLE" =>
            /\ run[r].ev = s.shown
            /\ final[run[r].state.by] # None /\ final[run[r].state.by].at < Deadline
=============================================================================
