---------------------------- MODULE DecisionJournal ----------------------------
(***************************************************************************)
(* What the owner did with a decision, and that the gameweek is over       *)
(* (src/src/fpl_decision_engine/decision_journal.py).                      *)
(*                                                                         *)
(* An entry records the owner's action beside the engine's for a completed *)
(* decision; an outcome records, for one entry, that the gameweek was      *)
(* completed officially.  Both are write-once files under a name derived   *)
(* from their contents.                                                    *)
(***************************************************************************)
EXTENDS EvidenceAuthoring

CONSTANT MaxRecords  \* bound on entries and outcomes

ASSUME JournalAssumption == MaxRecords \in Nat

VARIABLES
  entries,   \* the journal entries
  outcomes

journalVars == <<entries, outcomes>>

-----------------------------------------------------------------------------
Classification == {"PROSPECTIVE", "HISTORICAL_BACKFILL"}

\* decision: the manager state the decision is for; chain: the final manifest;
\* at: journal_created_at, and for a prospective entry the time of the action.
Entry   == [decision : Run, chain : Final, class : Classification, at : Time]
Outcome == [entry : Entry, at : Time]

JournalTypeOK ==
  /\ entries \subseteq Entry
  /\ outcomes \subseteq Outcome

JournalInit == entries = {} /\ outcomes = {}

Room == Cardinality(entries) + Cardinality(outcomes) < MaxRecords

(* _load_completed_evidence *)
Completed(s) == final[s] # None /\ Readable(s)

NewEntry(s, class) == [decision |-> s, chain |-> final[s], class |-> class, at |-> now]

(* Mutant: the time of a prospective action is not compared with the deadline. *)
RecordAtAnyTime(s, class) ==
  /\ Room /\ Completed(s)
  /\ entries' = entries \cup {NewEntry(s, class)}
  /\ UNCHANGED <<runnerVars, authoringVars, outcomes>>

(* record_decision_journal_entry: the chain is validated first and the clock
   read afterwards.  Nothing the entry relies on changes until it is linked. *)
RecordEntry(s, class) ==
  /\ Room /\ Completed(s)
  /\ class = "PROSPECTIVE" => BeforeDeadline
  /\ entries' = entries \cup {NewEntry(s, class)}
  /\ UNCHANGED <<runnerVars, authoringVars, outcomes>>

(* record_decision_outcome: the entry is anchored to its chain again, the clock
   must be past the deadline.  A snapshot that does not show the gameweek finished
   and checked is refused; that is the caller's choice. *)
RecordOutcome(e) ==
  /\ Room
  /\ Completed(e.decision) /\ final[e.decision] = e.chain
  /\ now > Deadline
  /\ outcomes' = outcomes \cup {[entry |-> e, at |-> now]}
  /\ UNCHANGED <<runnerVars, authoringVars, entries>>

JournalStep ==
  \/ \E s \in Run, class \in Classification : RecordEntry(s, class)
  \/ \E e \in entries : RecordOutcome(e)

-----------------------------------------------------------------------------
(* The whole gameweek *)

Init == RunnerInit /\ AuthoringInit /\ JournalInit

Next ==
  \/ RunnerNext /\ UNCHANGED <<authoringVars, journalVars>>
  \/ \E r \in Run : SessionStep(r) /\ UNCHANGED journalVars
  \/ JournalStep

vars == <<runnerVars, authoringVars, journalVars>>

Spec == Init /\ [][Next]_vars

-----------------------------------------------------------------------------
(* Properties *)

TypeOK == RunnerTypeOK /\ AuthoringTypeOK /\ JournalTypeOK

(* A journal entry stays evidence of what it says: its decision has exactly the
   final manifest it names, finalized before the entry; a prospective action is
   of a time before the deadline; and an outcome belongs to an entry that was
   there before it and was observed after the deadline, though other sessions
   and runs go on (decision_journal.py). *)
JournalAnchored ==
  /\ \A e \in entries : /\ final[e.decision] = e.chain /\ e.chain.at <= e.at
                        /\ e.class = "PROSPECTIVE" => e.at < Deadline
  /\ \A o \in outcomes : o.entry \in entries /\ o.entry.at <= o.at /\ o.at > Deadline
=============================================================================
