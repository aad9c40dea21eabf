--------------------------- MODULE ReceiptLedger ---------------------------
(***************************************************************************)
(* What the completion monitor promises about the two receipts of one      *)
(* season/gameweek target, whoever calls it, however often, and wherever   *)
(* it is killed:                                                           *)
(*                                                                         *)
(*   - a realized receipt is accepted at most once, and only for a         *)
(*     snapshot that was completely downloaded and finalized;              *)
(*   - an evaluation receipt is accepted at most once, only after the      *)
(*     realized receipt, and it evaluates that very snapshot;              *)
(*   - nothing is ever retracted or replaced.                              *)
(*                                                                         *)
(* CompletionMonitor implements this specification.                        *)
(***************************************************************************)
EXTENDS Naturals

CONSTANTS Snapshots,      \* identities of official data snapshots
          Predictions,    \* identities of frozen pre-deadline predictions
          NoReceipt       \* "the receipt file does not exist"

VARIABLES finalized,      \* snapshots that are complete and finalized
          realized,       \* the snapshot the realized receipt names
          evaluation      \* what the evaluation receipt names

ledgerVars == <<finalized, realized, evaluation>>

LedgerTypeOK ==
  /\ finalized \subseteq Snapshots
  /\ realized \in Snapshots \cup {NoReceipt}
  /\ evaluation \in [pred : Predictions, snap : Snapshots] \cup {NoReceipt}

LedgerInit ==
  /\ finalized = {}
  /\ realized = NoReceipt
  /\ evaluation = NoReceipt

(* Finalized data appears, by any means, and stays what it was. *)
Finalize(s) ==
  /\ s \in Snapshots \ finalized
  /\ finalized' = finalized \cup {s}
  /\ UNCHANGED <<realized, evaluation>>

AcceptRealized(s) ==
  /\ realized = NoReceipt
  /\ s \in finalized
  /\ realized' = s
  /\ UNCHANGED <<finalized, evaluation>>

AcceptEvaluation(q) ==
  /\ realized # NoReceipt
  /\ evaluation = NoReceipt
  /\ evaluation' = [pred |-> q, snap |-> realized]
  /\ UNCHANGED <<finalized, realized>>

LedgerNext ==
  \/ \E s \in Snapshots : Finalize(s) \/ AcceptRealized(s)
  \/ \E q \in Predictions : AcceptEvaluation(q)

LedgerSpec == LedgerInit /\ [][LedgerNext]_ledgerVars
=============================================================================
