--------------------------- MODULE EngineContract ---------------------------
(***************************************************************************)
(* What the production schedule may expect of the engine it calls, the     *)
(* one-shot completion monitor (call_task028b, normalized_monitor_call):   *)
(* the order in which receipts are accepted for its target, and which      *)
(* outcomes a call may report, given what has been accepted.               *)
(*                                                                         *)
(* ProductionSchedule assumes it; MonitorCarefulProofs proves that         *)
(* CompletionMonitor keeps it.                                             *)
(***************************************************************************)

Receipts == {"none", "realized", "evaluated"}

(* What may be accepted next: a realized snapshot, then its evaluation. *)
Successors(accepted) ==
  CASE accepted = "none"      -> {"realized"}
    [] accepted = "realized"  -> {"evaluated"}
    [] accepted = "evaluated" -> {}

(* What a call may report: locked, a retryable probe failure, review and errors
   at any time, success only if it is accepted.  A call that decided to wait, or
   that its realized snapshot is all there is, may report it after another
   invocation has accepted more. *)
Possible(accepted) ==
  {"locked", "retryable", "error", "REVIEW_REQUIRED", "WAITING"}
    \cup (IF accepted # "none" THEN {"REALIZED_COMPLETE"} ELSE {})
    \cup (IF accepted = "evaluated" THEN {"COMPLETE"} ELSE {})
=============================================================================
