------------------------------ MODULE JobDomain ------------------------------
(***************************************************************************)
(* The pure lifecycle decisions of crates/domain: what one piece of Agent  *)
(* evidence, or one operator decision, does to an Attempt and to the       *)
(* JobStep and the Job that own it.                                        *)
(*                                                                         *)
(* A decision takes the locked facts [job, job_step, attempt] (the states  *)
(* of the three rows an adapter holds locked when it calls the Domain) and *)
(* returns the facts to persist.  `NoOp' and `Conflict' outcomes persist   *)
(* nothing, so both return the facts they were given.  A JobStep's         *)
(* failure_reason is a function of its Attempt's terminal state, and       *)
(* events, audits and times decide nothing: none of them is modelled.      *)
(***************************************************************************)

JobState == {"Pending", "Running", "Cancelling",
             "Succeeded", "Failed", "Cancelled"}

JobStepState == {"Pending", "PreconditionsSatisfied", "Dispatching",
                 "Succeeded", "Failed", "Cancelled"}

AttemptState == {"Dispatched", "InProgress", "AwaitingReconciliation",
                 "Rejected", "Succeeded", "Failed", "Cancelled",
                 "Indeterminate"}

TerminalJob == {"Succeeded", "Failed", "Cancelled"}
TerminalStep == {"Succeeded", "Failed", "Cancelled"}
TerminalAttempt == {"Rejected", "Succeeded", "Failed", "Cancelled",
                    "Indeterminate"}

\* The states of an Attempt whose execution may still be under way; the
\* adapters' queries select exactly these as "active".
Executing == {"Dispatched", "InProgress"}
Active == Executing \cup {"AwaitingReconciliation"}

LockedFacts == [job : JobState, job_step : JobStepState, attempt : AttemptState]

ActionEvidence == {"AckAccepted", "AckRejected",
                   "ResultSucceeded", "ResultFailed"}
CancelAckEvidence == {"Cancelled", "AlreadyCompleted", "CannotCancel", "Unknown"}
StatusReportEvidence == {"Accepted", "Running", "Succeeded", "Failed",
                         "Cancelled", "Unknown"}

-----------------------------------------------------------------------------
(* Terminal outcomes shared by every decision.                             *)

terminal_failure(f, attempt) ==
  [job      |-> IF f.job = "Cancelling" THEN "Cancelled" ELSE "Failed",
   job_step |-> "Failed",
   attempt  |-> attempt]

\* Faulty variant: success leaves a Cancelling Job as it is.
FaultyTerminalSuccess(f, others) ==
  [job      |-> IF f.job = "Cancelling" THEN "Cancelling"
                ELSE IF others THEN "Succeeded" ELSE "Running",
   job_step |-> "Succeeded",
   attempt  |-> "Succeeded"]

\* `others' says whether every other JobStep of the Job is Succeeded.
terminal_success(f, others) ==
  [job      |-> IF f.job = "Cancelling" THEN "Cancelled"
                ELSE IF others THEN "Succeeded" ELSE "Running",
   job_step |-> "Succeeded",
   attempt  |-> "Succeeded"]

cancel_terminal(f) ==
  [job |-> "Cancelled", job_step |-> "Cancelled", attempt |-> "Cancelled"]

\* The Attempt had already ended by itself: only the Job is completed.
complete_cancellation_now(f) ==
  [job |-> "Cancelled", job_step |-> f.job_step, attempt |-> f.attempt]

\* Evidence that moves only the Attempt.
with_attempt(f, attempt) ==
  [job |-> f.job, job_step |-> f.job_step, attempt |-> attempt]

-----------------------------------------------------------------------------
(* ActionAck and ActionResult of a connected session.                      *)

\* Faulty variant: a success is believed whatever the Attempt's state.
FaultyActionEvidence(f, ev, others) ==
  IF ev = "ResultSucceeded" THEN terminal_success(f, others)
  ELSE IF ev = "AckAccepted" /\ f.attempt = "Dispatched"
       THEN with_attempt(f, "InProgress") ELSE f

apply_action_evidence(f, ev, others) ==
  IF ev = "AckAccepted" /\ f.attempt = "Dispatched"
  THEN with_attempt(f, "InProgress")
  ELSE IF ev = "AckRejected" /\ f.attempt = "Dispatched"
  THEN terminal_failure(f, "Rejected")
  ELSE IF ev = "ResultSucceeded" /\ f.attempt \in Executing
  THEN terminal_success(f, others)
  ELSE IF ev = "ResultFailed" /\ f.attempt \in Executing
  THEN terminal_failure(f, "Failed")
  ELSE f

(* CancelAck: only a Job that is Cancelling listens to it.                 *)

\* Faulty variant: what has completed, or what the Agent has never heard of,
\* counts as cancelled.
FaultyCancelAck(f, ev) ==
  IF f.job = "Cancelling" /\ f.attempt \in Active /\ ev # "CannotCancel"
  THEN cancel_terminal(f) ELSE f

apply_cancel_ack(f, ev) ==
  IF f.job # "Cancelling" THEN f
  ELSE IF ev = "Cancelled" /\ f.attempt \in Active
  THEN cancel_terminal(f)
  ELSE IF ev \in {"AlreadyCompleted", "Unknown"} /\ f.attempt \in Executing
  THEN with_attempt(f, "AwaitingReconciliation")
  ELSE IF ev = "AlreadyCompleted" /\ f.attempt \in TerminalAttempt
  THEN complete_cancellation_now(f)
  ELSE f

(* Reconciliation: uncertainty, the Agent's report, explicit closure.      *)

mark_awaiting_reconciliation(attempt) ==
  IF attempt \in Executing THEN "AwaitingReconciliation" ELSE attempt

apply_status_report(f, ev, others) ==
  IF f.attempt # "AwaitingReconciliation" THEN f
  ELSE IF ev \in {"Accepted", "Running"} THEN with_attempt(f, "InProgress")
  ELSE IF ev = "Succeeded" THEN terminal_success(f, others)
  ELSE IF ev = "Failed" THEN terminal_failure(f, "Failed")
  ELSE IF ev = "Cancelled" /\ f.job = "Cancelling" THEN cancel_terminal(f)
  ELSE f

close_indeterminate(f) ==
  IF f.attempt = "AwaitingReconciliation"
  THEN terminal_failure(f, "Indeterminate") ELSE f
=============================================================================
