---------------------------- MODULE JobLifecycle ----------------------------
(***************************************************************************)
(* The durable Job / JobStep / Attempt records and every transaction that  *)
(* changes them (server/src/adapters/postgres/job_repository.rs, called by *)
(* the services of server/src/application/mod.rs).                         *)
(*                                                                         *)
(* A transaction locks its rows, reads them afresh, asks the Domain for a  *)
(* decision and persists it, so each one is a single action here.  What    *)
(* reaches the records from outside - operators, schedulers, the Agent's   *)
(* messages, lost sessions, restarts - may arrive in any order and any     *)
(* number of times.  One restriction only: a CancelAck answers a           *)
(* CancelAction the Server has issued (the Agent's handle_cancel is the    *)
(* only sender of CancelAck).                                              *)
(***************************************************************************)
EXTENDS Naturals, JobDomain

CONSTANTS Endpoint,   \* the Enrolled Endpoints
          Job,        \* Job identifiers, drawn when a workflow is created
          Attempt,    \* Attempt (= action) identifiers, drawn at dispatch
          MaxSteps,   \* bound: the longest workflow
          None        \* no Endpoint, no Job

ASSUME MaxStepsAssumption == MaxSteps \in Nat \ {0}
ASSUME NoneAssumption == None \notin Endpoint \cup Job

Step == 1..MaxSteps

VARIABLES
  jobState,       \* jobs.state, "Absent" before create_workflow
  jobEndpoint,    \* jobs.endpoint_id
  stepState,      \* job_steps.state in step_order, "Absent" past the last step
  intent,         \* job_steps: is a DestructiveIntent recorded
  attemptState,   \* attempts.state, "Absent" before the dispatch commit
  attemptJob,     \* the Job that owns attempts.job_step_id
  attemptStep,    \* the step_order of attempts.job_step_id
  cancelActions   \* the Attempts for which a CancelAction has been issued

jobVars == <<jobState, jobEndpoint, stepState, intent>>
attemptVars == <<attemptState, attemptJob, attemptStep>>
vars == <<jobVars, attemptVars, cancelActions>>

Init ==
  /\ jobState = [j \in Job |-> "Absent"]
  /\ jobEndpoint = [j \in Job |-> None]
  /\ stepState = [j \in Job |-> [i \in Step |-> "Absent"]]
  /\ intent = [j \in Job |-> [i \in Step |-> FALSE]]
  /\ attemptState = [a \in Attempt |-> "Absent"]
  /\ attemptJob = [a \in Attempt |-> None]
  /\ attemptStep = [a \in Attempt |-> 0]
  /\ cancelActions = {}

-----------------------------------------------------------------------------
(* Creation, destructive intent, admission, preliminary eligibility.       *)

create_workflow(j, e, n) ==
  /\ jobState[j] = "Absent"
  /\ jobState' = [jobState EXCEPT ![j] = "Pending"]
  /\ jobEndpoint' = [jobEndpoint EXCEPT ![j] = e]
  /\ stepState' = [stepState EXCEPT
                     ![j] = [i \in Step |-> IF i <= n THEN "Pending" ELSE "Absent"]]
  /\ UNCHANGED <<intent, attemptVars, cancelActions>>

\* Only the JobStep row is locked: the Job may be in any state.
authorize_destructive_intent(j, i) ==
  /\ stepState[j][i] = "Pending"
  /\ ~intent[j][i]
  /\ intent' = [intent EXCEPT ![j][i] = TRUE]
  /\ UNCHANGED <<jobState, jobEndpoint, stepState, attemptVars, cancelActions>>

\* The partial unique index on jobs(endpoint_id) of the active Jobs.
EndpointAvailable(e) ==
  \A k \in Job : jobEndpoint[k] = e => jobState[k] \notin {"Running", "Cancelling"}

admit_job(j) ==
  /\ jobState[j] = "Pending"
  /\ EndpointAvailable(jobEndpoint[j])
  /\ jobState' = [jobState EXCEPT ![j] = "Running"]
  /\ UNCHANGED <<jobEndpoint, stepState, intent, attemptVars, cancelActions>>

EarlierStepsSucceeded(j, i) ==
  \A k \in Step : k < i => stepState[j][k] = "Succeeded"

satisfy_preliminary_preconditions(j, i) ==
  /\ jobState[j] = "Running"
  /\ stepState[j][i] = "Pending"
  /\ EarlierStepsSucceeded(j, i)
  /\ stepState' = [stepState EXCEPT ![j][i] = "PreconditionsSatisfied"]
  /\ UNCHANGED <<jobState, jobEndpoint, intent, attemptVars, cancelActions>>

-----------------------------------------------------------------------------
(* The dispatch commit.  A revalidation that fails returns the JobStep to  *)
(* Pending; one that passes creates the Attempt.                           *)

StepAttempts(j, i, states) ==
  {a \in Attempt : attemptJob[a] = j /\ attemptStep[a] = i
                   /\ attemptState[a] \in states}

Dispatchable(j, i) ==
  /\ jobState[j] = "Running"
  /\ EarlierStepsSucceeded(j, i)
  /\ StepAttempts(j, i, Active) = {}

CommitAttempt(j, i, a) ==
  /\ attemptState[a] = "Absent"
  /\ stepState' = [stepState EXCEPT ![j][i] = "Dispatching"]
  /\ attemptState' = [attemptState EXCEPT ![a] = "Dispatched"]
  /\ attemptJob' = [attemptJob EXCEPT ![a] = j]
  /\ attemptStep' = [attemptStep EXCEPT ![a] = i]
  /\ UNCHANGED <<jobState, jobEndpoint, intent, cancelActions>>

RevertToPending(j, i) ==
  /\ stepState' = [stepState EXCEPT ![j][i] = "Pending"]
  /\ UNCHANGED <<jobState, jobEndpoint, intent, attemptVars, cancelActions>>

\* `gate': the facts read under the same locks (identity, credential,
\* presence, inventory, target, hardware confidence, trusted bootstrap) hold.
commit_destructive_dispatch(j, i, a, gate) ==
  /\ stepState[j][i] = "PreconditionsSatisfied"
  /\ Dispatchable(j, i) /\ intent[j][i] /\ gate
  /\ CommitAttempt(j, i, a)

deny_destructive_dispatch(j, i, gate) ==
  /\ stepState[j][i] = "PreconditionsSatisfied"
  /\ ~(Dispatchable(j, i) /\ intent[j][i] /\ gate)
  /\ RevertToPending(j, i)

\* `unbound': the correlated Transfer has no Attempt yet.
commit_transfer_dispatch(j, i, a, unbound) ==
  /\ stepState[j][i] = "PreconditionsSatisfied" /\ ~intent[j][i]
  /\ Dispatchable(j, i) /\ unbound
  /\ CommitAttempt(j, i, a)

deny_transfer_dispatch(j, i, unbound) ==
  /\ stepState[j][i] = "PreconditionsSatisfied" /\ ~intent[j][i]
  /\ ~(Dispatchable(j, i) /\ unbound)
  /\ RevertToPending(j, i)

-----------------------------------------------------------------------------
(* Evidence about an Attempt, decided on the locked Attempt, JobStep, Job. *)

Facts(a) == [job      |-> jobState[attemptJob[a]],
             job_step |-> stepState[attemptJob[a]][attemptStep[a]],
             attempt  |-> attemptState[a]]

OtherStepsSucceeded(a) ==
  \A k \in Step \ {attemptStep[a]} :
    stepState[attemptJob[a]][k] \in {"Absent", "Succeeded"}

Persist(a, f) ==
  /\ attemptState' = [attemptState EXCEPT ![a] = f.attempt]
  /\ stepState' = [stepState EXCEPT ![attemptJob[a]][attemptStep[a]] = f.job_step]
  /\ jobState' = [jobState EXCEPT ![attemptJob[a]] = f.job]
  /\ UNCHANGED <<jobEndpoint, intent, attemptJob, attemptStep>>

ActionEvidenceApply(a, ev) ==
  /\ attemptState[a] # "Absent"
  /\ Persist(a, apply_action_evidence(Facts(a), ev, OtherStepsSucceeded(a)))
  /\ UNCHANGED cancelActions

CancelAckApply(a, ev) ==
  /\ attemptState[a] # "Absent"
  /\ a \in cancelActions
  /\ Persist(a, apply_cancel_ack(Facts(a), ev))
  /\ UNCHANGED cancelActions

StatusReportApply(a, ev) ==
  /\ attemptState[a] # "Absent"
  /\ Persist(a, apply_status_report(Facts(a), ev, OtherStepsSucceeded(a)))
  /\ UNCHANGED cancelActions

CloseIndeterminate(a) ==
  /\ attemptState[a] = "AwaitingReconciliation"
  /\ Persist(a, close_indeterminate(Facts(a)))
  /\ UNCHANGED cancelActions

-----------------------------------------------------------------------------
(* Cancellation requests, lost sessions and restarts.                      *)

JobAttempts(j, states) ==
  {a \in Attempt : /\ attemptState[a] \in states
                   /\ attemptJob[a] = j
                   /\ stepState[j][attemptStep[a]] = "Dispatching"}

\* With an active Attempt the Job waits for it and its CancelAction is
\* issued; without one the Job is Cancelled at once, its JobSteps untouched.
request_cancellation(j) ==
  /\ jobState[j] = "Running"
  /\ jobState' = [jobState EXCEPT
                    ![j] = IF JobAttempts(j, Active) = {} THEN "Cancelled"
                           ELSE "Cancelling"]
  /\ cancelActions' = cancelActions \cup JobAttempts(j, Active)
  /\ UNCHANGED <<jobEndpoint, stepState, intent, attemptVars>>

mark_endpoint_uncertain(a) ==
  /\ attemptState[a] \in Executing
  /\ stepState[attemptJob[a]][attemptStep[a]] = "Dispatching"
  /\ attemptState' = [attemptState EXCEPT ![a] = mark_awaiting_reconciliation(@)]
  /\ UNCHANGED <<jobVars, attemptJob, attemptStep, cancelActions>>

reconcile_on_startup ==
  /\ attemptState' = [a \in Attempt |-> mark_awaiting_reconciliation(attemptState[a])]
  /\ UNCHANGED <<jobVars, attemptJob, attemptStep, cancelActions>>

-----------------------------------------------------------------------------
Next ==
  \/ \E j \in Job, e \in Endpoint, n \in Step : create_workflow(j, e, n)
  \/ \E j \in Job : admit_job(j) \/ request_cancellation(j)
  \/ \E j \in Job, i \in Step :
       \/ authorize_destructive_intent(j, i)
       \/ satisfy_preliminary_preconditions(j, i)
       \/ \E ok \in BOOLEAN :
            \/ deny_destructive_dispatch(j, i, ok)
            \/ deny_transfer_dispatch(j, i, ok)
            \/ \E a \in Attempt : commit_destructive_dispatch(j, i, a, ok)
            \/ \E a \in Attempt : commit_transfer_dispatch(j, i, a, ok)
  \/ \E a \in Attempt :
       \/ \E ev \in ActionEvidence : ActionEvidenceApply(a, ev)
       \/ \E ev \in CancelAckEvidence : CancelAckApply(a, ev)
       \/ \E ev \in StatusReportEvidence : StatusReportApply(a, ev)
       \/ CloseIndeterminate(a)
       \/ mark_endpoint_uncertain(a)
  \/ reconcile_on_startup

Spec == Init /\ [][Next]_vars

-----------------------------------------------------------------------------
(* Properties.                                                             *)

\* Every column of the three tables holds a value of its type, and a row that
\* exists has its owner: a Job its Endpoint, an Attempt its JobStep.
TypeOK ==
  /\ jobState \in [Job -> JobState \cup {"Absent"}]
  /\ jobEndpoint \in [Job -> Endpoint \cup {None}]
  /\ stepState \in [Job -> [Step -> JobStepState \cup {"Absent"}]]
  /\ intent \in [Job -> [Step -> BOOLEAN]]
  /\ attemptState \in [Attempt -> AttemptState \cup {"Absent"}]
  /\ attemptJob \in [Attempt -> Job \cup {None}]
  /\ attemptStep \in [Attempt -> Step \cup {0}]
  /\ cancelActions \subseteq Attempt
  /\ \A j \in Job : jobState[j] # "Absent" => jobEndpoint[j] \in Endpoint
  /\ \A a \in Attempt : attemptState[a] # "Absent" =>
       attemptJob[a] \in Job /\ attemptStep[a] \in Step

\* An active Attempt is the current Attempt of a Dispatching JobStep of a
\* Running or Cancelling Job.  terminal_success sets a Job that is not
\* Cancelling to Running: only this keeps late evidence from reopening a Job.
ActiveAttemptHasLiveJob ==
  \A a \in Attempt : attemptState[a] \in Active =>
    /\ stepState[attemptJob[a]][attemptStep[a]] = "Dispatching"
    /\ jobState[attemptJob[a]] \in {"Running", "Cancelling"}

\* A JobStep is dispatched at most once: there is never a second Attempt for
\* it, whatever its first one's outcome was (no redispatch after uncertainty).
OneAttemptPerStep ==
  \A a, b \in Attempt :
    /\ attemptState[a] # "Absent" /\ attemptState[b] # "Absent"
    /\ attemptJob[a] = attemptJob[b] /\ attemptStep[a] = attemptStep[b]
    => a = b

\* At most one Attempt is active on an Endpoint; the adapters' queries for
\* the active Attempt of a Job or of an Endpoint report "invariant violation"
\* when they meet two.
OneActiveAttemptPerEndpoint ==
  \A a, b \in Attempt :
    /\ attemptState[a] \in Active /\ attemptState[b] \in Active
    /\ jobEndpoint[attemptJob[a]] = jobEndpoint[attemptJob[b]]
    => a = b

\* No Job waits for nothing: a Dispatching JobStep has an active Attempt, and
\* a Cancelling Job has an active Attempt whose CancelAction was issued.
NoStrandedWork ==
  \A j \in Job :
    /\ \A i \in Step : stepState[j][i] = "Dispatching" =>
         StepAttempts(j, i, Active) # {}
    /\ jobState[j] = "Cancelling" => JobAttempts(j, Active) \cap cancelActions # {}

\* A workflow is linear: a JobStep leaves Pending only after every earlier
\* one Succeeded, and a Succeeded Job ran all of its JobSteps.
LinearWorkflow ==
  \A j \in Job :
    /\ \A i \in Step : stepState[j][i] \notin {"Absent", "Pending"} =>
         EarlierStepsSucceeded(j, i)
    /\ jobState[j] = "Succeeded" =>
         \A i \in Step : stepState[j][i] \in {"Absent", "Succeeded"}

\* What a JobStep and a Job report is what their Attempts did: a JobStep has
\* Succeeded exactly when an Attempt of it did, and a Failed Job has a JobStep
\* whose Attempt ended Failed, Rejected or Indeterminate.
OutcomeHasEvidence ==
  \A j \in Job :
    /\ \A i \in Step :
         /\ stepState[j][i] = "Succeeded" <=> StepAttempts(j, i, {"Succeeded"}) # {}
         /\ stepState[j][i] = "Failed" <=>
              StepAttempts(j, i, {"Failed", "Rejected", "Indeterminate"}) # {}
    /\ jobState[j] = "Failed" => \E i \in Step : stepState[j][i] = "Failed"

\* A terminal Job, JobStep or Attempt never changes state again, in whatever
\* order late, duplicated or contradictory evidence arrives.
TerminalIsFinal ==
  [][/\ \A j \in Job : jobState[j] \in TerminalJob => jobState'[j] = jobState[j]
     /\ \A j \in Job, i \in Step : stepState[j][i] \in TerminalStep =>
          stepState'[j][i] = stepState[j][i]
     /\ \A a \in Attempt : attemptState[a] \in TerminalAttempt =>
          attemptState'[a] = attemptState[a]]_vars
=============================================================================
