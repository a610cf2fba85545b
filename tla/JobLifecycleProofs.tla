------------------------- MODULE JobLifecycleProofs -------------------------
(***************************************************************************)
(* Proofs about JobLifecycle for any number of Endpoints, Jobs, Attempts   *)
(* and workflow steps.                                                     *)
(*                                                                         *)
(* The argument: every Domain decision either leaves the Job and JobStep   *)
(* alone and keeps an active Attempt active (a soft step), or ends an      *)
(* active Attempt together with its JobStep (a terminal step).  With the   *)
(* inductive invariant IInv below, which ties the state of each JobStep to *)
(* the state of its only Attempt, both kinds of step are safe.             *)
(***************************************************************************)
EXTENDS JobLifecycle, TLAPS

\* The time limit of the solver, in seconds, for every leaf that names no other
\* prover.
USE SMTT(60)

Owns(a, j, i) == attemptState[a] # "Absent" /\ attemptJob[a] = j /\ attemptStep[a] = i

\* The state of the JobStep of an Attempt in state s.
StepOf(s) == IF s \in Active THEN "Dispatching"
             ELSE IF s \in {"Succeeded", "Cancelled"} THEN s ELSE "Failed"

StepFollowsAttempt ==
  \A a \in Attempt : attemptState[a] # "Absent" =>
    stepState[attemptJob[a]][attemptStep[a]] = StepOf(attemptState[a])

StartedStepHasAttempt ==
  \A j \in Job, i \in Step :
    stepState[j][i] \in {"Dispatching"} \cup TerminalStep =>
      \E a \in Attempt : Owns(a, j, i)

ActiveJobIsLive ==
  \A a \in Attempt : attemptState[a] \in Active =>
    jobState[attemptJob[a]] \in {"Running", "Cancelling"}

ExclusiveJobs ==
  \A j, k \in Job :
    /\ jobState[j] \in {"Running", "Cancelling"} /\ jobState[k] \in {"Running", "Cancelling"}
    /\ jobEndpoint[j] = jobEndpoint[k]
    => j = k

AbsentJobHasNoSteps ==
  \A j \in Job : jobState[j] = "Absent" => \A i \in Step : stepState[j][i] = "Absent"

CancelTargets ==
  \A a \in cancelActions :
    /\ attemptState[a] # "Absent"
    /\ jobState[attemptJob[a]] \in {"Cancelling"} \cup TerminalJob
    /\ jobState[attemptJob[a]] = "Cancelling" => attemptState[a] \in Active

CancellingWaits ==
  \A j \in Job : jobState[j] = "Cancelling" =>
    \E a \in cancelActions : attemptJob[a] = j /\ attemptState[a] \in Active

FailedJobHasFailedStep ==
  \A j \in Job : jobState[j] = "Failed" => \E i \in Step : stepState[j][i] = "Failed"

IInv ==
  /\ TypeOK
  /\ StepFollowsAttempt /\ StartedStepHasAttempt /\ OneAttemptPerStep
  /\ ActiveJobIsLive /\ ExclusiveJobs /\ AbsentJobHasNoSteps
  /\ LinearWorkflow /\ CancelTargets /\ CancellingWaits
  /\ FailedJobHasFailedStep

-----------------------------------------------------------------------------
(* What a Domain decision can do to the facts it is given.                 *)

\* The state of the Job, from state js, once its Attempt ended in state s.
EndedJob(js, s, others) ==
  IF js = "Cancelling" THEN "Cancelled"
  ELSE IF s # "Succeeded" THEN "Failed"
  ELSE IF others THEN "Succeeded" ELSE "Running"

Ends(f, g, others) ==
  /\ f.attempt \in Active /\ g.attempt \in TerminalAttempt
  /\ g.job_step = StepOf(g.attempt)
  /\ g.job = EndedJob(f.job, g.attempt, others)
  /\ g.attempt = "Cancelled" => f.job = "Cancelling"

KeepsActive(f, g) ==
  /\ f.attempt \in Active /\ g.attempt \in Active
  /\ g.job = f.job /\ g.job_step = f.job_step

Decides(f, g, others) == g = f \/ KeepsActive(f, g) \/ Ends(f, g, others)

\* apply_action_evidence keeps an active Attempt active or ends it with its
\* JobStep; everything else leaves the facts alone.
LEMMA ActionEvidenceDecides ==
  ASSUME NEW f \in LockedFacts, NEW ev \in ActionEvidence, NEW others \in BOOLEAN
  PROVE  Decides(f, apply_action_evidence(f, ev, others), others)
  BY Zenon DEF LockedFacts, ActionEvidence, Decides, KeepsActive, Ends, EndedJob, StepOf,
         apply_action_evidence, terminal_success, terminal_failure, with_attempt,
         Active, Executing, TerminalAttempt, AttemptState, JobState, JobStepState

\* apply_cancel_ack does too, unless it completes the cancellation of a Job
\* whose Attempt had already ended.
LEMMA CancelAckDecides ==
  ASSUME NEW f \in LockedFacts, NEW ev \in CancelAckEvidence, NEW others \in BOOLEAN,
         f.job = "Cancelling" => f.attempt \in Active
  PROVE  Decides(f, apply_cancel_ack(f, ev), others)
  BY Zenon
     DEF LockedFacts, CancelAckEvidence, Decides, KeepsActive, Ends, EndedJob, StepOf,
         apply_cancel_ack, cancel_terminal, complete_cancellation_now, with_attempt,
         Active, Executing, TerminalAttempt, AttemptState, JobState, JobStepState

\* apply_status_report does too.
LEMMA StatusReportDecides ==
  ASSUME NEW f \in LockedFacts, NEW ev \in StatusReportEvidence, NEW others \in BOOLEAN
  PROVE  Decides(f, apply_status_report(f, ev, others), others)
  BY Zenon
     DEF LockedFacts, StatusReportEvidence, Decides, KeepsActive, Ends, EndedJob, StepOf,
         apply_status_report, terminal_success, terminal_failure, cancel_terminal, with_attempt,
         Active, Executing, TerminalAttempt, AttemptState, JobState, JobStepState

\* close_indeterminate ends an uncertain Attempt.
LEMMA CloseDecides ==
  ASSUME NEW f \in LockedFacts, NEW others \in BOOLEAN
  PROVE  Decides(f, close_indeterminate(f), others)
  BY Zenon DEF LockedFacts, Decides, KeepsActive, Ends, EndedJob, StepOf,
         close_indeterminate, terminal_failure,
         Active, Executing, TerminalAttempt, AttemptState, JobState, JobStepState

-----------------------------------------------------------------------------
(* The two kinds of step a decision makes of the records.                  *)

SoftStep ==
  /\ attemptState' \in [Attempt -> AttemptState \cup {"Absent"}]
  /\ \A b \in Attempt : \/ attemptState'[b] = attemptState[b]
                        \/ attemptState[b] \in Active /\ attemptState'[b] \in Active
  /\ UNCHANGED <<jobVars, attemptJob, attemptStep, cancelActions>>

EndStep(a, s) ==
  /\ attemptState[a] \in Active /\ s \in TerminalAttempt
  /\ s = "Cancelled" => jobState[attemptJob[a]] = "Cancelling"
  /\ attemptState' = [attemptState EXCEPT ![a] = s]
  /\ stepState' = [stepState EXCEPT ![attemptJob[a]][attemptStep[a]] = StepOf(s)]
  /\ jobState' = [jobState EXCEPT ![attemptJob[a]] =
                    EndedJob(jobState[attemptJob[a]], s, OtherStepsSucceeded(a))]
  /\ UNCHANGED <<jobEndpoint, intent, attemptJob, attemptStep, cancelActions>>

\* The facts read for an existing Attempt are facts of existing rows.
LEMMA FactsType ==
  ASSUME IInv, NEW a \in Attempt, attemptState[a] # "Absent"
  PROVE  Facts(a) \in LockedFacts
  BY DEF IInv, TypeOK, StepFollowsAttempt, AbsentJobHasNoSteps, Facts, LockedFacts,
         StepOf, JobState, JobStepState, AttemptState

\* Persisting a decision is a soft step or ends the Attempt.
LEMMA PersistSteps ==
  ASSUME IInv, NEW a \in Attempt, attemptState[a] # "Absent",
         NEW g, Decides(Facts(a), g, OtherStepsSucceeded(a)),
         Persist(a, g), UNCHANGED cancelActions
  PROVE  SoftStep \/ \E s \in TerminalAttempt : EndStep(a, s)
<1>1. CASE g = Facts(a) \/ KeepsActive(Facts(a), g)
  BY <1>1 DEF IInv, TypeOK, Facts, KeepsActive, Persist, SoftStep, jobVars,
              Active, Executing, AttemptState
<1>2. CASE Ends(Facts(a), g, OtherStepsSucceeded(a))
  BY Zenon, <1>2 DEF Facts, Ends, Persist, EndStep
<1>3. QED  BY <1>1, <1>2 DEF Decides

-----------------------------------------------------------------------------
(* The inductive invariant.                                                *)

\* Nothing exists initially, so the invariant holds.
LEMMA InitIInv == Init => IInv
  BY MaxStepsAssumption, NoneAssumption
  DEF Init, IInv, TypeOK, StepFollowsAttempt, StartedStepHasAttempt, OneAttemptPerStep,
      ActiveJobIsLive, ExclusiveJobs, AbsentJobHasNoSteps, LinearWorkflow,
      CancelTargets, CancellingWaits, FailedJobHasFailedStep, Step,
      Active, Executing, TerminalStep, EarlierStepsSucceeded

\* A soft step preserves the invariant.
LEMMA SoftPreserves == IInv /\ SoftStep => IInv'
<1> SUFFICES ASSUME IInv, SoftStep PROVE IInv'
  OBVIOUS
<1>1. TypeOK'
  BY Zenon DEF IInv, TypeOK, SoftStep, jobVars, Active, Executing
<1>2. StepFollowsAttempt' /\ ActiveJobIsLive' /\ CancelTargets'
  BY DEF IInv, TypeOK, SoftStep, jobVars, Active, Executing, StepFollowsAttempt, StepOf,
         ActiveJobIsLive, CancelTargets
<1>3. \A b \in Attempt : attemptState'[b] = "Absent" <=> attemptState[b] = "Absent"
  BY DEF SoftStep, Active, Executing
<1>a. StartedStepHasAttempt'
  BY <1>3 DEF IInv, SoftStep, jobVars, StartedStepHasAttempt, Owns
<1>b. OneAttemptPerStep'
  BY Zenon, <1>3 DEF IInv, SoftStep, OneAttemptPerStep
<1>4. ExclusiveJobs' /\ AbsentJobHasNoSteps' /\ LinearWorkflow' /\ FailedJobHasFailedStep'
  BY DEF IInv, SoftStep, jobVars, ExclusiveJobs, AbsentJobHasNoSteps, LinearWorkflow,
         EarlierStepsSucceeded, FailedJobHasFailedStep
<1>5. CancellingWaits'
  BY Zenon DEF IInv, TypeOK, SoftStep, jobVars, Active, Executing, CancellingWaits
<1>6. QED  BY <1>1, <1>2, <1>a, <1>b, <1>4, <1>5 DEF IInv

\* Linearity leaves at most one active Attempt to a Job.
LEMMA OneActivePerJob ==
  ASSUME IInv, NEW a \in Attempt, NEW b \in Attempt,
         attemptState[a] \in Active, attemptState[b] \in Active,
         attemptJob[a] = attemptJob[b]
  PROVE  a = b
<1>1. /\ attemptState[a] # "Absent" /\ attemptState[b] # "Absent"
      /\ StepOf(attemptState[a]) = "Dispatching" /\ StepOf(attemptState[b]) = "Dispatching"
  BY Zenon DEF Active, Executing, StepOf
<1>2. /\ attemptJob[a] \in Job /\ attemptStep[a] \in Step /\ attemptStep[b] \in Step
      /\ stepState[attemptJob[a]][attemptStep[a]] = "Dispatching"
      /\ stepState[attemptJob[a]][attemptStep[b]] = "Dispatching"
  BY Zenon, <1>1 DEF IInv, TypeOK, StepFollowsAttempt
<1>3. attemptStep[a] = attemptStep[b]
  BY <1>2, MaxStepsAssumption DEF IInv, LinearWorkflow, EarlierStepsSucceeded, Step
<1>4. QED  BY <1>1, <1>3 DEF IInv, OneAttemptPerStep

\* Ending an active Attempt, with its JobStep, preserves the invariant.
LEMMA EndPreserves ==
  ASSUME IInv, NEW a \in Attempt, NEW s \in TerminalAttempt, EndStep(a, s)
  PROVE  IInv'
<1> DEFINE j0 == attemptJob[a]
           i0 == attemptStep[a]
           js == EndedJob(jobState[j0], s, OtherStepsSucceeded(a))
<1>1. /\ attemptState[a] # "Absent" /\ s # "Absent" /\ s \notin Active
      /\ j0 \in Job /\ i0 \in Step
      /\ stepState[j0][i0] = "Dispatching"
      /\ jobState[j0] \in {"Running", "Cancelling"}
  BY Zenon DEF EndStep, IInv, TypeOK, StepFollowsAttempt, StepOf, ActiveJobIsLive,
         Active, Executing, TerminalAttempt
<1>2. /\ StepOf(s) \in TerminalStep
      /\ js \in TerminalJob \cup {"Running"}
      /\ jobState[j0] = "Cancelling" => js = "Cancelled"
      /\ js = "Succeeded" => OtherStepsSucceeded(a) /\ StepOf(s) = "Succeeded"
      /\ js = "Failed" => StepOf(s) = "Failed"
  BY Zenon, <1>1
     DEF EndStep, EndedJob, StepOf, TerminalStep, TerminalJob, TerminalAttempt,
              Active, Executing
<1>3. /\ \A b \in Attempt : attemptState'[b] = IF b = a THEN s ELSE attemptState[b]
      /\ \A j \in Job : jobState'[j] = IF j = j0 THEN js ELSE jobState[j]
      /\ \A j \in Job, i \in Step :
           stepState'[j][i] = IF j = j0 /\ i = i0 THEN StepOf(s) ELSE stepState[j][i]
      /\ UNCHANGED <<jobEndpoint, intent, attemptJob, attemptStep, cancelActions>>
  BY Zenon, <1>1 DEF EndStep, IInv, TypeOK
<1> HIDE DEF js
<1>4. \A b \in Attempt : b # a /\ attemptState[b] # "Absent" =>
        ~(attemptJob[b] = j0 /\ attemptStep[b] = i0)
  BY Zenon, <1>1 DEF IInv, OneAttemptPerStep
<1>5. \A b \in Attempt : b # a /\ attemptState[b] \in Active => attemptJob[b] # j0
  BY Zenon, <1>1, OneActivePerJob DEF EndStep
<1>6. TypeOK'
  <2>1. /\ attemptState' \in [Attempt -> AttemptState \cup {"Absent"}]
        /\ jobState' \in [Job -> JobState \cup {"Absent"}]
        /\ stepState' \in [Job -> [Step -> JobStepState \cup {"Absent"}]]
    BY Zenon, <1>1, <1>2 DEF EndStep, IInv, TypeOK, TerminalAttempt, AttemptState, js,
         TerminalJob, JobState, TerminalStep, JobStepState
  <2>2. QED  BY <1>1, <1>3, <2>1 DEF IInv, TypeOK
<1>7. StepFollowsAttempt'
  BY <1>1, <1>3, <1>4 DEF IInv, TypeOK, StepFollowsAttempt
<1>8. \A b \in Attempt : attemptState'[b] = "Absent" <=> attemptState[b] = "Absent"
  BY Zenon, <1>1, <1>3
<1>9. StartedStepHasAttempt' /\ OneAttemptPerStep'
  <2>1. StartedStepHasAttempt'
    BY <1>1, <1>3, <1>8 DEF IInv, StartedStepHasAttempt, Owns
  <2>2. OneAttemptPerStep'
    BY Zenon, <1>3, <1>8 DEF IInv, OneAttemptPerStep
  <2>3. QED  BY <2>1, <2>2
<1>10. ActiveJobIsLive'
  BY <1>1, <1>3, <1>5 DEF IInv, TypeOK, ActiveJobIsLive, Active, Executing
<1>11. ExclusiveJobs'
  BY <1>1, <1>3 DEF IInv, ExclusiveJobs
<1>12. AbsentJobHasNoSteps'
  BY <1>1, <1>2, <1>3 DEF IInv, AbsentJobHasNoSteps, TerminalJob
<1>13. LinearWorkflow'
  <2>1. ASSUME NEW j \in Job, NEW i \in Step, stepState'[j][i] \notin {"Absent", "Pending"},
               NEW k \in Step, k < i
        PROVE  stepState'[j][k] = "Succeeded"
    BY <1>1, <1>3, <2>1 DEF IInv, LinearWorkflow, EarlierStepsSucceeded
  <2>2. ASSUME NEW j \in Job, jobState'[j] = "Succeeded", NEW i \in Step
        PROVE  stepState'[j][i] \in {"Absent", "Succeeded"}
    BY <1>1, <1>2, <1>3, <2>2 DEF IInv, LinearWorkflow, OtherStepsSucceeded
  <2>3. QED  BY <2>1, <2>2 DEF LinearWorkflow, EarlierStepsSucceeded
<1>14. CancelTargets'
  BY <1>1, <1>2, <1>3 DEF IInv, TypeOK, CancelTargets, TerminalJob
<1>15. CancellingWaits'
  <2> SUFFICES ASSUME NEW j \in Job, jobState'[j] = "Cancelling"
               PROVE  \E b \in cancelActions' : attemptJob'[b] = j /\ attemptState'[b] \in Active
    BY Zenon DEF CancellingWaits
  <2>1. j # j0 /\ jobState[j] = "Cancelling"
    BY Zenon, <1>1, <1>2, <1>3 DEF TerminalJob
  <2>2. PICK b \in cancelActions : attemptJob[b] = j /\ attemptState[b] \in Active
    BY Zenon, <2>1 DEF IInv, CancellingWaits
  <2>3. b \in Attempt /\ b # a
    BY Zenon, <2>1, <2>2 DEF IInv, TypeOK
  <2>4. QED  BY <1>3, <2>2, <2>3
<1>16. FailedJobHasFailedStep'
  BY <1>1, <1>2, <1>3 DEF IInv, FailedJobHasFailedStep
<1>17. QED
  BY Zenon, <1>6, <1>7, <1>9, <1>10, <1>11, <1>12, <1>13, <1>14, <1>15, <1>16 DEF IInv

\* create_workflow preserves the invariant.
LEMMA CreatePreserves ==
  ASSUME IInv, NEW j0 \in Job, NEW e \in Endpoint, NEW n \in Step, create_workflow(j0, e, n)
  PROVE  IInv'
<1>1. /\ \A i \in Step : stepState[j0][i] = "Absent"
      /\ jobState[j0] = "Absent"
      /\ UNCHANGED <<intent, attemptState, attemptJob, attemptStep, cancelActions>>
  BY Zenon DEF IInv, AbsentJobHasNoSteps, create_workflow, attemptVars
<1>2. /\ \A j \in Job : jobState'[j] = IF j = j0 THEN "Pending" ELSE jobState[j]
      /\ \A j \in Job : jobEndpoint'[j] = IF j = j0 THEN e ELSE jobEndpoint[j]
      /\ \A j \in Job, i \in Step : j # j0 => stepState'[j][i] = stepState[j][i]
      /\ \A i \in Step : stepState'[j0][i] \in {"Absent", "Pending"}
  BY Zenon DEF create_workflow, IInv, TypeOK
<1>3. \A a \in Attempt : attemptState[a] # "Absent" =>
        attemptJob[a] \in Job /\ attemptStep[a] \in Step /\ attemptJob[a] # j0
  BY <1>1 DEF IInv, TypeOK, StepFollowsAttempt, StepOf
<1>4. TypeOK'
  BY Zenon, <1>1 DEF create_workflow, IInv, TypeOK, JobState, JobStepState, attemptVars
<1>5. StepFollowsAttempt' /\ StartedStepHasAttempt' /\ OneAttemptPerStep'
  BY <1>1, <1>2, <1>3
     DEF IInv, StepFollowsAttempt, StartedStepHasAttempt, OneAttemptPerStep,
       Owns, TerminalStep
<1>6. ActiveJobIsLive' /\ CancelTargets' /\ CancellingWaits'
  <2>1. \A a \in Attempt : attemptState[a] \in Active => attemptState[a] # "Absent"
    BY DEF Active, Executing
  <2>2. ActiveJobIsLive'
    BY Zenon, <1>1, <1>2, <1>3, <2>1 DEF IInv, ActiveJobIsLive
  <2>3. CancelTargets'
    BY <1>1, <1>2, <1>3 DEF IInv, TypeOK, CancelTargets
  <2>4. CancellingWaits'
    BY <1>1, <1>2 DEF IInv, CancellingWaits
  <2>5. QED  BY <2>2, <2>3, <2>4
<1>7. ExclusiveJobs' /\ AbsentJobHasNoSteps' /\ FailedJobHasFailedStep'
  BY <1>1, <1>2 DEF IInv, ExclusiveJobs, AbsentJobHasNoSteps, FailedJobHasFailedStep
<1>8. LinearWorkflow'
  BY <1>1, <1>2 DEF IInv, LinearWorkflow, EarlierStepsSucceeded
<1>9. QED  BY <1>4, <1>5, <1>6, <1>7, <1>8 DEF IInv

\* Recording a DestructiveIntent preserves the invariant.
LEMMA IntentPreserves ==
  ASSUME IInv, NEW j0 \in Job, NEW i0 \in Step, authorize_destructive_intent(j0, i0)
  PROVE  IInv'
  BY DEF authorize_destructive_intent, attemptVars, IInv, TypeOK, StepFollowsAttempt,
         StartedStepHasAttempt, Owns, OneAttemptPerStep, ActiveJobIsLive, ExclusiveJobs,
         AbsentJobHasNoSteps, LinearWorkflow, EarlierStepsSucceeded, CancelTargets,
         CancellingWaits, FailedJobHasFailedStep

\* Admission preserves the invariant: the unique index keeps Jobs exclusive.
LEMMA AdmitPreserves ==
  ASSUME IInv, NEW j0 \in Job, admit_job(j0)
  PROVE  IInv'
<1>1. /\ jobState[j0] = "Pending" /\ EndpointAvailable(jobEndpoint[j0])
      /\ \A j \in Job : jobState'[j] = IF j = j0 THEN "Running" ELSE jobState[j]
      /\ UNCHANGED <<jobEndpoint, stepState, intent, attemptState, attemptJob, attemptStep,
                     cancelActions>>
  BY Zenon DEF admit_job, attemptVars, IInv, TypeOK
<1>2. TypeOK'
  BY Zenon, <1>1 DEF admit_job, IInv, TypeOK, JobState
<1>3. StepFollowsAttempt' /\ StartedStepHasAttempt' /\ OneAttemptPerStep'
  BY <1>1 DEF IInv, StepFollowsAttempt, StartedStepHasAttempt, OneAttemptPerStep, Owns
<1>4. ExclusiveJobs'
  BY Zenon, <1>1 DEF IInv, ExclusiveJobs, EndpointAvailable
<1>5. ActiveJobIsLive'
  BY Zenon, <1>1 DEF IInv, TypeOK, ActiveJobIsLive, Active, Executing
<1>6. AbsentJobHasNoSteps' /\ FailedJobHasFailedStep' /\ LinearWorkflow'
  BY <1>1 DEF IInv, AbsentJobHasNoSteps, FailedJobHasFailedStep, LinearWorkflow,
              EarlierStepsSucceeded
<1>7. CancelTargets' /\ CancellingWaits'
  BY <1>1 DEF IInv, TypeOK, CancelTargets, CancellingWaits, TerminalJob
<1>8. QED  BY <1>2, <1>3, <1>4, <1>5, <1>6, <1>7 DEF IInv

\* Eligibility moves a JobStep between Pending and PreconditionsSatisfied.
LEMMA EligibilityPreserves ==
  ASSUME IInv, NEW j0 \in Job, NEW i0 \in Step,
         NEW t \in {"Pending", "PreconditionsSatisfied"},
         stepState[j0][i0] \in {"Pending", "PreconditionsSatisfied"},
         t = "PreconditionsSatisfied" => EarlierStepsSucceeded(j0, i0),
         stepState' = [stepState EXCEPT ![j0][i0] = t],
         UNCHANGED <<jobState, jobEndpoint, intent, attemptVars, cancelActions>>
  PROVE  IInv'
<1>1. /\ \A j \in Job, i \in Step :
           stepState'[j][i] = IF j = j0 /\ i = i0 THEN t ELSE stepState[j][i]
      /\ UNCHANGED <<jobState, jobEndpoint, intent, attemptState, attemptJob, attemptStep,
                     cancelActions>>
  BY Zenon DEF IInv, TypeOK, attemptVars
<1>2. TypeOK'
  BY Zenon, <1>1 DEF IInv, TypeOK, JobStepState
<1>3. \A a \in Attempt : attemptState[a] # "Absent" =>
        /\ attemptJob[a] \in Job /\ attemptStep[a] \in Step
        /\ ~(attemptJob[a] = j0 /\ attemptStep[a] = i0)
  BY Zenon DEF IInv, TypeOK, StepFollowsAttempt, StepOf
<1>4. StepFollowsAttempt' /\ StartedStepHasAttempt' /\ OneAttemptPerStep'
  BY <1>1, <1>3
     DEF IInv, StepFollowsAttempt, StartedStepHasAttempt, OneAttemptPerStep, Owns,
       TerminalStep
<1>5. ActiveJobIsLive' /\ ExclusiveJobs' /\ CancelTargets' /\ CancellingWaits'
  BY <1>1 DEF IInv, ActiveJobIsLive, ExclusiveJobs, CancelTargets, CancellingWaits
<1>6. AbsentJobHasNoSteps' /\ FailedJobHasFailedStep'
  BY <1>1 DEF IInv, AbsentJobHasNoSteps, FailedJobHasFailedStep
<1>7. LinearWorkflow'
  <2>1. ASSUME NEW j \in Job, NEW i \in Step, stepState'[j][i] \notin {"Absent", "Pending"},
               NEW k \in Step, k < i
        PROVE  stepState'[j][k] = "Succeeded"
    BY <1>1, <2>1 DEF IInv, LinearWorkflow, EarlierStepsSucceeded
  <2>2. ASSUME NEW j \in Job, jobState'[j] = "Succeeded", NEW i \in Step
        PROVE  stepState'[j][i] \in {"Absent", "Succeeded"}
    BY <1>1, <2>2 DEF IInv, LinearWorkflow
  <2>3. QED  BY <2>1, <2>2 DEF LinearWorkflow, EarlierStepsSucceeded
<1>8. QED  BY <1>2, <1>4, <1>5, <1>6, <1>7 DEF IInv

\* The dispatch commit preserves the invariant: it creates the only Attempt.
LEMMA CommitPreserves ==
  ASSUME IInv, NEW j0 \in Job, NEW i0 \in Step, NEW a0 \in Attempt,
         stepState[j0][i0] = "PreconditionsSatisfied", Dispatchable(j0, i0),
         CommitAttempt(j0, i0, a0)
  PROVE  IInv'
<1>1. /\ jobState[j0] = "Running" /\ EarlierStepsSucceeded(j0, i0)
      /\ attemptState[a0] = "Absent"
      /\ \A b \in Attempt : /\ attemptState'[b] = IF b = a0 THEN "Dispatched" ELSE attemptState[b]
                            /\ attemptJob'[b] = IF b = a0 THEN j0 ELSE attemptJob[b]
                            /\ attemptStep'[b] = IF b = a0 THEN i0 ELSE attemptStep[b]
      /\ \A j \in Job, i \in Step :
           stepState'[j][i] = IF j = j0 /\ i = i0 THEN "Dispatching" ELSE stepState[j][i]
      /\ UNCHANGED <<jobState, jobEndpoint, intent, cancelActions>>
  BY Zenon DEF Dispatchable, CommitAttempt, IInv, TypeOK
<1>2. \A b \in Attempt : attemptState[b] # "Absent" =>
        /\ attemptJob[b] \in Job /\ attemptStep[b] \in Step
        /\ ~(attemptJob[b] = j0 /\ attemptStep[b] = i0)
  BY Zenon DEF IInv, TypeOK, StepFollowsAttempt, StepOf
<1>3. TypeOK'
  BY Zenon, <1>1 DEF CommitAttempt, IInv, TypeOK, JobStepState, AttemptState
<1>4. StepFollowsAttempt'
  BY <1>1, <1>2 DEF IInv, StepFollowsAttempt, StepOf, Active, Executing
<1>5. StartedStepHasAttempt'
  BY <1>1 DEF IInv, StartedStepHasAttempt, Owns
<1>6. OneAttemptPerStep'
  BY <1>1, <1>2 DEF IInv, OneAttemptPerStep
<1>7. ActiveJobIsLive' /\ ExclusiveJobs'
  BY Zenon, <1>1 DEF IInv, ActiveJobIsLive, ExclusiveJobs
<1>8. AbsentJobHasNoSteps' /\ FailedJobHasFailedStep'
  BY <1>1 DEF IInv, AbsentJobHasNoSteps, FailedJobHasFailedStep
<1>9. LinearWorkflow'
  <2>1. ASSUME NEW j \in Job, NEW i \in Step, stepState'[j][i] \notin {"Absent", "Pending"},
               NEW k \in Step, k < i
        PROVE  stepState'[j][k] = "Succeeded"
    BY <1>1, <2>1 DEF IInv, LinearWorkflow, EarlierStepsSucceeded
  <2>2. ASSUME NEW j \in Job, jobState'[j] = "Succeeded", NEW i \in Step
        PROVE  stepState'[j][i] \in {"Absent", "Succeeded"}
    BY <1>1, <2>2 DEF IInv, LinearWorkflow
  <2>3. QED  BY <2>1, <2>2 DEF LinearWorkflow, EarlierStepsSucceeded
<1>10. CancelTargets'
  BY <1>1, <1>2 DEF IInv, TypeOK, CancelTargets
<1>11. CancellingWaits'
  <2>1. a0 \notin cancelActions
    BY Zenon, <1>1 DEF IInv, CancelTargets
  <2>2. \A b \in cancelActions : b \in Attempt /\ b # a0
    BY Zenon, <2>1 DEF IInv, TypeOK
  <2>3. \A b \in cancelActions : attemptState'[b] = attemptState[b] /\ attemptJob'[b] = attemptJob[b]
    BY Zenon, <1>1, <2>2
  <2>4. QED  BY <1>1, <2>3 DEF IInv, CancellingWaits
<1>12. QED
  BY Zenon, <1>3, <1>4, <1>5, <1>6, <1>7, <1>8, <1>9, <1>10, <1>11 DEF IInv

\* A cancellation request preserves the invariant.
LEMMA RequestPreserves ==
  ASSUME IInv, NEW j0 \in Job, request_cancellation(j0)
  PROVE  IInv'
<1> DEFINE targets == JobAttempts(j0, Active)
<1>1. targets = {a \in Attempt : attemptState[a] \in Active /\ attemptJob[a] = j0}
  BY Zenon DEF JobAttempts, IInv, StepFollowsAttempt, StepOf, Active, Executing
<1>2. /\ jobState[j0] = "Running"
      /\ \A j \in Job : jobState'[j] = IF j # j0 THEN jobState[j]
                                       ELSE IF targets = {} THEN "Cancelled" ELSE "Cancelling"
      /\ cancelActions' = cancelActions \cup targets
      /\ UNCHANGED <<jobEndpoint, stepState, intent, attemptState, attemptJob, attemptStep>>
  BY Zenon DEF request_cancellation, attemptVars, IInv, TypeOK
<1> HIDE DEF targets
<1>3. TypeOK'
  <2>1. jobState' \in [Job -> JobState \cup {"Absent"}]
    BY Zenon DEF request_cancellation, IInv, TypeOK, JobState
  <2>2. cancelActions' \subseteq Attempt
    BY Zenon, <1>1, <1>2 DEF IInv, TypeOK
  <2>3. \A j \in Job : jobState'[j] # "Absent" => jobEndpoint'[j] \in Endpoint
    BY Zenon, <1>2 DEF IInv, TypeOK
  <2>4. QED  BY <1>2, <2>1, <2>2, <2>3 DEF IInv, TypeOK
<1>4. StepFollowsAttempt' /\ StartedStepHasAttempt' /\ OneAttemptPerStep'
  BY <1>2 DEF IInv, StepFollowsAttempt, StartedStepHasAttempt, OneAttemptPerStep, Owns
<1>5. ActiveJobIsLive'
  <2> SUFFICES ASSUME NEW a \in Attempt, attemptState[a] \in Active
               PROVE  jobState'[attemptJob[a]] \in {"Running", "Cancelling"}
    BY <1>2 DEF ActiveJobIsLive
  <2>1. attemptJob[a] \in Job
    BY Zenon DEF IInv, TypeOK, Active, Executing
  <2>2. attemptJob[a] = j0 => a \in targets
    BY <1>1
  <2>3. QED  BY <1>2, <2>1, <2>2 DEF IInv, ActiveJobIsLive
<1>6. ExclusiveJobs'
  BY Zenon, <1>2 DEF IInv, ExclusiveJobs
<1>7. AbsentJobHasNoSteps' /\ FailedJobHasFailedStep' /\ LinearWorkflow'
  BY <1>2 DEF IInv, AbsentJobHasNoSteps, FailedJobHasFailedStep, LinearWorkflow,
              EarlierStepsSucceeded
<1>8. CancelTargets'
  <2>1. \A a \in cancelActions : a \in Attempt /\ attemptJob[a] # j0
    BY Zenon, <1>2 DEF IInv, TypeOK, CancelTargets, TerminalJob
  <2>2. \A a \in cancelActions : attemptJob[a] \in Job
    BY Zenon, <2>1 DEF IInv, TypeOK, CancelTargets
  <2>3. \A a \in targets : /\ attemptState[a] # "Absent" /\ attemptState[a] \in Active
                           /\ jobState'[attemptJob[a]] = "Cancelling"
    BY Zenon, <1>1, <1>2 DEF Active, Executing
  <2>4. QED  BY <1>2, <2>1, <2>2, <2>3 DEF IInv, CancelTargets
<1>9. CancellingWaits'
  <2> SUFFICES ASSUME NEW j \in Job, jobState'[j] = "Cancelling"
               PROVE  \E a \in cancelActions' : attemptJob'[a] = j /\ attemptState'[a] \in Active
    BY DEF CancellingWaits
  <2>1. CASE j = j0
    BY Zenon, <1>1, <1>2, <2>1
  <2>2. CASE j # j0
    BY Zenon, <1>2, <2>2 DEF IInv, CancellingWaits
  <2>3. QED  BY <2>1, <2>2
<1>10. QED  BY <1>3, <1>4, <1>5, <1>6, <1>7, <1>8, <1>9 DEF IInv

-----------------------------------------------------------------------------
\* Agent evidence, closure, a lost session and a restart all make a soft step
\* or end one Attempt.
LEMMA DecisionSteps ==
  ASSUME IInv,
         \/ UNCHANGED vars
         \/ reconcile_on_startup
         \/ \E a \in Attempt :
              \/ \E ev \in ActionEvidence : ActionEvidenceApply(a, ev)
              \/ \E ev \in CancelAckEvidence : CancelAckApply(a, ev)
              \/ \E ev \in StatusReportEvidence : StatusReportApply(a, ev)
              \/ CloseIndeterminate(a)
              \/ mark_endpoint_uncertain(a)
  PROVE  SoftStep \/ \E a \in Attempt, s \in TerminalAttempt : EndStep(a, s)
<1> DEFINE Goal == SoftStep \/ \E a \in Attempt, s \in TerminalAttempt : EndStep(a, s)
<1>1. CASE UNCHANGED vars
  BY Zenon, <1>1 DEF vars, attemptVars, jobVars, SoftStep, IInv, TypeOK
<1>2. CASE reconcile_on_startup
  BY Zenon, <1>2
     DEF reconcile_on_startup, mark_awaiting_reconciliation, SoftStep, IInv, TypeOK,
              Active, Executing, AttemptState
<1>3. ASSUME NEW a \in Attempt, mark_endpoint_uncertain(a) PROVE Goal
  BY Zenon, <1>3
     DEF mark_endpoint_uncertain, mark_awaiting_reconciliation, SoftStep, IInv, TypeOK,
              Active, Executing, AttemptState
<1>4. ASSUME NEW a \in Attempt, attemptState[a] # "Absent", NEW g,
             Decides(Facts(a), g, OtherStepsSucceeded(a)), Persist(a, g), UNCHANGED cancelActions
      PROVE  Goal
  BY <1>4, PersistSteps
<1>5. ASSUME NEW a \in Attempt, NEW ev \in ActionEvidence, ActionEvidenceApply(a, ev)
      PROVE  Goal
  <2>1. Decides(Facts(a), apply_action_evidence(Facts(a), ev, OtherStepsSucceeded(a)),
                OtherStepsSucceeded(a))
    BY Zenon, <1>5, FactsType, ActionEvidenceDecides
       DEF ActionEvidenceApply, OtherStepsSucceeded
  <2>2. QED  BY <1>4, <1>5, <2>1 DEF ActionEvidenceApply
<1>6. ASSUME NEW a \in Attempt, NEW ev \in CancelAckEvidence, CancelAckApply(a, ev)
      PROVE  Goal
  <2>1. Facts(a).job = "Cancelling" => Facts(a).attempt \in Active
    BY Zenon, <1>6 DEF CancelAckApply, IInv, CancelTargets, Facts
  <2>2. Decides(Facts(a), apply_cancel_ack(Facts(a), ev), OtherStepsSucceeded(a))
    BY Zenon, <1>6, <2>1, FactsType, CancelAckDecides
       DEF CancelAckApply, OtherStepsSucceeded
  <2>3. QED  BY <1>4, <1>6, <2>2 DEF CancelAckApply
<1>7. ASSUME NEW a \in Attempt, NEW ev \in StatusReportEvidence, StatusReportApply(a, ev)
      PROVE  Goal
  <2>1. Decides(Facts(a), apply_status_report(Facts(a), ev, OtherStepsSucceeded(a)),
                OtherStepsSucceeded(a))
    BY Zenon, <1>7, FactsType, StatusReportDecides
       DEF StatusReportApply, OtherStepsSucceeded
  <2>2. QED  BY <1>4, <1>7, <2>1 DEF StatusReportApply
<1>8. ASSUME NEW a \in Attempt, CloseIndeterminate(a)
      PROVE  Goal
  <2>1. Decides(Facts(a), close_indeterminate(Facts(a)), OtherStepsSucceeded(a))
    BY Zenon, <1>8, FactsType, CloseDecides DEF CloseIndeterminate, OtherStepsSucceeded
  <2>2. QED  BY <1>4, <1>8, <2>1 DEF CloseIndeterminate
<1>9. QED  BY <1>1, <1>2, <1>3, <1>5, <1>6, <1>7, <1>8

\* Every step of the system preserves the inductive invariant.
LEMMA NextPreserves == IInv /\ [Next]_vars => IInv'
<1> SUFFICES ASSUME IInv, [Next]_vars PROVE IInv'
  OBVIOUS
<1>1. ASSUME NEW j \in Job, NEW e \in Endpoint, NEW n \in Step, create_workflow(j, e, n)
      PROVE  IInv'
  BY <1>1, CreatePreserves
<1>2. ASSUME NEW j \in Job, admit_job(j) \/ request_cancellation(j)
      PROVE  IInv'
  BY <1>2, AdmitPreserves, RequestPreserves
<1>3. ASSUME NEW j \in Job, NEW i \in Step, authorize_destructive_intent(j, i)
      PROVE  IInv'
  BY <1>3, IntentPreserves
<1>4. ASSUME NEW j \in Job, NEW i \in Step, satisfy_preliminary_preconditions(j, i)
      PROVE  IInv'
  BY Zenon, <1>4, EligibilityPreserves DEF satisfy_preliminary_preconditions
<1>5. ASSUME NEW j \in Job, NEW i \in Step, NEW ok \in BOOLEAN,
             deny_destructive_dispatch(j, i, ok) \/ deny_transfer_dispatch(j, i, ok)
      PROVE  IInv'
  BY Zenon, <1>5, EligibilityPreserves
  DEF deny_destructive_dispatch, deny_transfer_dispatch, RevertToPending
<1>6. ASSUME NEW j \in Job, NEW i \in Step, NEW ok \in BOOLEAN, NEW a \in Attempt,
             commit_destructive_dispatch(j, i, a, ok) \/ commit_transfer_dispatch(j, i, a, ok)
      PROVE  IInv'
  BY Zenon, <1>6, CommitPreserves
     DEF commit_destructive_dispatch, commit_transfer_dispatch
<1>7. ASSUME SoftStep \/ \E a \in Attempt, s \in TerminalAttempt : EndStep(a, s)
      PROVE  IInv'
  BY <1>7, SoftPreserves, EndPreserves
<1>8. QED
  BY Zenon, <1>1, <1>2, <1>3, <1>4, <1>5, <1>6, <1>7, DecisionSteps DEF Next

\* The inductive invariant holds in every reachable state.
THEOREM Invariance == Spec => []IInv
  BY InitIInv, NextPreserves, PTL DEF Spec

-----------------------------------------------------------------------------
(* The properties of JobLifecycle.                                         *)

\* Every column of jobs, job_steps and attempts holds a value of its type.
THEOREM TypeCorrect == Spec => []TypeOK
<1>1. IInv => TypeOK
  BY DEF IInv
<1>2. QED  BY <1>1, Invariance, PTL

\* No JobStep is ever dispatched a second time.
THEOREM NoRedispatch == Spec => []OneAttemptPerStep
<1>1. IInv => OneAttemptPerStep
  BY DEF IInv
<1>2. QED  BY <1>1, Invariance, PTL

\* JobSteps start in order, and a Succeeded Job has run all of them.
THEOREM Linearity == Spec => []LinearWorkflow
<1>1. IInv => LinearWorkflow
  BY DEF IInv
<1>2. QED  BY <1>1, Invariance, PTL

\* Evidence about an active Attempt always finds a live Job and a
\* Dispatching JobStep, so it can never reopen either.
THEOREM ActiveMeansLive == Spec => []ActiveAttemptHasLiveJob
<1>1. IInv => ActiveAttemptHasLiveJob
  BY Zenon DEF IInv, StepFollowsAttempt, StepOf, ActiveJobIsLive, ActiveAttemptHasLiveJob,
         Active, Executing
<1>2. QED  BY <1>1, Invariance, PTL

\* Active Attempts of one Endpoint belong to its one live Job, and so to the
\* one JobStep of it that is Dispatching.
LEMMA OneActive == IInv => OneActiveAttemptPerEndpoint
<1>1. ASSUME IInv, NEW a \in Attempt, NEW b \in Attempt,
             attemptState[a] \in Active, attemptState[b] \in Active,
             jobEndpoint[attemptJob[a]] = jobEndpoint[attemptJob[b]]
      PROVE  a = b
  <2>1. attemptJob[a] \in Job /\ attemptJob[b] \in Job
    BY Zenon, <1>1 DEF IInv, TypeOK, Active, Executing
  <2>2. attemptJob[a] = attemptJob[b]
    BY Zenon, <1>1, <2>1 DEF IInv, ActiveJobIsLive, ExclusiveJobs
  <2>3. QED  BY <1>1, <2>2, OneActivePerJob
<1>2. QED  BY <1>1 DEF OneActiveAttemptPerEndpoint

\* The adapters never meet two active Attempts on one Endpoint.
THEOREM EndpointExclusivity == Spec => []OneActiveAttemptPerEndpoint
  BY OneActive, Invariance, PTL

\* A Dispatching JobStep and a Cancelling Job always have the active Attempt
\* they wait for.
THEOREM NothingStranded == Spec => []NoStrandedWork
<1>1. ASSUME IInv, NEW j \in Job, NEW i \in Step, stepState[j][i] = "Dispatching"
      PROVE  StepAttempts(j, i, Active) # {}
  <2>1. PICK a \in Attempt : Owns(a, j, i)
    BY <1>1 DEF IInv, StartedStepHasAttempt
  <2>2. attemptState[a] \in Active
    BY <1>1, <2>1 DEF IInv, StepFollowsAttempt, Owns, StepOf
  <2>3. QED  BY <2>1, <2>2 DEF StepAttempts, Owns
<1>2. ASSUME IInv, NEW j \in Job, jobState[j] = "Cancelling"
      PROVE  JobAttempts(j, Active) \cap cancelActions # {}
  <2>1. PICK a \in cancelActions : attemptJob[a] = j /\ attemptState[a] \in Active
    BY <1>2 DEF IInv, CancellingWaits
  <2>2. a \in Attempt /\ stepState[j][attemptStep[a]] = "Dispatching"
    BY Zenon, <1>2, <2>1 DEF IInv, TypeOK, StepFollowsAttempt, StepOf, Active, Executing
  <2>3. QED  BY <2>1, <2>2 DEF JobAttempts
<1>3. IInv => NoStrandedWork
  BY <1>1, <1>2 DEF NoStrandedWork
<1>4. QED  BY <1>3, Invariance, PTL

\* What a JobStep and a Job report is what an Attempt of theirs did.
THEOREM OutcomesHaveEvidence == Spec => []OutcomeHasEvidence
<1>1. ASSUME IInv, NEW j \in Job, NEW i \in Step
      PROVE  /\ stepState[j][i] = "Succeeded" <=> StepAttempts(j, i, {"Succeeded"}) # {}
             /\ stepState[j][i] = "Failed" <=>
                  StepAttempts(j, i, {"Failed", "Rejected", "Indeterminate"}) # {}
  <2>1. ASSUME NEW a \in Attempt, Owns(a, j, i)
        PROVE  /\ stepState[j][i] = StepOf(attemptState[a])
               /\ attemptState[a] \in AttemptState
    BY Zenon, <1>1, <2>1 DEF IInv, TypeOK, StepFollowsAttempt, Owns
  <2>2. ASSUME stepState[j][i] \in TerminalStep
        PROVE  \E a \in Attempt : Owns(a, j, i)
    BY <1>1, <2>2 DEF IInv, StartedStepHasAttempt
  <2>3. stepState[j][i] = "Succeeded" <=> StepAttempts(j, i, {"Succeeded"}) # {}
    BY Zenon, <2>1, <2>2 DEF StepAttempts, Owns, StepOf, TerminalStep, Active, Executing
  <2>4. stepState[j][i] = "Failed" <=>
          StepAttempts(j, i, {"Failed", "Rejected", "Indeterminate"}) # {}
    BY Zenon, <2>1, <2>2
       DEF StepAttempts, Owns, StepOf, TerminalStep, AttemptState, Active, Executing
  <2>5. QED  BY <2>3, <2>4
<1>2. IInv => OutcomeHasEvidence
  BY Zenon, <1>1 DEF IInv, FailedJobHasFailedStep, OutcomeHasEvidence
<1>3. QED  BY <1>2, Invariance, PTL

\* A terminal Job, JobStep or Attempt never changes state again.
THEOREM Finality == Spec => TerminalIsFinal
<1> DEFINE Final ==
      /\ \A j \in Job : jobState[j] \in TerminalJob => jobState'[j] = jobState[j]
      /\ \A j \in Job, i \in Step : stepState[j][i] \in TerminalStep =>
           stepState'[j][i] = stepState[j][i]
      /\ \A a \in Attempt : attemptState[a] \in TerminalAttempt =>
           attemptState'[a] = attemptState[a]
<1>1. ASSUME IInv, [Next]_vars PROVE Final
  <2>1. ASSUME NEW j \in Job, NEW e \in Endpoint, NEW n \in Step, create_workflow(j, e, n)
        PROVE  Final
    BY Zenon, <1>1, <2>1
       DEF create_workflow, attemptVars, IInv, TypeOK, AbsentJobHasNoSteps,
                      TerminalJob, TerminalStep
  <2>2. ASSUME NEW j \in Job, admit_job(j) \/ request_cancellation(j)
        PROVE  Final
    BY Zenon, <1>1, <2>2
       DEF admit_job, request_cancellation, attemptVars, IInv, TypeOK, TerminalJob
  <2>3. ASSUME NEW j \in Job, NEW i \in Step, authorize_destructive_intent(j, i)
        PROVE  Final
    BY Zenon, <2>3 DEF authorize_destructive_intent, attemptVars
  <2>4. ASSUME NEW j \in Job, NEW i \in Step, satisfy_preliminary_preconditions(j, i)
        PROVE  Final
    BY Zenon, <1>1, <2>4
       DEF satisfy_preliminary_preconditions, attemptVars, IInv, TypeOK, TerminalStep
  <2>5. ASSUME NEW j \in Job, NEW i \in Step, NEW ok \in BOOLEAN,
               deny_destructive_dispatch(j, i, ok) \/ deny_transfer_dispatch(j, i, ok)
        PROVE  Final
    <3>1. stepState[j][i] = "PreconditionsSatisfied" /\ RevertToPending(j, i)
      BY Zenon, <2>5 DEF deny_destructive_dispatch, deny_transfer_dispatch
    <3>2. QED
      BY Zenon, <1>1, <3>1 DEF RevertToPending, attemptVars, IInv, TypeOK, TerminalStep
  <2>6. ASSUME NEW j \in Job, NEW i \in Step, NEW ok \in BOOLEAN, NEW a \in Attempt,
               \/ commit_destructive_dispatch(j, i, a, ok)
               \/ commit_transfer_dispatch(j, i, a, ok)
        PROVE  Final
    BY <1>1, <2>6
       DEF commit_destructive_dispatch, commit_transfer_dispatch, CommitAttempt,
                      IInv, TypeOK, TerminalStep, TerminalAttempt
  <2>7. CASE SoftStep
    BY Zenon, <2>7 DEF SoftStep, jobVars, Active, Executing, TerminalAttempt
  <2>8. ASSUME NEW a \in Attempt, NEW s \in TerminalAttempt, EndStep(a, s)
        PROVE  Final
    <3>1. /\ attemptJob[a] \in Job /\ attemptStep[a] \in Step
          /\ stepState[attemptJob[a]][attemptStep[a]] = "Dispatching"
          /\ jobState[attemptJob[a]] \in {"Running", "Cancelling"}
          /\ attemptState[a] \notin TerminalAttempt
      BY Zenon, <1>1, <2>8
         DEF EndStep, IInv, TypeOK, StepFollowsAttempt, StepOf, ActiveJobIsLive,
                        Active, Executing, TerminalAttempt
    <3>2. QED
      BY Zenon, <1>1, <2>8, <3>1 DEF EndStep, IInv, TypeOK, TerminalJob, TerminalStep
  <2>9. QED
    BY Zenon, <1>1, <2>1, <2>2, <2>3, <2>4, <2>5, <2>6, <2>7, <2>8, DecisionSteps DEF Next
<1>2. IInv /\ [Next]_vars => [Final]_vars
  BY Zenon, <1>1
<1>3. QED  BY <1>2, Invariance, PTL DEF Spec, TerminalIsFinal
=============================================================================
