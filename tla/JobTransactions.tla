--------------------------- MODULE JobTransactions ---------------------------
(***************************************************************************)
(* The transactions of JobLifecycle taken apart into what PostgreSQL sees: *)
(* row locks acquired one after another, values read at different moments, *)
(* scans without a lock, deadlocks (job_repository.rs).  JobLifecycle      *)
(* takes each transaction for one step; here that is to be shown.          *)
(*                                                                         *)
(* Every statement runs at READ COMMITTED: SELECT ... FOR UPDATE waits for *)
(* the row and then reads its committed value; a plain SELECT reads what   *)
(* is committed when it runs.  A decision uses only what its transaction   *)
(* has read (`seen'), never the tables as they are at the commit.          *)
(*                                                                         *)
(* Satisfy and dispatch lock Job, JobSteps, Attempts; evidence locks       *)
(* Attempt, JobStep, Job, JobSteps.  Two such calls can wait for each      *)
(* other; PostgreSQL then aborts one of them.                              *)
(***************************************************************************)
EXTENDS JobLifecycle, Sequences

CONSTANT Call         \* the connections of the pool, each runs one call at a time

ASSUME NoAttemptAssumption == None \notin Attempt

VARIABLE call         \* what each connection is doing

txVars == <<vars, call>>

JobRow(j) == <<"job", j>>
StepRow(j, i) == <<"step", j, i>>
AttemptRow(a) == <<"attempt", a>>

\* Nothing has been read yet.
Unread == [job     |-> "Absent",
           steps   |-> [i \in Step |-> "Absent"],
           intent  |-> FALSE,
           attempt |-> "Absent"]

\* A call about JobStep i of Job j (0 for the whole Job) or about Attempt a.
\* `todo' are the rows it locks next, `held' those it has locked, `then' says
\* what it does once `todo' is empty.
Tx(op, j, i, a, pass, todo, held, seen, then) ==
  [op |-> op, job |-> j, step |-> i, attempt |-> a, pass |-> pass,
   todo |-> todo, held |-> held, seen |-> seen, then |-> then]

Start(op, j, i, a, todo, then) == Tx(op, j, i, a, 1, todo, {}, Unread, then)
Idle == Start("Idle", None, 0, None, <<>>, "done")

\* It goes on with other rows.
Continue(t, a, todo, then) ==
  Tx(t.op, t.job, t.step, a, t.pass, todo, t.held, t.seen, then)

JobSteps(j) == {i \in Step : stepState[j][i] # "Absent"}

\* fetch_job_steps(.., lock = true): every JobStep of the Job, in step order.
\* The JobSteps are numbered from one, so this is a sequence.
fetch_job_steps(j) == [i \in JobSteps(j) |-> StepRow(j, i)]

TxInit ==
  /\ Init
  /\ call = [c \in Call |-> Idle]

-----------------------------------------------------------------------------
(* Row locks.                                                              *)

Free(r, c) == \A d \in Call \ {c} : r \notin call[d].held

Become(c, record) == call' = [call EXCEPT ![c] = record]

\* What a locked row shows: its committed value.
Read(t, r) ==
  [job     |-> IF r = JobRow(t.job) THEN jobState[t.job] ELSE t.seen.job,
   steps   |-> [k \in Step |-> IF r = StepRow(t.job, k) THEN stepState[t.job][k]
                               ELSE t.seen.steps[k]],
   intent  |-> IF r = StepRow(t.job, t.step) THEN intent[t.job][t.step] ELSE t.seen.intent,
   attempt |-> IF r[1] = "attempt" THEN attemptState[r[2]] ELSE t.seen.attempt]

\* SELECT ... FOR UPDATE, one row.
lock_row(c) ==
  LET t == call[c]
      r == Head(t.todo)
  IN /\ t.todo # <<>>
     /\ Free(r, c)
     /\ Become(c, Tx(t.op, t.job, t.step, t.attempt, t.pass,
                     Tail(t.todo), t.held \cup {r}, Read(t, r), t.then))
     /\ UNCHANGED vars

WaitsFor(c, d) ==
  call[c].todo # <<>> /\ d # c /\ Head(call[c].todo) \in call[d].held

\* Calls that wait for each other in a circle.
Deadlocked(c) ==
  \E D \in SUBSET Call :
    /\ c \in D
    /\ \A d \in D : (\E w \in D : WaitsFor(d, w)) /\ (\E w \in D : WaitsFor(w, d))

\* PostgreSQL's deadlock detector ends one of them with an error: its locks
\* are released and nothing of it remains.
abort(c) ==
  /\ Deadlocked(c)
  /\ Become(c, Idle)
  /\ UNCHANGED vars

AtDecision(c, op) ==
  call[c].op = op /\ call[c].todo = <<>> /\ call[c].then = "decide"

-----------------------------------------------------------------------------
(* Admission, eligibility, dispatch: the Job row first.                    *)

begin_admit(c, j) ==
  /\ call[c] = Idle /\ jobState[j] # "Absent"
  /\ Become(c, Start("admit", j, 0, None, <<JobRow(j)>>, "decide"))
  /\ UNCHANGED vars

\* Faulty variant: the Job is read without its lock.
FaultyBeginSatisfy(c, j, i) ==
  /\ call[c] = Idle /\ i \in JobSteps(j)
  /\ Become(c, [Start("satisfy", j, i, None, fetch_job_steps(j), "decide") EXCEPT
                  !.seen.job = jobState[j]])
  /\ UNCHANGED vars

begin_satisfy(c, j, i) ==
  /\ call[c] = Idle /\ i \in JobSteps(j)
  /\ Become(c, Start("satisfy", j, i, None,
                     <<JobRow(j)>> \o fetch_job_steps(j), "decide"))
  /\ UNCHANGED vars

begin_dispatch(c, j, i) ==
  /\ call[c] = Idle /\ i \in JobSteps(j)
  /\ Become(c, Start("dispatch", j, i, None,
                     <<JobRow(j)>> \o fetch_job_steps(j), "attempts"))
  /\ UNCHANGED vars

\* SELECT EXISTS(.. FOR UPDATE): an active Attempt of the JobStep, if there
\* is one, is locked after it.
existing_active_attempt(c) ==
  LET t == call[c]
      found == StepAttempts(t.job, t.step, Active)
  IN /\ t.op = "dispatch" /\ t.todo = <<>> /\ t.then = "attempts"
     /\ \/ found = {} /\ Become(c, Continue(t, None, <<>>, "decide"))
        \/ \E a \in found : Become(c, Continue(t, None, <<AttemptRow(a)>>, "decide"))
     /\ UNCHANGED vars

SeenEarlierSucceeded(t) ==
  \A k \in Step : k < t.step => t.seen.steps[k] = "Succeeded"

Admissible(t) == t.seen.job = "Pending" /\ EndpointAvailable(jobEndpoint[t.job])

commit_admit(c) ==
  /\ AtDecision(c, "admit") /\ Admissible(call[c])
  /\ jobState' = [jobState EXCEPT ![call[c].job] = "Running"]
  /\ Become(c, Idle)
  /\ UNCHANGED <<jobEndpoint, stepState, intent, attemptVars, cancelActions>>

Satisfiable(t) ==
  t.seen.job = "Running" /\ t.seen.steps[t.step] = "Pending" /\ SeenEarlierSucceeded(t)

commit_satisfy(c) ==
  /\ AtDecision(c, "satisfy") /\ Satisfiable(call[c])
  /\ stepState' = [stepState EXCEPT ![call[c].job][call[c].step] = "PreconditionsSatisfied"]
  /\ Become(c, Idle)
  /\ UNCHANGED <<jobState, jobEndpoint, intent, attemptVars, cancelActions>>

\* Dispatchable, of what the transaction has read.
SeenDispatchable(t) ==
  /\ t.seen.job = "Running"
  /\ SeenEarlierSucceeded(t)
  /\ t.seen.attempt \notin Active

\* A destructive JobStep needs its intent; a transfer is dispatched without
\* one.  The other facts of the two gates hold or do not (`ok').
decide_dispatch(c, a, ok) ==
  LET t == call[c]
  IN /\ AtDecision(c, "dispatch") /\ t.seen.steps[t.step] = "PreconditionsSatisfied"
     /\ SeenDispatchable(t) /\ ok
     /\ CommitAttempt(t.job, t.step, a)
     /\ Become(c, Idle)

deny_dispatch(c, destructive, ok) ==
  LET t == call[c]
  IN /\ AtDecision(c, "dispatch") /\ t.seen.steps[t.step] = "PreconditionsSatisfied"
     /\ t.seen.intent => destructive
     /\ ~(SeenDispatchable(t) /\ (destructive => t.seen.intent) /\ ok)
     /\ RevertToPending(t.job, t.step)
     /\ Become(c, Idle)

-----------------------------------------------------------------------------
(* Evidence: the Attempt row first.                                        *)

EvidenceRows(a) ==
  <<AttemptRow(a), StepRow(attemptJob[a], attemptStep[a]), JobRow(attemptJob[a])>>
    \o fetch_job_steps(attemptJob[a])

begin_evidence(c, a) ==
  /\ call[c] = Idle /\ attemptState[a] # "Absent"
  /\ Become(c, Start("evidence", attemptJob[a], attemptStep[a], a, EvidenceRows(a), "decide"))
  /\ UNCHANGED vars

SeenFacts(t) == [job |-> t.seen.job, job_step |-> t.seen.steps[t.step],
                 attempt |-> t.seen.attempt]

SeenOthersSucceeded(t) ==
  \A k \in Step \ {t.step} : t.seen.steps[k] \in {"Absent", "Succeeded"}

\* The four kinds of evidence lock and persist alike.
commit_evidence(c) ==
  LET t == call[c]
      f == SeenFacts(t)
      o == SeenOthersSucceeded(t)
  IN /\ AtDecision(c, "evidence")
     /\ \/ \E ev \in ActionEvidence : Persist(t.attempt, apply_action_evidence(f, ev, o))
        \/ /\ t.attempt \in cancelActions
           /\ \E ev \in CancelAckEvidence : Persist(t.attempt, apply_cancel_ack(f, ev))
        \/ \E ev \in StatusReportEvidence : Persist(t.attempt, apply_status_report(f, ev, o))
        \/ /\ t.seen.attempt = "AwaitingReconciliation"
           /\ Persist(t.attempt, close_indeterminate(f))
     /\ Become(c, Idle)
     /\ UNCHANGED cancelActions

\* A lost session: the scan finds the Endpoint's executing Attempt, whose row
\* alone is locked afterwards.
begin_mark(c, e, a) ==
  /\ call[c] = Idle
  /\ attemptState[a] \in Executing /\ jobEndpoint[attemptJob[a]] = e
  /\ stepState[attemptJob[a]][attemptStep[a]] = "Dispatching"
  /\ Become(c, Start("mark", attemptJob[a], attemptStep[a], a, <<AttemptRow(a)>>, "decide"))
  /\ UNCHANGED vars

commit_mark(c) ==
  /\ AtDecision(c, "mark") /\ call[c].seen.attempt \in Executing
  /\ attemptState' = [attemptState EXCEPT ![call[c].attempt] =
                        mark_awaiting_reconciliation(call[c].seen.attempt)]
  /\ Become(c, Idle)
  /\ UNCHANGED <<jobVars, attemptJob, attemptStep, cancelActions>>

-----------------------------------------------------------------------------
(* request_cancellation: a scan without a lock, then the rows, then a check *)
(* that the scan is still true, up to MAX_PASSES times.                     *)

MAX_PASSES == 8

begin_cancel(c, j) ==
  /\ call[c] = Idle /\ jobState[j] # "Absent"
  /\ Become(c, Start("cancel", j, 0, None, <<>>, "scan"))
  /\ UNCHANGED vars

\* Faulty variant: an Attempt that has ended is still a candidate.
FaultyCandidates(j) == {a \in Attempt : attemptState[a] # "Absent" /\ attemptJob[a] = j}

active_attempt_candidate_rows(j) == JobAttempts(j, Active)

scan(c) ==
  LET t == call[c]
      found == active_attempt_candidate_rows(t.job)
  IN /\ t.op = "cancel" /\ t.then = "scan"
     /\ \/ /\ found = {}
           /\ Become(c, Continue(t, None, <<JobRow(t.job)>>, "rescan"))
        \/ \E a \in found :
             Become(c, Continue(t, a, <<AttemptRow(a)>>, "still_active"))
     /\ UNCHANGED vars

\* Rolls back and scans again.  The eighth pass is refused as it begins.
Retry(c) ==
  Become(c, Tx("cancel", call[c].job, 0, None, call[c].pass + 1, <<>>, {}, Unread, "scan"))

\* The locked candidate is still active: its JobStep, the Job and the
\* JobSteps follow.
still_active(c) ==
  LET t == call[c]
  IN /\ t.op = "cancel" /\ t.todo = <<>> /\ t.then = "still_active"
     /\ \/ /\ t.seen.attempt \in Active
           /\ Become(c, Continue(t, t.attempt,
                <<StepRow(t.job, attemptStep[t.attempt]), JobRow(t.job)>>
                  \o fetch_job_steps(t.job), "decide"))
        \/ t.seen.attempt \notin Active /\ Retry(c)
     /\ UNCHANGED vars

\* Under the Job's lock no dispatch can commit any more.
rescan(c) ==
  LET t == call[c]
  IN /\ t.op = "cancel" /\ t.todo = <<>> /\ t.then = "rescan"
     /\ \/ /\ active_attempt_candidate_rows(t.job) = {}
           /\ Become(c, Continue(t, None, fetch_job_steps(t.job), "decide"))
        \/ active_attempt_candidate_rows(t.job) # {} /\ Retry(c)
     /\ UNCHANGED vars

commit_cancel(c) ==
  LET t == call[c]
  IN /\ AtDecision(c, "cancel") /\ t.seen.job = "Running"
     /\ jobState' = [jobState EXCEPT
                       ![t.job] = IF t.attempt = None THEN "Cancelled" ELSE "Cancelling"]
     /\ cancelActions' = cancelActions \cup ({t.attempt} \ {None})
     /\ Become(c, Idle)
     /\ UNCHANGED <<jobEndpoint, stepState, intent, attemptVars>>

-----------------------------------------------------------------------------
\* Faulty variant: a cancellation that is not eligible keeps its transaction.
FaultyRefused(t) ==
  \/ t.op = "admit" /\ ~Admissible(t)
  \/ t.op = "satisfy" /\ ~Satisfiable(t)
  \/ t.op = "dispatch" /\ t.seen.steps[t.step] # "PreconditionsSatisfied"
  \/ t.op = "mark" /\ t.seen.attempt \notin Executing

\* The Domain refuses, and the transaction is rolled back.
Refused(t) ==
  \/ t.op = "admit" /\ ~Admissible(t)
  \/ t.op = "satisfy" /\ ~Satisfiable(t)
  \/ t.op = "dispatch" /\ t.seen.steps[t.step] # "PreconditionsSatisfied"
  \/ t.op = "mark" /\ t.seen.attempt \notin Executing
  \/ t.op = "cancel" /\ t.seen.job # "Running"

rollback(c) ==
  /\ call[c] # Idle /\ AtDecision(c, call[c].op) /\ Refused(call[c])
  /\ Become(c, Idle)
  /\ UNCHANGED vars

\* The Server stops, PostgreSQL rolls back what it had open, and the Server
\* starts again with its sweep over all Attempts.
reconcile_all_active_attempts_on_startup ==
  /\ call' = [c \in Call |-> Idle]
  /\ reconcile_on_startup

\* Transactions that lock one row at most and wait for nothing while they
\* hold it.
SingleRow ==
  \/ \E j \in Job, e \in Endpoint, n \in Step : create_workflow(j, e, n)
  \/ \E j \in Job, i \in Step :
       (\A c \in Call : StepRow(j, i) \notin call[c].held) /\ authorize_destructive_intent(j, i)

Begin(c) ==
  \/ \E j \in Job : begin_admit(c, j) \/ begin_cancel(c, j)
  \/ \E j \in Job, i \in Step : begin_satisfy(c, j, i) \/ begin_dispatch(c, j, i)
  \/ \E a \in Attempt : begin_evidence(c, a)
  \/ \E e \in Endpoint, a \in Attempt : begin_mark(c, e, a)

Proceed(c) ==
  \/ lock_row(c) \/ abort(c) \/ rollback(c)
  \/ existing_active_attempt(c)
  \/ scan(c) \/ still_active(c) \/ rescan(c)
  \/ commit_admit(c) \/ commit_satisfy(c) \/ commit_evidence(c)
  \/ commit_mark(c) \/ commit_cancel(c)
  \/ \E ok \in BOOLEAN :
       \/ \E a \in Attempt : decide_dispatch(c, a, ok)
       \/ \E d \in BOOLEAN : deny_dispatch(c, d, ok)

TxNext ==
  \/ SingleRow /\ UNCHANGED call
  \/ \E c \in Call : Begin(c) \/ Proceed(c)
  \/ reconcile_all_active_attempts_on_startup

TxSpec == TxInit /\ [][TxNext]_txVars

\* A waiting transaction is granted its lock in turn (PostgreSQL queues those
\* that wait for a row), and a transaction that can go on does.
TxLiveSpec == TxSpec /\ \A c \in Call : SF_txVars(Proceed(c))

-----------------------------------------------------------------------------
(* Properties.                                                             *)

\* Whatever is read when, whoever waits and whoever is aborted: what the
\* transactions do to the tables is what the one-step transactions of
\* JobLifecycle do (lock, read afresh, decide, persist).
RefinesJobLifecycle == Spec

\* Every call of the repository ends: it commits, is rolled back, or is
\* aborted in a deadlock; a cancellation does not scan for ever.
TransactionsEnd == \A c \in Call : call[c] # Idle ~> call[c] = Idle

\* The eighth pass of request_cancellation, which fails with an error, is
\* never reached: each JobStep costs it at most two more passes, one in which
\* its Attempt is dispatched and one in which it ends.
PassesSuffice ==
  \A c \in Call : call[c] # Idle =>
    call[c].pass <= 2 * MaxSteps + 1 /\ call[c].pass < MAX_PASSES
=============================================================================
