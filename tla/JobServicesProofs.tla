------------------------- MODULE JobServicesProofs -------------------------
(***************************************************************************)
(* Proofs about the two modules that take the steps of JobLifecycle apart, *)
(* for any number of Endpoints, Jobs, workflow steps and Attempts.         *)
(*                                                                         *)
(* JobTransactions implements JobLifecycle, with any number of             *)
(* connections.  The argument is that of two-phase locking.  A row is      *)
(* locked by one call at most, a commit changes only rows its call has     *)
(* locked (or creates new ones), so what a call has read under a lock is   *)
(* still true when it commits (Current); and a call has locked, or is      *)
(* still to lock, every row its decision depends on (Purpose).             *)
(*                                                                         *)
(* ActionExecution implements it too, with any number of callers, units of *)
(* Capacity and messages in flight.  RInv carries the reservations and the *)
(* refinement, for any number of dispatch calls per Attempt.  XInv adds    *)
(* what is true of an Attempt that is dispatched by one call: what the     *)
(* Agent did to it, what the messages in flight say of it and what the     *)
(* records say of it agree, and once it has been executed or refused       *)
(* nothing can start it again.                                             *)
(***************************************************************************)
EXTENDS JobTransactions, ActionExecution, JobLifecycleProofs

\* The time limit of the solver, in seconds, for every leaf that names no other
\* prover.
USE SMTT(60)

-----------------------------------------------------------------------------
(* The transactions of job_repository.rs.                                  *)

Elements(s) == {s[n] : n \in 1..Len(s)}

Row == {JobRow(j) : j \in Job}
       \cup {StepRow(p[1], p[2]) : p \in Job \X Step}
       \cup {AttemptRow(a) : a \in Attempt}

\* The rows a call has locked or is about to lock.
Rows(t) == t.held \cup Elements(t.todo)

Seen == [job : JobState \cup {"Absent"}, steps : [Step -> JobStepState \cup {"Absent"}],
         intent : BOOLEAN, attempt : AttemptState \cup {"Absent"}]

TxRecord ==
  [op : {"admit", "satisfy", "dispatch", "evidence", "mark", "cancel"},
   job : Job, step : Step \cup {0}, attempt : Attempt \cup {None}, pass : Nat,
   todo : Seq(Row), held : SUBSET Row, seen : Seen,
   then : {"decide", "attempts", "scan", "still_active", "rescan"}]

\* What was read under a lock that is still held is what the tables hold.
Current(t) ==
  /\ JobRow(t.job) \in t.held => t.seen.job = jobState[t.job]
  /\ \A k \in Step :
       IF StepRow(t.job, k) \in t.held
       THEN /\ t.seen.steps[k] = stepState[t.job][k]
            /\ k = t.step => t.seen.intent = intent[t.job][k]
       ELSE t.seen.steps[k] = "Absent"
  /\ AttemptRow(t.attempt) \in t.held => t.seen.attempt = attemptState[t.attempt]
  /\ t.seen.attempt # "Absent" =>
       \E a \in Attempt : AttemptRow(a) \in t.held /\ t.seen.attempt = attemptState[a]

\* The rows of a call are those of its Job, and of Attempts that exist.
OwnRows(t) ==
  /\ \A j \in Job : JobRow(j) \in Rows(t) => j = t.job
  /\ \A j \in Job, i \in Step : StepRow(j, i) \in Rows(t) => j = t.job
  /\ \A a \in Attempt : AttemptRow(a) \in Rows(t) =>
       /\ attemptState[a] # "Absent"
       /\ \/ a = t.attempt
          \/ t.op = "dispatch" /\ attemptJob[a] = t.job /\ attemptStep[a] = t.step

\* The Job is idle: nothing of it can start while its row is locked.
NoneActive(j) == \A a \in Attempt : attemptJob[a] = j => attemptState[a] \notin Active

Purpose(t) ==
  /\ jobState[t.job] # "Absent"
  /\ t.op \in {"admit", "satisfy", "dispatch", "evidence"} => JobRow(t.job) \in Rows(t)
  /\ t.op \in {"satisfy", "dispatch", "evidence"} =>
       /\ t.step \in Step /\ stepState[t.job][t.step] # "Absent"
       /\ \A k \in Step : stepState[t.job][k] # "Absent" => StepRow(t.job, k) \in Rows(t)
  /\ t.op \in {"admit", "satisfy", "dispatch"} => t.attempt = None
  /\ t.op \in {"evidence", "mark"} =>
       t.attempt # None /\ attemptStep[t.attempt] = t.step /\ AttemptRow(t.attempt) \in Rows(t)
  /\ t.attempt # None => attemptState[t.attempt] # "Absent" /\ attemptJob[t.attempt] = t.job

\* A cancellation, pass by pass.
CancelPhase(t) ==
  /\ t.then \in {"scan", "still_active", "rescan", "decide"}
  /\ t.then = "scan" => t.held = {} /\ t.todo = <<>>
  /\ t.then = "rescan" => t.attempt = None /\ JobRow(t.job) \in Rows(t)
  /\ t.then = "still_active" => t.attempt # None /\ AttemptRow(t.attempt) \in Rows(t)
  /\ t.then = "decide" =>
       /\ JobRow(t.job) \in Rows(t)
       /\ IF t.attempt = None THEN JobRow(t.job) \in t.held /\ NoneActive(t.job)
          ELSE AttemptRow(t.attempt) \in t.held /\ t.seen.attempt \in Active

Good(t) ==
  /\ t \in TxRecord /\ Current(t) /\ OwnRows(t) /\ Purpose(t)
  /\ t.op = "cancel" => CancelPhase(t)

\* The JobSteps of a Job are numbered from one.
Contiguous ==
  \A j \in Job : \E n \in 0..MaxSteps : \A i \in Step : stepState[j][i] # "Absent" <=> i <= n

Exclusive == \A c, d \in Call : c # d => call[c].held \cap call[d].held = {}

TxInv ==
  /\ IInv /\ Contiguous /\ Exclusive
  /\ call \in [Call -> {Idle} \cup TxRecord]
  /\ \A c \in Call : call[c] = Idle \/ Good(call[c])

-----------------------------------------------------------------------------
(* Rows and sequences of rows.                                             *)

\* Rows of different tables or identifiers differ.
LEMMA RowsDiffer ==
  /\ \A j, k : JobRow(j) = JobRow(k) => j = k
  /\ \A j, k, i : JobRow(j) # StepRow(k, i)
  /\ \A j, a : JobRow(j) # AttemptRow(a)
  /\ \A j, k, i, l : StepRow(j, i) = StepRow(k, l) => j = k /\ i = l
  /\ \A j, i, a : StepRow(j, i) # AttemptRow(a)
  /\ \A a, b : AttemptRow(a) = AttemptRow(b) => a = b
  /\ \A j : JobRow(j)[1] # "attempt"
  /\ \A j, i : StepRow(j, i)[1] # "attempt"
  /\ \A a : AttemptRow(a)[1] = "attempt" /\ AttemptRow(a)[2] = a
  BY Zenon DEF JobRow, StepRow, AttemptRow

\* A row is a Job's, a JobStep's or an Attempt's.
LEMMA RowKinds ==
  ASSUME NEW r \in Row
  PROVE  \/ \E j \in Job : r = JobRow(j)
         \/ \E j \in Job, i \in Step : r = StepRow(j, i)
         \/ \E a \in Attempt : r = AttemptRow(a)
  BY Zenon DEF Row

LEMMA RowsAreRows ==
  /\ \A j \in Job : JobRow(j) \in Row
  /\ \A j \in Job, i \in Step : StepRow(j, i) \in Row
  /\ \A a \in Attempt : AttemptRow(a) \in Row
<1>1. ASSUME NEW j \in Job, NEW i \in Step PROVE StepRow(j, i) \in Row
  <2>1. <<j, i>> \in Job \X Step /\ <<j, i>>[1] = j /\ <<j, i>>[2] = i
    BY Zenon
  <2>2. QED  BY <2>1 DEF Row
<1>2. QED  BY <1>1 DEF Row

LEMMA HeadAndTail ==
  ASSUME NEW S, NEW s \in Seq(S), s # <<>>
  PROVE  /\ Head(s) \in S /\ Tail(s) \in Seq(S)
         /\ Elements(s) = {Head(s)} \cup Elements(Tail(s))
<1>1. /\ Len(s) \in Nat /\ Len(s) > 0 /\ Head(s) = s[1] /\ Tail(s) \in Seq(S)
      /\ Len(Tail(s)) = Len(s) - 1 /\ \A n \in 1..Len(Tail(s)) : Tail(s)[n] = s[n + 1]
  OBVIOUS
<1>2. ASSUME NEW n \in 1..Len(s) PROVE s[n] \in {Head(s)} \cup Elements(Tail(s))
  <2>1. CASE n = 1
    BY Zenon, <1>1, <2>1
  <2>2. CASE n # 1
    <3>1. n - 1 \in 1..Len(Tail(s)) /\ (n - 1) + 1 = n
      BY <1>1, <2>2
    <3>2. QED  BY <1>1, <3>1 DEF Elements
  <2>3. QED  BY <2>1, <2>2
<1>3. ASSUME NEW n \in 1..Len(Tail(s)) PROVE Tail(s)[n] \in Elements(s)
  <2>1. n + 1 \in 1..Len(s)
    BY <1>1
  <2>2. QED  BY <1>1, <2>1 DEF Elements
<1>4. Head(s) \in S /\ Head(s) \in Elements(s)
  <2>1. 1 \in 1..Len(s)
    BY <1>1
  <2>2. QED  BY <1>1, <2>1 DEF Elements
<1>5. QED  BY <1>1, <1>2, <1>3, <1>4 DEF Elements

LEMMA Concatenation ==
  ASSUME NEW S, NEW s \in Seq(S), NEW t \in Seq(S)
  PROVE  s \o t \in Seq(S) /\ Elements(s \o t) = Elements(s) \cup Elements(t)
<1>1. /\ s \o t \in Seq(S) /\ Len(s \o t) = Len(s) + Len(t)
      /\ Len(s) \in Nat /\ Len(t) \in Nat
      /\ \A n \in 1..Len(s) + Len(t) :
           (s \o t)[n] = IF n <= Len(s) THEN s[n] ELSE t[n - Len(s)]
  OBVIOUS
<1>2. ASSUME NEW n \in 1..Len(s \o t) PROVE (s \o t)[n] \in Elements(s) \cup Elements(t)
  <2>1. CASE n <= Len(s)
    <3>1. n \in 1..Len(s) /\ (s \o t)[n] = s[n]
      BY <1>1, <2>1
    <3>2. QED  BY <3>1 DEF Elements
  <2>2. CASE ~(n <= Len(s))
    <3>1. n - Len(s) \in 1..Len(t) /\ (s \o t)[n] = t[n - Len(s)]
      BY <1>1, <2>2
    <3>2. QED  BY <3>1 DEF Elements
  <2>3. QED  BY <2>1, <2>2
<1>3. ASSUME NEW n \in 1..Len(s) PROVE s[n] \in Elements(s \o t)
  <2>1. n \in 1..Len(s \o t) /\ (s \o t)[n] = s[n]
    BY <1>1
  <2>2. QED  BY <2>1 DEF Elements
<1>4. ASSUME NEW n \in 1..Len(t) PROVE t[n] \in Elements(s \o t)
  <2>1. n + Len(s) \in 1..Len(s \o t) /\ (n + Len(s)) - Len(s) = n /\ ~(n + Len(s) <= Len(s))
    BY <1>1
  <2>2. (s \o t)[n + Len(s)] = t[n]
    BY Zenon, <1>1, <2>1
  <2>3. QED  BY <2>1, <2>2 DEF Elements
<1>5. QED  BY Zenon, <1>1, <1>2, <1>3, <1>4 DEF Elements

LEMMA OneRow ==
  ASSUME NEW r \in Row
  PROVE  <<r>> \in Seq(Row) /\ Elements(<<r>>) = {r}
  BY DEF Elements

LEMMA NoRow == <<>> \in Seq(Row) /\ Elements(<<>>) = {}
  BY DEF Elements

\* fetch_job_steps locks the JobSteps of the Job, all of them.
LEMMA FetchedSteps ==
  ASSUME Contiguous, NEW j \in Job
  PROVE  /\ fetch_job_steps(j) \in Seq(Row)
         /\ Elements(fetch_job_steps(j)) = {StepRow(j, i) : i \in JobSteps(j)}
<1>1. PICK n \in 0..MaxSteps : \A i \in Step : stepState[j][i] # "Absent" <=> i <= n
  BY Zenon DEF Contiguous
<1>2. JobSteps(j) = 1..n /\ n \in Nat
  BY <1>1, MaxStepsAssumption DEF JobSteps, Step
<1>3. fetch_job_steps(j) = [i \in 1..n |-> StepRow(j, i)]
  BY Zenon, <1>2 DEF fetch_job_steps
<1>4. \A i \in 1..n : i \in Step /\ StepRow(j, i) \in Row
  BY <1>1, MaxStepsAssumption, RowsAreRows DEF Step
<1> DEFINE f == [i \in 1..n |-> StepRow(j, i)]
<1>5. f \in Seq(Row) /\ Len(f) = n
  BY <1>2, <1>4
<1>6. Elements(f) = {StepRow(j, i) : i \in 1..n}
  BY Zenon, <1>5 DEF Elements
<1>7. QED  BY <1>2, <1>3, <1>5, <1>6

-----------------------------------------------------------------------------
(* What the steps of others leave of a call.                               *)

\* A step that changes only rows in H, creates rows, and starts an Attempt of
\* a Job only if H holds the Job's row.
Frame(H) ==
  /\ \A j \in Job : jobState[j] # "Absent" =>
       /\ jobState'[j] # "Absent"
       /\ JobRow(j) \notin H => jobState'[j] = jobState[j]
       /\ \A i \in Step :
            /\ stepState'[j][i] = "Absent" <=> stepState[j][i] = "Absent"
            /\ StepRow(j, i) \notin H =>
                 stepState'[j][i] = stepState[j][i] /\ intent'[j][i] = intent[j][i]
  /\ \A a \in Attempt : attemptState[a] # "Absent" =>
       /\ attemptState'[a] # "Absent"
       /\ attemptJob'[a] = attemptJob[a] /\ attemptStep'[a] = attemptStep[a]
       /\ AttemptRow(a) \notin H => attemptState'[a] = attemptState[a]
  /\ \A a \in Attempt : attemptState'[a] \in Active =>
       \/ attemptState[a] \in Active
       \/ JobRow(attemptJob'[a]) \in H

\* A call is not disturbed by a step that changes none of its rows.
LEMMA FrameKeepsGood ==
  ASSUME NEW t, Good(t), NEW H, H \cap t.held = {}, Frame(H)
  PROVE  Good(t)'
<1>1. /\ t \in TxRecord /\ t.job \in Job /\ t.held \subseteq Row /\ jobState[t.job] # "Absent"
      /\ t.attempt \in Attempt \cup {None} /\ t.held \subseteq Rows(t)
  BY Zenon DEF Good, TxRecord, Purpose, Rows
<1>2. /\ JobRow(t.job) \in t.held => jobState'[t.job] = jobState[t.job]
      /\ \A k \in Step : StepRow(t.job, k) \in t.held =>
           stepState'[t.job][k] = stepState[t.job][k] /\ intent'[t.job][k] = intent[t.job][k]
      /\ jobState'[t.job] # "Absent"
      /\ \A k \in Step : stepState'[t.job][k] = "Absent" <=> stepState[t.job][k] = "Absent"
  BY Zenon, <1>1 DEF Frame
<1>3. ASSUME NEW a \in Attempt, AttemptRow(a) \in Rows(t)
      PROVE  /\ attemptState[a] # "Absent" /\ attemptState'[a] # "Absent"
             /\ attemptJob'[a] = attemptJob[a] /\ attemptStep'[a] = attemptStep[a]
             /\ AttemptRow(a) \in t.held => attemptState'[a] = attemptState[a]
  BY Zenon, <1>1, <1>3 DEF Frame, Good, OwnRows
<1>4. t.attempt # None =>
        /\ attemptState'[t.attempt] # "Absent"
        /\ attemptJob'[t.attempt] = attemptJob[t.attempt]
        /\ attemptStep'[t.attempt] = attemptStep[t.attempt]
  BY Zenon, <1>1 DEF Frame, Good, Purpose
<1>5. t.attempt = None => AttemptRow(t.attempt) \notin t.held
  <2>1. AttemptRow(None) \notin Row
    BY NoAttemptAssumption, RowKinds, RowsDiffer
  <2>2. QED  BY <1>1, <2>1
<1>6. Current(t)'
  <2>1. AttemptRow(t.attempt) \in t.held => t.seen.attempt = attemptState'[t.attempt]
    BY Zenon, <1>1, <1>3, <1>5 DEF Good, Current
  <2>2. t.seen.attempt # "Absent" =>
          \E a \in Attempt : AttemptRow(a) \in t.held /\ t.seen.attempt = attemptState'[a]
    BY Zenon, <1>1, <1>3 DEF Good, Current
  <2>3. QED  BY <1>1, <1>2, <2>1, <2>2 DEF Good, Current
<1>7. OwnRows(t)'
  BY Zenon, <1>3 DEF Good, OwnRows, Rows
<1>8. Purpose(t)'
  BY Zenon, <1>1, <1>2, <1>4 DEF Good, Purpose, Rows
<1>9. t.op = "cancel" => CancelPhase(t)'
  <2>1. ASSUME JobRow(t.job) \in t.held, NoneActive(t.job) PROVE NoneActive(t.job)'
    <3> SUFFICES ASSUME NEW a \in Attempt, attemptJob'[a] = t.job, attemptState'[a] \in Active
                 PROVE  FALSE
      BY Zenon DEF NoneActive
    <3>1. JobRow(t.job) \notin H
      BY Zenon, <2>1
    <3>2. attemptState[a] \in Active
      BY Zenon, <3>1 DEF Frame
    <3>3. attemptJob[a] = t.job
      BY Zenon, <3>2 DEF Frame, Active, Executing
    <3>4. QED  BY <2>1, <3>2, <3>3 DEF NoneActive
  <2>2. QED  BY <2>1 DEF Good, CancelPhase, Rows
<1>10. QED  BY <1>1, <1>6, <1>7, <1>8, <1>9 DEF Good, TxRecord, Seen, Row

\* A step of one call that changes no row of the others and leaves its own
\* call in order.
LEMMA CallStep ==
  ASSUME TxInv, NEW c \in Call, NEW u, call' = [call EXCEPT ![c] = u],
         u = Idle \/ (u \in TxRecord /\ Good(u)'),
         \A d \in Call \ {c} : u.held \cap call[d].held = {},
         IInv', Contiguous', NEW H, H \subseteq call[c].held, Frame(H)
  PROVE  TxInv'
<1>1. call' \in [Call -> {Idle} \cup TxRecord']
  BY Zenon DEF TxInv, TxRecord, Seen, Row
<1>2. /\ call'[c] = u
      /\ \A d \in Call \ {c} : call'[d] = call[d] /\ H \cap call[d].held = {}
  BY Zenon DEF TxInv, Exclusive
<1>3. Exclusive'
  BY Zenon, <1>2 DEF TxInv, Exclusive
<1>4. ASSUME NEW d \in Call, call[d] # Idle, d # c PROVE Good(call[d])'
  <2>1. Good(call[d]) /\ call'[d] = call[d]
    BY Zenon, <1>2, <1>4 DEF TxInv
  <2> DEFINE t == call[d]
  <2>2. \A e : e = t => (Good(e) /\ H \cap e.held = {})
    BY Zenon, <1>2, <1>4, <2>1
  <2>3. QED
    BY Zenon, <1>2, <1>4, <2>1, <2>2, FrameKeepsGood
<1>5. QED  BY <1>1, <1>2, <1>3, <1>4 DEF TxInv

\* A step that changes the call alone.
LEMMA LocalStep ==
  ASSUME TxInv, NEW c \in Call, NEW u, call' = [call EXCEPT ![c] = u], UNCHANGED vars,
         u = Idle \/ Good(u),
         \A d \in Call \ {c} : u.held \cap call[d].held = {}
  PROVE  TxInv'
<1>1. Frame({})
  BY Zenon DEF Frame, vars, jobVars, attemptVars
<1>2. IInv'
  BY Zenon, NextPreserves DEF TxInv
<1>3. Contiguous'
  BY Zenon DEF TxInv, Contiguous, vars, jobVars
<1>4. u = Idle \/ (u \in TxRecord /\ Good(u)')
  BY Zenon, <1>1, FrameKeepsGood DEF Good
<1>5. QED  BY Zenon, <1>1, <1>2, <1>3, <1>4, CallStep

\* A call ends without a change.
LEMMA EndsUnchanged ==
  ASSUME TxInv, NEW c \in Call, Become(c, Idle), UNCHANGED vars
  PROVE  TxInv'
<1>1. Idle.held = {}
  BY Zenon DEF Idle, Start, Tx
<1>2. QED  BY Zenon, <1>1, LocalStep DEF Become

LEMMA NothingRead ==
  /\ Unread \in Seen /\ Unread.attempt = "Absent"
  /\ \A k \in Step : Unread.steps[k] = "Absent"
  BY Zenon DEF Unread, Seen

\* A call that has read nothing.
LEMMA StartedGood ==
  ASSUME NEW u, u.held = {}, u.seen = Unread
  PROVE  Current(u) /\ Rows(u) = Elements(u.todo)
  BY Zenon, NothingRead DEF Current, Rows

\* Every call begins in order.
LEMMA BeginPreserves ==
  ASSUME TxInv, NEW c \in Call, Begin(c)
  PROVE  TxInv'
<1>1. UNCHANGED vars
  BY Zenon
     DEF Begin, begin_admit, begin_cancel, begin_satisfy, begin_dispatch, begin_evidence,
        begin_mark
<1>2. SUFFICES \E u : call' = [call EXCEPT ![c] = u] /\ Good(u) /\ u.held = {}
  BY Zenon, <1>1, LocalStep
<1>3. IInv /\ Contiguous
  BY Zenon DEF TxInv
<1>4. ASSUME NEW j \in Job, begin_admit(c, j) \/ begin_cancel(c, j)
      PROVE  \E u : call' = [call EXCEPT ![c] = u] /\ Good(u) /\ u.held = {}
  <2>1. CASE begin_admit(c, j)
    <3>1. PICK u : u = Tx("admit", j, 0, None, 1, <<JobRow(j)>>, {}, Unread, "decide")
      BY Zenon
    <3>2. call' = [call EXCEPT ![c] = u] /\ jobState[j] # "Absent"
      BY Zenon, <2>1, <3>1 DEF begin_admit, Become, Start
    <3>3. <<JobRow(j)>> \in Seq(Row) /\ Elements(<<JobRow(j)>>) = {JobRow(j)}
      BY Zenon, RowsAreRows, OneRow
    <3>a. /\ u \in TxRecord /\ u.held = {} /\ u.seen = Unread /\ u.todo = <<JobRow(j)>>
          /\ u.op = "admit" /\ u.job = j /\ u.attempt = None
      BY Zenon, <3>1, <3>3, NothingRead DEF Tx, TxRecord
    <3>4. Current(u) /\ Rows(u) = {JobRow(j)}
      BY Zenon, <3>3, <3>a, StartedGood
    <3>5. OwnRows(u) /\ Purpose(u)
      BY ZenonT(40), <3>2, <3>a, <3>4, RowsDiffer DEF OwnRows, Purpose
    <3>6. QED  BY Zenon, <3>2, <3>a, <3>4, <3>5 DEF Good
  <2>2. CASE begin_cancel(c, j)
    <3>1. PICK u : u = Tx("cancel", j, 0, None, 1, <<>>, {}, Unread, "scan")
      BY Zenon
    <3>2. call' = [call EXCEPT ![c] = u] /\ jobState[j] # "Absent"
      BY Zenon, <2>2, <3>1 DEF begin_cancel, Become, Start
    <3>3. /\ u \in TxRecord /\ u.held = {} /\ u.seen = Unread /\ u.todo = <<>>
          /\ u.op = "cancel" /\ u.job = j /\ u.attempt = None /\ u.then = "scan"
      BY Zenon, <3>1, NoRow, NothingRead DEF Tx, TxRecord
    <3>4. Current(u) /\ Rows(u) = {}
      BY Zenon, <3>3, NoRow, StartedGood
    <3>5. OwnRows(u) /\ Purpose(u) /\ CancelPhase(u)
      BY Zenon, <3>2, <3>3, <3>4 DEF OwnRows, Purpose, CancelPhase
    <3>6. QED  BY Zenon, <3>2, <3>3, <3>4, <3>5 DEF Good
  <2>3. QED  BY <1>4, <2>1, <2>2
<1>5. ASSUME NEW j \in Job, NEW i \in Step, begin_satisfy(c, j, i) \/ begin_dispatch(c, j, i)
      PROVE  \E u : call' = [call EXCEPT ![c] = u] /\ Good(u) /\ u.held = {}
  <2> DEFINE first == <<JobRow(j)>>
             steps == {StepRow(j, k) : k \in JobSteps(j)}
             rows == first \o fetch_job_steps(j)
  <2>1. rows \in Seq(Row) /\ Elements(rows) = {JobRow(j)} \cup steps
    <3>1. fetch_job_steps(j) \in Seq(Row) /\ Elements(fetch_job_steps(j)) = steps
      BY Zenon, <1>3, FetchedSteps
    <3>2. first \in Seq(Row) /\ Elements(first) = {JobRow(j)}
      BY Zenon, RowsAreRows, OneRow
    <3> HIDE DEF first, steps
    <3>3. QED  BY <3>1, <3>2, Concatenation
  <2>2. PICK op \in {"satisfy", "dispatch"}, then \in {"decide", "attempts"} :
          /\ call' = [call EXCEPT ![c] = Tx(op, j, i, None, 1, rows, {}, Unread, then)]
          /\ i \in JobSteps(j)
    BY Zenon, <1>5 DEF begin_satisfy, begin_dispatch, Become, Start
  <2> HIDE DEF rows
  <2>a. PICK u : u = Tx(op, j, i, None, 1, rows, {}, Unread, then)
    BY Zenon
  <2>b. /\ u \in TxRecord /\ u.held = {} /\ u.seen = Unread /\ u.todo = rows
        /\ u.op \in {"satisfy", "dispatch"} /\ u.job = j /\ u.step = i /\ u.attempt = None
    BY Zenon, <2>1, <2>a, NothingRead DEF Tx, TxRecord
  <2>3. Current(u) /\ Rows(u) = {JobRow(j)} \cup {StepRow(j, k) : k \in JobSteps(j)}
    BY Zenon, <2>1, <2>b, StartedGood
  <2>4. stepState[j][i] # "Absent" /\ jobState[j] # "Absent"
    BY Zenon, <1>3, <2>2 DEF JobSteps, IInv, AbsentJobHasNoSteps
  <2>5. OwnRows(u)
    BY <2>b, <2>3, RowsDiffer DEF OwnRows
  <2>6. Purpose(u)
    BY Zenon, <2>b, <2>3, <2>4 DEF Purpose, JobSteps
  <2>7. QED  BY Zenon, <2>2, <2>a, <2>b, <2>3, <2>5, <2>6 DEF Good
<1>6. ASSUME NEW a \in Attempt, begin_evidence(c, a)
      PROVE  \E u : call' = [call EXCEPT ![c] = u] /\ Good(u) /\ u.held = {}
  <2> DEFINE j == attemptJob[a]
             i == attemptStep[a]
             first == <<AttemptRow(a), StepRow(j, i), JobRow(j)>>
             steps == {StepRow(j, k) : k \in JobSteps(j)}
             rows == first \o fetch_job_steps(j)
  <2>1. /\ attemptState[a] # "Absent" /\ j \in Job /\ i \in Step
        /\ stepState[j][i] # "Absent" /\ jobState[j] # "Absent"
    <3>1. attemptState[a] # "Absent" /\ j \in Job /\ i \in Step
      BY Zenon, <1>3, <1>6 DEF begin_evidence, IInv, TypeOK
    <3>2. stepState[j][i] # "Absent"
      BY Zenon, <1>3, <3>1 DEF IInv, TypeOK, StepFollowsAttempt, StepOf
    <3>3. QED  BY <1>3, <3>1, <3>2 DEF IInv, AbsentJobHasNoSteps
  <2>2. /\ rows \in Seq(Row)
        /\ Elements(rows) = {AttemptRow(a), StepRow(j, i), JobRow(j)} \cup steps
    <3>1. AttemptRow(a) \in Row /\ StepRow(j, i) \in Row /\ JobRow(j) \in Row
      BY Zenon, <2>1, RowsAreRows
    <3>2. first \in Seq(Row)
      BY <3>1
    <3>3. Elements(first) = {AttemptRow(a), StepRow(j, i), JobRow(j)}
      BY DEF Elements
    <3>4. fetch_job_steps(j) \in Seq(Row) /\ Elements(fetch_job_steps(j)) = steps
      BY Zenon, <1>3, <2>1, FetchedSteps
    <3> HIDE DEF first, steps
    <3>5. QED  BY <3>2, <3>3, <3>4, Concatenation
  <2>3. call' = [call EXCEPT ![c] = Tx("evidence", j, i, a, 1, rows, {}, Unread, "decide")]
    BY Zenon, <1>6 DEF begin_evidence, Become, Start, EvidenceRows
  <2> HIDE DEF rows
  <2>a. PICK u : u = Tx("evidence", j, i, a, 1, rows, {}, Unread, "decide")
    BY Zenon
  <2>b. /\ u \in TxRecord /\ u.held = {} /\ u.seen = Unread /\ u.todo = rows
        /\ u.op = "evidence" /\ u.job = j /\ u.step = i /\ u.attempt = a
    BY Zenon, <2>1, <2>2, <2>a, NothingRead DEF Tx, TxRecord
  <2>4. /\ Current(u)
        /\ Rows(u) = {AttemptRow(a), StepRow(j, i), JobRow(j)} \cup steps
    BY Zenon, <2>2, <2>b, StartedGood
  <2>5. OwnRows(u)
    BY <2>1, <2>b, <2>4, RowsDiffer DEF OwnRows
  <2>6. Purpose(u)
    BY Zenon, <2>1, <2>b, <2>4, NoAttemptAssumption DEF Purpose, JobSteps
  <2>7. QED  BY Zenon, <2>3, <2>a, <2>b, <2>4, <2>5, <2>6 DEF Good
<1>7. ASSUME NEW e \in Endpoint, NEW a \in Attempt, begin_mark(c, e, a)
      PROVE  \E u : call' = [call EXCEPT ![c] = u] /\ Good(u) /\ u.held = {}
  <2> DEFINE j == attemptJob[a]
             i == attemptStep[a]
  <2>1. attemptState[a] # "Absent" /\ j \in Job /\ i \in Step /\ jobState[j] # "Absent"
    <3>1. attemptState[a] # "Absent" /\ j \in Job /\ i \in Step /\ stepState[j][i] = "Dispatching"
      BY Zenon, <1>3, <1>7 DEF begin_mark, IInv, TypeOK, Executing
    <3>2. QED  BY <1>3, <3>1 DEF IInv, AbsentJobHasNoSteps
  <2>2. PICK u : /\ u = Tx("mark", j, i, a, 1, <<AttemptRow(a)>>, {}, Unread, "decide")
                 /\ call' = [call EXCEPT ![c] = u]
    BY Zenon, <1>7 DEF begin_mark, Become, Start
  <2>3. <<AttemptRow(a)>> \in Seq(Row) /\ Elements(<<AttemptRow(a)>>) = {AttemptRow(a)}
    BY Zenon, RowsAreRows, OneRow
  <2>a. /\ u \in TxRecord /\ u.held = {} /\ u.seen = Unread /\ u.todo = <<AttemptRow(a)>>
        /\ u.op = "mark" /\ u.job = j /\ u.step = i /\ u.attempt = a
    BY Zenon, <2>1, <2>2, <2>3, NothingRead DEF Tx, TxRecord
  <2>4. Current(u) /\ Rows(u) = {AttemptRow(a)}
    BY Zenon, <2>3, <2>a, StartedGood
  <2>5. OwnRows(u)
    BY <2>1, <2>a, <2>4, RowsDiffer DEF OwnRows
  <2>6. Purpose(u)
    BY Zenon, <2>1, <2>a, <2>4, NoAttemptAssumption DEF Purpose
  <2>7. QED  BY Zenon, <2>2, <2>a, <2>4, <2>5, <2>6 DEF Good
<1>8. QED  BY <1>4, <1>5, <1>6, <1>7 DEF Begin

-----------------------------------------------------------------------------
(* Locks.                                                                  *)

\* A call that gets its next lock reads the row as it is, and what it has
\* read before is unchanged.
LEMMA LockPreserves ==
  ASSUME TxInv, NEW c \in Call, lock_row(c)
  PROVE  TxInv'
<1>1. PICK t : t = call[c]
  BY Zenon
<1>2. PICK r : r = Head(t.todo)
  BY Zenon
<1>3. PICK u : u = Tx(t.op, t.job, t.step, t.attempt, t.pass,
                      Tail(t.todo), t.held \cup {r}, Read(t, r), t.then)
  BY Zenon
<1>4. /\ t.todo # <<>> /\ Free(r, c) /\ call' = [call EXCEPT ![c] = u] /\ UNCHANGED vars
  BY Zenon, <1>1, <1>2, <1>3 DEF lock_row, Become
<1>5. t # Idle /\ Good(t)
  BY <1>1, <1>4 DEF TxInv, Idle, Start, Tx
<1>6. /\ r \in Row /\ Tail(t.todo) \in Seq(Row)
      /\ Elements(t.todo) = {r} \cup Elements(Tail(t.todo))
  BY Zenon, <1>2, <1>4, <1>5, HeadAndTail DEF Good, TxRecord
<1>7. /\ u.op = t.op /\ u.job = t.job /\ u.step = t.step /\ u.attempt = t.attempt
      /\ u.todo = Tail(t.todo) /\ u.held = t.held \cup {r} /\ u.seen = Read(t, r)
      /\ u.then = t.then
  BY Zenon, <1>3 DEF Tx
<1>8. Rows(u) = Rows(t) /\ r \in Rows(t) /\ t.held \subseteq Rows(t)
  BY Zenon, <1>6, <1>7 DEF Rows
<1>9. IInv /\ t \in TxRecord /\ t.job \in Job /\ t.seen \in Seen
  BY Zenon, <1>5 DEF TxInv, Good, TxRecord
<1>10. /\ Read(t, r).job = (IF r = JobRow(t.job) THEN jobState[t.job] ELSE t.seen.job)
       /\ \A k \in Step : Read(t, r).steps[k] =
            (IF r = StepRow(t.job, k) THEN stepState[t.job][k] ELSE t.seen.steps[k])
       /\ Read(t, r).intent =
            (IF r = StepRow(t.job, t.step) THEN intent[t.job][t.step] ELSE t.seen.intent)
       /\ Read(t, r).attempt =
            (IF r[1] = "attempt" THEN attemptState[r[2]] ELSE t.seen.attempt)
  BY Zenon DEF Read
<1>11. \/ r[1] # "attempt" /\ \A a : r # AttemptRow(a)
       \/ r[1] = "attempt" /\ \E a \in Attempt : r = AttemptRow(a) /\ r[2] = a
  BY <1>6, RowKinds, RowsDiffer
<1>12. Read(t, r) \in Seen
  <2>1. Read(t, r).job \in JobState \cup {"Absent"}
    BY Zenon, <1>9, <1>10 DEF Seen, IInv, TypeOK
  <2>2. \A k \in Step : Read(t, r).steps[k] \in JobStepState \cup {"Absent"}
    BY <1>9, <1>10 DEF Seen, IInv, TypeOK
  <2>3. Read(t, r).attempt \in AttemptState \cup {"Absent"}
    BY <1>9, <1>10, <1>11 DEF Seen, IInv, TypeOK
  <2>4. Read(t, r).intent \in BOOLEAN
    <3>1. r = StepRow(t.job, t.step) => t.step \in Step
      BY <1>6, RowKinds, RowsDiffer
    <3>2. r = StepRow(t.job, t.step) => intent[t.job][t.step] \in BOOLEAN
      BY Zenon, <1>9, <3>1 DEF IInv, TypeOK
    <3>3. t.seen.intent \in BOOLEAN
      BY Zenon, <1>9 DEF Seen
    <3>4. QED  BY <1>10, <3>2, <3>3
  <2>5. QED  BY <2>1, <2>2, <2>3, <2>4 DEF Read, Seen
<1>13. u \in TxRecord
  BY Zenon, <1>3, <1>6, <1>9, <1>12 DEF Tx, TxRecord
<1>14. Current(u)
  <2>1. JobRow(t.job) \in u.held => u.seen.job = jobState[t.job]
    BY Zenon, <1>5, <1>7, <1>10 DEF Good, Current
  <2>2. ASSUME NEW k \in Step
        PROVE  IF StepRow(t.job, k) \in u.held
               THEN /\ u.seen.steps[k] = stepState[t.job][k]
                    /\ k = t.step => u.seen.intent = intent[t.job][k]
               ELSE u.seen.steps[k] = "Absent"
    <3>1. CASE r = StepRow(t.job, k)
      BY Zenon, <1>7, <1>10, <3>1
    <3>2. CASE r # StepRow(t.job, k)
      BY Zenon, <1>5, <1>7, <1>10, <3>2 DEF Good, Current
    <3>3. QED  BY <3>1, <3>2
  <2>3. AttemptRow(t.attempt) \in u.held => u.seen.attempt = attemptState[t.attempt]
    <3>1. CASE r = AttemptRow(t.attempt)
      BY Zenon, <1>7, <1>10, <3>1, RowsDiffer
    <3>2. CASE AttemptRow(t.attempt) \in t.held /\ r # AttemptRow(t.attempt)
      <4>1. t.attempt \in Attempt
        <5>1. \A a : AttemptRow(a) \in Row => a \in Attempt
          BY RowKinds, RowsDiffer
        <5>2. QED  BY <1>9, <3>2, <5>1 DEF TxRecord
      <4>2. t.attempt # None
        BY Zenon, <4>1, NoAttemptAssumption
      <4>3. t.op # "dispatch"
        BY Zenon, <1>5, <4>2 DEF Good, Purpose
      <4>4. \A a \in Attempt : r # AttemptRow(a)
        BY Zenon, <1>5, <1>8, <3>2, <4>3 DEF Good, OwnRows
      <4>5. QED  BY <1>5, <1>7, <1>10, <1>11, <3>2, <4>4 DEF Good, Current
    <3>3. QED  BY <1>7, <3>1, <3>2
  <2>4. u.seen.attempt # "Absent" =>
          \E a \in Attempt : AttemptRow(a) \in u.held /\ u.seen.attempt = attemptState[a]
    <3>1. CASE r[1] = "attempt"
      BY Zenon, <1>7, <1>10, <1>11, <3>1
    <3>2. CASE r[1] # "attempt"
      BY Zenon, <1>5, <1>7, <1>10, <3>2 DEF Good, Current
    <3>3. QED  BY <3>1, <3>2
  <2>5. QED  BY <1>7, <2>1, <2>2, <2>3, <2>4 DEF Current
<1>15. OwnRows(u) /\ Purpose(u)
  BY Zenon, <1>5, <1>7, <1>8 DEF Good, OwnRows, Purpose
<1>16. t.op = "cancel" => CancelPhase(u)
  <2>1. t.then = "scan" => t.op # "cancel"
    BY Zenon, <1>4, <1>5 DEF Good, CancelPhase
  <2>2. ASSUME t.op = "cancel", t.then = "decide", t.attempt # None
        PROVE  AttemptRow(u.attempt) \in u.held /\ u.seen.attempt \in Active
    <3>1. AttemptRow(t.attempt) \in t.held /\ t.seen.attempt \in Active
      BY Zenon, <1>5, <2>2 DEF Good, CancelPhase
    <3>2. /\ AttemptRow(u.attempt) \in u.held
          /\ u.seen.attempt = attemptState[t.attempt] /\ t.seen.attempt = attemptState[t.attempt]
      BY Zenon, <1>5, <1>7, <1>14, <3>1 DEF Good, Current
    <3>3. QED  BY <3>1, <3>2
  <2>3. QED  BY <1>5, <1>7, <1>8, <2>1, <2>2 DEF Good, CancelPhase
<1>17. Good(u)
  BY Zenon, <1>7, <1>13, <1>14, <1>15, <1>16 DEF Good
<1>18. \A d \in Call \ {c} : u.held \cap call[d].held = {}
  BY Zenon, <1>1, <1>4, <1>7 DEF Free, TxInv, Exclusive
<1>19. QED  BY Zenon, <1>4, <1>17, <1>18, LocalStep

\* A call that goes on with other rows has still read what it has read.
LEMMA ContinueFacts ==
  ASSUME NEW t \in TxRecord, Current(t), NEW a \in Attempt \cup {None}, NEW todo \in Seq(Row),
         NEW then \in {"decide", "attempts", "scan", "still_active", "rescan"},
         a = t.attempt \/ AttemptRow(a) \notin t.held,
         NEW u, u = Continue(t, a, todo, then)
  PROVE  /\ u \in TxRecord /\ Current(u) /\ Rows(u) = t.held \cup Elements(todo)
         /\ u.op = t.op /\ u.job = t.job /\ u.step = t.step /\ u.attempt = a
         /\ u.held = t.held /\ u.todo = todo /\ u.seen = t.seen /\ u.then = then
<1>1. /\ u.op = t.op /\ u.job = t.job /\ u.step = t.step /\ u.attempt = a
      /\ u.held = t.held /\ u.todo = todo /\ u.seen = t.seen /\ u.then = then
  BY Zenon DEF Continue, Tx
<1>2. u \in TxRecord
  BY Zenon DEF Continue, Tx, TxRecord
<1>3. Current(u)
  BY Zenon, <1>1 DEF Current
<1>4. QED  BY <1>1, <1>2, <1>3 DEF Rows

\* A call in order that has locked all its rows.
LEMMA LockedAll ==
  ASSUME TxInv, NEW c \in Call, NEW t, t = call[c], t.op # "Idle"
  PROVE  /\ Good(t) /\ t \in TxRecord /\ t.job \in Job /\ t.held \subseteq Row
         /\ IInv /\ Contiguous /\ \A d \in Call \ {c} : t.held \cap call[d].held = {}
         /\ t.todo = <<>> => Rows(t) = t.held
<1>1. t # Idle /\ Good(t)
  BY DEF TxInv, Idle, Start, Tx
<1>2. \A d \in Call \ {c} : t.held \cap call[d].held = {}
  BY Zenon DEF TxInv, Exclusive
<1>3. t.todo = <<>> => Rows(t) = t.held
  BY Zenon, NoRow DEF Rows
<1>4. QED  BY <1>1, <1>2, <1>3 DEF TxInv, Good, TxRecord

\* A dispatch looks for an active Attempt of its JobStep.
LEMMA ExistingAttemptPreserves ==
  ASSUME TxInv, NEW c \in Call, existing_active_attempt(c)
  PROVE  TxInv'
<1>1. PICK t : t = call[c]
  BY Zenon
<1>2. /\ t.op = "dispatch" /\ t.todo = <<>> /\ UNCHANGED vars
      /\ \E todo : /\ call' = [call EXCEPT ![c] = Continue(t, None, todo, "decide")]
                   /\ \/ todo = <<>>
                      \/ \E a \in StepAttempts(t.job, t.step, Active) : todo = <<AttemptRow(a)>>
  BY Zenon, <1>1 DEF existing_active_attempt, Become
<1>3. PICK todo : /\ call' = [call EXCEPT ![c] = Continue(t, None, todo, "decide")]
                  /\ \/ todo = <<>>
                     \/ \E a \in StepAttempts(t.job, t.step, Active) : todo = <<AttemptRow(a)>>
  BY Zenon, <1>2
<1>4. /\ Good(t) /\ t \in TxRecord /\ t.job \in Job /\ Rows(t) = t.held
      /\ \A d \in Call \ {c} : t.held \cap call[d].held = {}
  BY Zenon, <1>1, <1>2, LockedAll
<1>5. /\ todo \in Seq(Row)
      /\ \A r \in Elements(todo) : \E a \in StepAttempts(t.job, t.step, Active) : r = AttemptRow(a)
  BY Zenon, <1>3, NoRow, OneRow, RowsAreRows DEF StepAttempts
<1>6. t.attempt = None
  BY Zenon, <1>2, <1>4 DEF Good, Purpose
<1>7. PICK u : u = Continue(t, None, todo, "decide")
  BY Zenon
<1>8. /\ u \in TxRecord /\ Current(u) /\ Rows(u) = t.held \cup Elements(todo)
      /\ u.op = "dispatch" /\ u.job = t.job /\ u.step = t.step /\ u.attempt = None
      /\ u.held = t.held
  BY <1>2, <1>4, <1>5, <1>6, <1>7, ContinueFacts DEF Good
<1>9. \A a \in Attempt : AttemptRow(a) \in Elements(todo) =>
        attemptState[a] # "Absent" /\ attemptJob[a] = t.job /\ attemptStep[a] = t.step
  BY <1>5, RowsDiffer DEF StepAttempts, Active, Executing
<1>10. OwnRows(u)
  <2>1. \A j, i : JobRow(j) \notin Elements(todo) /\ StepRow(j, i) \notin Elements(todo)
    BY <1>5, RowsDiffer
  <2>2. QED  BY <1>4, <1>6, <1>8, <1>9, <2>1 DEF Good, OwnRows
<1>11. Purpose(u)
  BY Zenon, <1>2, <1>4, <1>8 DEF Good, Purpose
<1>12. Good(u)
  BY Zenon, <1>8, <1>10, <1>11 DEF Good
<1>13. /\ call' = [call EXCEPT ![c] = u]
       /\ \A d \in Call \ {c} : u.held \cap call[d].held = {}
  BY Zenon, <1>3, <1>4, <1>7, <1>8
<1>14. QED  BY Zenon, <1>2, <1>12, <1>13, LocalStep

\* A cancellation scans.
LEMMA ScanPreserves ==
  ASSUME TxInv, NEW c \in Call, scan(c)
  PROVE  TxInv'
<1>1. PICK t : t = call[c]
  BY Zenon
<1>2. t.op = "cancel" /\ t.then = "scan" /\ UNCHANGED vars
  BY Zenon, <1>1 DEF scan
<1>3. /\ Good(t) /\ t \in TxRecord /\ t.job \in Job /\ t.held = {} /\ t.todo = <<>> /\ IInv
  BY Zenon, <1>1, <1>2, LockedAll DEF Good, CancelPhase
<1>4. CASE Become(c, Continue(t, None, <<JobRow(t.job)>>, "rescan"))
  <2> DEFINE rows == <<JobRow(t.job)>>
  <2>1. PICK u : u = Continue(t, None, rows, "rescan")
    BY Zenon
  <2>2. rows \in Seq(Row) /\ Elements(rows) = {JobRow(t.job)}
    BY Zenon, <1>3, OneRow, RowsAreRows
  <2>a. call' = [call EXCEPT ![c] = u]
    BY Zenon, <1>4, <2>1 DEF Become
  <2> HIDE DEF rows
  <2>3. /\ u \in TxRecord /\ Current(u) /\ Rows(u) = {JobRow(t.job)} /\ u.held = {}
        /\ u.op = "cancel" /\ u.job = t.job /\ u.attempt = None /\ u.then = "rescan"
    <3>1. Current(t)
      BY Zenon, <1>3 DEF Good
    <3>2. /\ u \in TxRecord /\ Current(u) /\ Rows(u) = t.held \cup Elements(rows)
          /\ u.op = t.op /\ u.job = t.job /\ u.attempt = None /\ u.held = t.held
          /\ u.then = "rescan"
      <4>1. AttemptRow(None) \notin t.held
        BY Zenon, <1>3
      <4>2. t \in TxRecord
        BY Zenon, <1>3
      <4>3. rows \in Seq(Row)
        BY Zenon, <2>2
      <4>4. QED  BY <2>1, <3>1, <4>1, <4>2, <4>3, ContinueFacts
    <3>3. QED  BY <1>2, <1>3, <2>2, <3>2
  <2>4. OwnRows(u)
    BY <2>3, RowsDiffer DEF OwnRows
  <2>5. Purpose(u) /\ CancelPhase(u)
    BY Zenon, <1>3, <2>3 DEF Good, Purpose, CancelPhase
  <2>6. QED  BY Zenon, <1>2, <2>a, <2>3, <2>4, <2>5, LocalStep DEF Good
<1>5. ASSUME NEW a \in JobAttempts(t.job, Active),
             Become(c, Continue(t, a, <<AttemptRow(a)>>, "still_active"))
      PROVE  TxInv'
  <2> DEFINE rows == <<AttemptRow(a)>>
  <2>1. PICK u : u = Continue(t, a, rows, "still_active")
    BY Zenon
  <2>2. a \in Attempt /\ attemptState[a] # "Absent" /\ attemptJob[a] = t.job /\ a # None
    BY Zenon, NoAttemptAssumption DEF JobAttempts, Active, Executing
  <2>3. rows \in Seq(Row) /\ Elements(rows) = {AttemptRow(a)}
    BY Zenon, <2>2, OneRow, RowsAreRows
  <2>a. call' = [call EXCEPT ![c] = u]
    BY Zenon, <1>5, <2>1 DEF Become
  <2> HIDE DEF rows
  <2>4. /\ u \in TxRecord /\ Current(u) /\ Rows(u) = {AttemptRow(a)} /\ u.held = {}
        /\ u.op = "cancel" /\ u.job = t.job /\ u.attempt = a /\ u.then = "still_active"
    <3>1. Current(t)
      BY Zenon, <1>3 DEF Good
    <3>2. /\ u \in TxRecord /\ Current(u) /\ Rows(u) = t.held \cup Elements(rows)
          /\ u.op = t.op /\ u.job = t.job /\ u.attempt = a /\ u.held = t.held
          /\ u.then = "still_active"
      <4>1. AttemptRow(a) \notin t.held
        BY Zenon, <1>3
      <4>2. t \in TxRecord /\ a \in Attempt
        BY Zenon, <1>3, <2>2
      <4>3. rows \in Seq(Row)
        BY Zenon, <2>3
      <4>4. QED  BY <2>1, <3>1, <4>1, <4>2, <4>3, ContinueFacts
    <3>3. QED  BY <1>2, <1>3, <2>3, <3>2
  <2>5. OwnRows(u)
    BY <2>2, <2>4, RowsDiffer DEF OwnRows
  <2>6. Purpose(u) /\ CancelPhase(u)
    BY Zenon, <1>3, <2>2, <2>4 DEF Good, Purpose, CancelPhase
  <2>7. QED  BY Zenon, <1>2, <2>a, <2>4, <2>5, <2>6, LocalStep DEF Good
<1>6. QED  BY Zenon, <1>1, <1>4, <1>5 DEF scan, active_attempt_candidate_rows

\* A pass that found something else than it expected starts again.
LEMMA RetryPreserves ==
  ASSUME TxInv, NEW c \in Call, call[c].op = "cancel", Retry(c), UNCHANGED vars
  PROVE  TxInv'
<1>1. PICK t : t = call[c]
  BY Zenon
<1>2. Good(t) /\ t \in TxRecord /\ t.job \in Job
  BY Zenon, <1>1, LockedAll
<1>3. PICK u : u = Tx("cancel", t.job, 0, None, t.pass + 1, <<>>, {}, Unread, "scan")
  BY Zenon
<1>4. /\ u.held = {} /\ u.seen = Unread /\ u.todo = <<>>
      /\ u.op = "cancel" /\ u.job = t.job /\ u.attempt = None /\ u.then = "scan"
  BY Zenon, <1>3 DEF Tx
<1>5. u \in TxRecord
  <2>1. t.pass + 1 \in Nat
    BY <1>2 DEF TxRecord
  <2>2. QED  BY <1>2, <1>3, <2>1, NoRow, NothingRead DEF Tx, TxRecord
<1>6. Current(u) /\ Rows(u) = {}
  BY Zenon, <1>4, NoRow, StartedGood
<1>7. OwnRows(u) /\ Purpose(u) /\ CancelPhase(u)
  BY Zenon, <1>2, <1>4, <1>6 DEF Good, OwnRows, Purpose, CancelPhase
<1>8. Good(u) /\ call' = [call EXCEPT ![c] = u]
  BY Zenon, <1>1, <1>3, <1>5, <1>6, <1>7 DEF Good, Retry, Become
<1>9. QED  BY Zenon, <1>4, <1>8, LocalStep

\* The candidate of a scan is locked: it is still active, or the pass ends.
LEMMA StillActivePreserves ==
  ASSUME TxInv, NEW c \in Call, still_active(c)
  PROVE  TxInv'
<1>1. PICK t : t = call[c]
  BY Zenon
<1>2. t.op = "cancel" /\ t.todo = <<>> /\ t.then = "still_active" /\ UNCHANGED vars
  BY Zenon, <1>1 DEF still_active
<1>3. /\ Good(t) /\ t \in TxRecord /\ t.job \in Job /\ Rows(t) = t.held /\ IInv /\ Contiguous
      /\ t.attempt # None /\ AttemptRow(t.attempt) \in t.held
      /\ \A d \in Call \ {c} : t.held \cap call[d].held = {}
  BY ZenonT(40), <1>1, <1>2, LockedAll DEF Good, CancelPhase
<1> DEFINE i == attemptStep[t.attempt]
           first == <<StepRow(t.job, i), JobRow(t.job)>>
           steps == {StepRow(t.job, k) : k \in JobSteps(t.job)}
           rows == first \o fetch_job_steps(t.job)
<1>4. CASE t.seen.attempt \in Active /\ Become(c, Continue(t, t.attempt, rows, "decide"))
  <2>1. t.attempt \in Attempt /\ i \in Step
    BY Zenon, <1>3 DEF TxRecord, Good, Purpose, IInv, TypeOK
  <2>2. rows \in Seq(Row) /\ Elements(rows) = {StepRow(t.job, i), JobRow(t.job)} \cup steps
    <3>1. StepRow(t.job, i) \in Row /\ JobRow(t.job) \in Row
      BY Zenon, <1>3, <2>1, RowsAreRows
    <3>2. first \in Seq(Row)
      BY <3>1
    <3>3. Elements(first) = {StepRow(t.job, i), JobRow(t.job)}
      BY DEF Elements
    <3>4. fetch_job_steps(t.job) \in Seq(Row) /\ Elements(fetch_job_steps(t.job)) = steps
      BY Zenon, <1>3, FetchedSteps
    <3> HIDE DEF first, steps
    <3>5. QED  BY <3>2, <3>3, <3>4, Concatenation
  <2> HIDE DEF rows
  <2>3. PICK u : u = Continue(t, t.attempt, rows, "decide")
    BY Zenon
  <2>4. /\ u \in TxRecord /\ Current(u) /\ Rows(u) = t.held \cup Elements(rows)
        /\ u.op = "cancel" /\ u.job = t.job /\ u.attempt = t.attempt /\ u.then = "decide"
        /\ u.held = t.held /\ u.seen = t.seen
    BY <1>2, <1>3, <2>1, <2>2, <2>3, ContinueFacts DEF Good
  <2>5. OwnRows(u)
    <3>1. /\ \A j : JobRow(j) \in Elements(rows) => j = t.job
          /\ \A j, k : StepRow(j, k) \in Elements(rows) => j = t.job
          /\ \A a : AttemptRow(a) \notin Elements(rows)
      BY <2>2, RowsDiffer
    <3>2. QED  BY <1>2, <1>3, <2>4, <3>1 DEF Good, OwnRows
  <2>6. Purpose(u)
    BY Zenon, <1>2, <1>3, <2>4 DEF Good, Purpose
  <2>7. CancelPhase(u)
    BY Zenon, <1>3, <1>4, <2>2, <2>4 DEF CancelPhase
  <2>8. Good(u)
    BY Zenon, <2>4, <2>5, <2>6, <2>7 DEF Good
  <2>9. /\ call' = [call EXCEPT ![c] = u]
        /\ \A d \in Call \ {c} : u.held \cap call[d].held = {}
    BY Zenon, <1>3, <1>4, <2>3, <2>4 DEF Become
  <2>10. QED  BY Zenon, <1>2, <2>8, <2>9, LocalStep
<1>5. CASE Retry(c)
  BY Zenon, <1>1, <1>2, <1>5, RetryPreserves
<1>6. QED  BY <1>1, <1>4, <1>5 DEF still_active

\* Under the Job's lock the scan is repeated: what it does not find then
\* cannot come.
LEMMA RescanPreserves ==
  ASSUME TxInv, NEW c \in Call, rescan(c)
  PROVE  TxInv'
<1>1. PICK t : t = call[c]
  BY Zenon
<1>2. t.op = "cancel" /\ t.todo = <<>> /\ t.then = "rescan" /\ UNCHANGED vars
  BY Zenon, <1>1 DEF rescan
<1>3. /\ Good(t) /\ t \in TxRecord /\ t.job \in Job /\ Rows(t) = t.held /\ IInv /\ Contiguous
      /\ t.attempt = None /\ JobRow(t.job) \in t.held
      /\ \A d \in Call \ {c} : t.held \cap call[d].held = {}
  BY ZenonT(40), <1>1, <1>2, LockedAll DEF Good, CancelPhase
<1> DEFINE rows == fetch_job_steps(t.job)
<1>4. CASE /\ JobAttempts(t.job, Active) = {}
           /\ Become(c, Continue(t, None, rows, "decide"))
  <2>1. NoneActive(t.job)
    <3> SUFFICES ASSUME NEW a \in Attempt, attemptJob[a] = t.job, attemptState[a] \in Active
                 PROVE  a \in JobAttempts(t.job, Active)
      BY Zenon, <1>4 DEF NoneActive
    <3>1. stepState[t.job][attemptStep[a]] = "Dispatching"
      BY Zenon, <1>3 DEF IInv, StepFollowsAttempt, StepOf, Active, Executing
    <3>2. QED  BY <3>1 DEF JobAttempts
  <2>2. rows \in Seq(Row) /\ Elements(rows) = {StepRow(t.job, k) : k \in JobSteps(t.job)}
    BY Zenon, <1>3, FetchedSteps
  <2> HIDE DEF rows
  <2>3. PICK u : u = Continue(t, None, rows, "decide")
    BY Zenon
  <2>4. /\ u \in TxRecord /\ Current(u) /\ Rows(u) = t.held \cup Elements(rows)
        /\ u.op = "cancel" /\ u.job = t.job /\ u.attempt = None /\ u.then = "decide"
        /\ u.held = t.held
    BY SMTT(30), <1>2, <1>3, <2>2, <2>3, ContinueFacts DEF Good
  <2>5. OwnRows(u)
    <3>1. /\ \A j : JobRow(j) \notin Elements(rows)
          /\ \A j, k : StepRow(j, k) \in Elements(rows) => j = t.job
          /\ \A a : AttemptRow(a) \notin Elements(rows)
      BY <2>2, RowsDiffer
    <3>2. QED  BY Zenon, <1>2, <1>3, <2>4, <3>1 DEF Good, OwnRows
  <2>6. Purpose(u)
    BY Zenon, <1>2, <1>3, <2>4 DEF Good, Purpose
  <2>7. CancelPhase(u)
    BY Zenon, <1>3, <2>1, <2>4 DEF CancelPhase
  <2>8. Good(u)
    BY Zenon, <2>4, <2>5, <2>6, <2>7 DEF Good
  <2>9. /\ call' = [call EXCEPT ![c] = u]
        /\ \A d \in Call \ {c} : u.held \cap call[d].held = {}
    BY Zenon, <1>3, <1>4, <2>3, <2>4 DEF Become
  <2>10. QED  BY Zenon, <1>2, <2>8, <2>9, LocalStep
<1>5. CASE Retry(c)
  BY Zenon, <1>1, <1>2, <1>5, RetryPreserves
<1>6. QED  BY <1>1, <1>4, <1>5 DEF rescan, active_attempt_candidate_rows

-----------------------------------------------------------------------------
(* Commits.                                                                *)

\* A commit is a step of JobLifecycle that changes rows in H only and creates
\* no JobStep.
Commits(H) ==
  /\ Next /\ Frame(H)
  /\ \A j \in Job, i \in Step : stepState'[j][i] = "Absent" <=> stepState[j][i] = "Absent"

LEMMA CommitStep ==
  ASSUME TxInv, NEW c \in Call, Become(c, Idle), Commits(call[c].held)
  PROVE  TxInv'
<1>1. IInv'
  BY Zenon, NextPreserves DEF TxInv, Commits
<1>2. Contiguous'
  BY Zenon DEF TxInv, Commits, Contiguous
<1>3. Idle.held = {}
  BY Zenon DEF Idle, Start, Tx
<1>4. QED  BY Zenon, <1>1, <1>2, <1>3, CallStep DEF Become, Commits

\* A call that decides has locked every row of its own.
LEMMA DecidingCall ==
  ASSUME TxInv, NEW c \in Call, NEW t, t = call[c], NEW op, AtDecision(c, op), op # "Idle"
  PROVE  /\ t.op = op /\ t.then = "decide"
         /\ Good(t) /\ t \in TxRecord /\ t.job \in Job /\ IInv /\ Rows(t) = t.held
<1>1. t.op = op /\ t.then = "decide" /\ t.todo = <<>>
  BY Zenon DEF AtDecision
<1>2. QED  BY <1>1, LockedAll

\* admit_job.
LEMMA AdmitCommits ==
  ASSUME TxInv, NEW c \in Call, commit_admit(c)
  PROVE  Commits(call[c].held)
<1>1. PICK t : t = call[c]
  BY Zenon
<1>2. t.op = "admit" /\ Good(t) /\ t.job \in Job /\ IInv /\ Rows(t) = t.held
  BY <1>1, DecidingCall DEF commit_admit
<1>3. JobRow(t.job) \in t.held /\ jobState[t.job] = "Pending"
  BY Zenon, <1>1, <1>2 DEF Good, Purpose, Current, commit_admit, Admissible
<1>4. /\ EndpointAvailable(jobEndpoint[t.job])
      /\ jobState' = [jobState EXCEPT ![t.job] = "Running"]
      /\ UNCHANGED <<jobEndpoint, stepState, intent, attemptVars, cancelActions>>
  BY Zenon, <1>1 DEF commit_admit, Admissible
<1>5. Next
  BY Zenon, <1>2, <1>3, <1>4 DEF Next, admit_job
<1>6. Frame(t.held)
  BY Zenon, <1>2, <1>3, <1>4 DEF Frame, attemptVars, IInv, TypeOK
<1>7. QED  BY <1>1, <1>4, <1>5, <1>6 DEF Commits

\* What a call that has locked a Job and all its JobSteps has read of them.
LEMMA StepsAsRead ==
  ASSUME NEW t, Good(t), t.op \in {"satisfy", "dispatch", "evidence"}, Rows(t) = t.held
  PROVE  /\ t.job \in Job /\ t.step \in Step
         /\ JobRow(t.job) \in t.held /\ StepRow(t.job, t.step) \in t.held
         /\ t.seen.job = jobState[t.job]
         /\ \A k \in Step : t.seen.steps[k] = stepState[t.job][k]
         /\ t.seen.intent = intent[t.job][t.step]
<1>1. /\ t.job \in Job /\ t.step \in Step /\ JobRow(t.job) \in t.held
      /\ stepState[t.job][t.step] # "Absent"
      /\ \A k \in Step : stepState[t.job][k] # "Absent" => StepRow(t.job, k) \in t.held
  BY Zenon DEF Good, TxRecord, Purpose
<1>2. StepRow(t.job, t.step) \in t.held
  BY Zenon, <1>1
<1>3. \A k \in Step : t.seen.steps[k] = stepState[t.job][k]
  BY Zenon, <1>1 DEF Good, Current
<1>4. t.seen.job = jobState[t.job] /\ t.seen.intent = intent[t.job][t.step]
  BY Zenon, <1>1, <1>2 DEF Good, Current
<1>5. QED  BY <1>1, <1>2, <1>3, <1>4

\* A JobStep alone changes from one state to another.
LEMMA OneStepFrame ==
  ASSUME IInv, NEW j \in Job, NEW i \in Step, NEW H, StepRow(j, i) \in H,
         stepState[j][i] # "Absent", NEW s, s # "Absent",
         stepState' = [stepState EXCEPT ![j][i] = s],
         UNCHANGED <<jobState, jobEndpoint, intent, attemptVars, cancelActions>>
  PROVE  /\ Frame(H)
         /\ \A k \in Job, n \in Step : stepState'[k][n] = "Absent" <=> stepState[k][n] = "Absent"
<1>1. ASSUME NEW k \in Job, NEW n \in Step
      PROVE  stepState'[k][n] = IF k = j /\ n = i THEN s ELSE stepState[k][n]
  BY Zenon DEF IInv, TypeOK
<1>2. \A k \in Job, n \in Step : stepState'[k][n] = "Absent" <=> stepState[k][n] = "Absent"
  BY <1>1
<1>3. QED  BY <1>1, <1>2 DEF Frame, attemptVars

\* satisfy_current_step_preconditions.
LEMMA SatisfyCommits ==
  ASSUME TxInv, NEW c \in Call, commit_satisfy(c)
  PROVE  Commits(call[c].held)
<1>1. PICK t : t = call[c]
  BY Zenon
<1>2. t.op = "satisfy" /\ Good(t) /\ IInv /\ Rows(t) = t.held
  BY <1>1, DecidingCall DEF commit_satisfy
<1>3. /\ t.job \in Job /\ t.step \in Step /\ StepRow(t.job, t.step) \in t.held
      /\ t.seen.job = jobState[t.job] /\ \A k \in Step : t.seen.steps[k] = stepState[t.job][k]
  BY Zenon, <1>2, StepsAsRead
<1>4. /\ jobState[t.job] = "Running" /\ stepState[t.job][t.step] = "Pending"
      /\ EarlierStepsSucceeded(t.job, t.step)
      /\ stepState' = [stepState EXCEPT ![t.job][t.step] = "PreconditionsSatisfied"]
      /\ UNCHANGED <<jobState, jobEndpoint, intent, attemptVars, cancelActions>>
  BY Zenon, <1>1, <1>3
     DEF commit_satisfy, Satisfiable, SeenEarlierSucceeded, EarlierStepsSucceeded
<1>5. Next
  BY Zenon, <1>3, <1>4 DEF Next, satisfy_preliminary_preconditions
<1>6. stepState[t.job][t.step] # "Absent" /\ "PreconditionsSatisfied" # "Absent"
  BY Zenon, <1>4
<1>7. /\ Frame(t.held)
      /\ \A k \in Job, n \in Step : stepState'[k][n] = "Absent" <=> stepState[k][n] = "Absent"
  BY Zenon, <1>2, <1>3, <1>4, <1>6, OneStepFrame
<1>8. QED  BY <1>1, <1>5, <1>7 DEF Commits

\* A dispatch knows whether its JobStep may be dispatched.
LEMMA DispatchableAsRead ==
  ASSUME IInv, NEW t, Good(t), t.op = "dispatch", Rows(t) = t.held,
         t.seen.steps[t.step] = "PreconditionsSatisfied"
  PROVE  SeenDispatchable(t) <=> Dispatchable(t.job, t.step)
<1>1. /\ t.job \in Job /\ t.step \in Step /\ t.seen.job = jobState[t.job]
      /\ \A k \in Step : t.seen.steps[k] = stepState[t.job][k]
  BY Zenon, StepsAsRead
<1>2. ASSUME NEW a \in Attempt, attemptJob[a] = t.job, attemptStep[a] = t.step
      PROVE  attemptState[a] \notin Active
  BY Zenon, <1>1, <1>2 DEF IInv, StepFollowsAttempt, StepOf, Active, Executing
<1>3. StepAttempts(t.job, t.step, Active) = {}
  BY Zenon, <1>2 DEF StepAttempts
<1>4. t.seen.attempt \notin Active
  <2> SUFFICES ASSUME t.seen.attempt \in Active PROVE FALSE
    BY Zenon
  <2>1. PICK a \in Attempt : AttemptRow(a) \in t.held /\ t.seen.attempt = attemptState[a]
    BY Zenon DEF Good, Current, Active, Executing
  <2>2. t.attempt = None /\ a # None
    BY Zenon, NoAttemptAssumption DEF Good, Purpose
  <2>3. attemptJob[a] = t.job /\ attemptStep[a] = t.step
    BY Zenon, <2>1, <2>2 DEF Good, OwnRows
  <2>4. QED  BY <1>2, <2>1, <2>3
<1>5. SeenEarlierSucceeded(t) <=> EarlierStepsSucceeded(t.job, t.step)
  BY Zenon, <1>1 DEF SeenEarlierSucceeded, EarlierStepsSucceeded
<1>6. QED  BY <1>1, <1>3, <1>4, <1>5 DEF SeenDispatchable, Dispatchable

\* commit_destructive_dispatch and commit_transfer_dispatch, granted.
LEMMA DispatchCommits ==
  ASSUME TxInv, NEW c \in Call, NEW a \in Attempt, NEW ok \in BOOLEAN, decide_dispatch(c, a, ok)
  PROVE  Commits(call[c].held)
<1>1. PICK t : t = call[c]
  BY Zenon
<1>2. t.op = "dispatch" /\ Good(t) /\ IInv /\ Rows(t) = t.held
  BY <1>1, DecidingCall DEF decide_dispatch
<1>3. /\ t.job \in Job /\ t.step \in Step
      /\ JobRow(t.job) \in t.held /\ StepRow(t.job, t.step) \in t.held
      /\ \A k \in Step : t.seen.steps[k] = stepState[t.job][k]
  BY Zenon, <1>2, StepsAsRead
<1>4. /\ stepState[t.job][t.step] = "PreconditionsSatisfied" /\ Dispatchable(t.job, t.step)
      /\ ok /\ CommitAttempt(t.job, t.step, a)
  BY Zenon, <1>1, <1>2, <1>3, DispatchableAsRead DEF decide_dispatch
<1>5. Next
  <2>1. CASE intent[t.job][t.step]
    BY Zenon, <1>3, <1>4, <2>1 DEF Next, commit_destructive_dispatch
  <2>2. CASE ~intent[t.job][t.step]
    BY Zenon, <1>3, <1>4, <2>2 DEF Next, commit_transfer_dispatch
  <2>3. QED  BY <2>1, <2>2
<1>6. /\ attemptState[a] = "Absent"
      /\ stepState' = [stepState EXCEPT ![t.job][t.step] = "Dispatching"]
      /\ attemptState' = [attemptState EXCEPT ![a] = "Dispatched"]
      /\ attemptJob' = [attemptJob EXCEPT ![a] = t.job]
      /\ attemptStep' = [attemptStep EXCEPT ![a] = t.step]
      /\ UNCHANGED <<jobState, jobEndpoint, intent, cancelActions>>
  BY Zenon, <1>4 DEF CommitAttempt
<1>7. \A k \in Job, n \in Step :
        stepState'[k][n] = IF k = t.job /\ n = t.step THEN "Dispatching" ELSE stepState[k][n]
  BY Zenon, <1>2, <1>3, <1>6 DEF IInv, TypeOK
<1>8. \A b \in Attempt : b # a =>
        /\ attemptState'[b] = attemptState[b]
        /\ attemptJob'[b] = attemptJob[b] /\ attemptStep'[b] = attemptStep[b]
  BY Zenon, <1>2, <1>6 DEF IInv, TypeOK
<1>9. attemptJob'[a] = t.job
  BY Zenon, <1>2, <1>6 DEF IInv, TypeOK
<1>10. \A k \in Job, n \in Step : stepState'[k][n] = "Absent" <=> stepState[k][n] = "Absent"
  BY Zenon, <1>4, <1>7
<1>11. Frame(t.held)
  BY <1>3, <1>6, <1>7, <1>8, <1>9, <1>10 DEF Frame
<1>12. QED  BY <1>1, <1>5, <1>10, <1>11 DEF Commits

\* The same, denied: the JobStep returns to Pending.
LEMMA DenyCommits ==
  ASSUME TxInv, NEW c \in Call, NEW destructive \in BOOLEAN, NEW ok \in BOOLEAN,
         deny_dispatch(c, destructive, ok)
  PROVE  Commits(call[c].held)
<1>1. PICK t : t = call[c]
  BY Zenon
<1>2. t.op = "dispatch" /\ Good(t) /\ IInv /\ Rows(t) = t.held
  BY <1>1, DecidingCall DEF deny_dispatch
<1>3. /\ t.job \in Job /\ t.step \in Step /\ StepRow(t.job, t.step) \in t.held
      /\ \A k \in Step : t.seen.steps[k] = stepState[t.job][k]
      /\ t.seen.intent = intent[t.job][t.step]
  BY Zenon, <1>2, StepsAsRead
<1>4. /\ stepState[t.job][t.step] = "PreconditionsSatisfied"
      /\ RevertToPending(t.job, t.step)
      /\ intent[t.job][t.step] => destructive
      /\ ~(Dispatchable(t.job, t.step) /\ (destructive => intent[t.job][t.step]) /\ ok)
  BY Zenon, <1>1, <1>2, <1>3, DispatchableAsRead DEF deny_dispatch
<1>5. Next
  <2>1. CASE destructive
    BY Zenon, <1>3, <1>4, <2>1 DEF Next, deny_destructive_dispatch
  <2>2. CASE ~destructive
    BY Zenon, <1>3, <1>4, <2>2 DEF Next, deny_transfer_dispatch
  <2>3. QED  BY <2>1, <2>2
<1>6. stepState[t.job][t.step] # "Absent" /\ "Pending" # "Absent"
  BY Zenon, <1>4
<1>7. /\ Frame(t.held)
      /\ \A k \in Job, n \in Step : stepState'[k][n] = "Absent" <=> stepState[k][n] = "Absent"
  BY Zenon, <1>2, <1>3, <1>4, <1>6, OneStepFrame DEF RevertToPending
<1>8. QED  BY <1>1, <1>5, <1>7 DEF Commits

\* A decision about an Attempt changes its three rows at most.
LEMMA DecisionFrame ==
  ASSUME IInv, NEW a \in Attempt, attemptState[a] # "Absent", NEW H,
         AttemptRow(a) \in H,
         SoftStep \/ \E b \in Attempt, s \in TerminalAttempt : EndStep(b, s),
         \A b \in Attempt : b # a => attemptState'[b] = attemptState[b],
         \/ UNCHANGED <<jobState, stepState>>
         \/ JobRow(attemptJob[a]) \in H /\ StepRow(attemptJob[a], attemptStep[a]) \in H
  PROVE  /\ Frame(H)
         /\ \A k \in Job, n \in Step : stepState'[k][n] = "Absent" <=> stepState[k][n] = "Absent"
<1>1. CASE SoftStep
  BY Zenon, <1>1 DEF SoftStep, Frame, jobVars, Active, Executing
<1>2. ASSUME NEW b \in Attempt, NEW s \in TerminalAttempt, EndStep(b, s)
      PROVE  /\ Frame(H)
             /\ \A k \in Job, n \in Step : stepState'[k][n] = "Absent" <=> stepState[k][n] = "Absent"
  <2>1. /\ attemptState[b] \in Active
        /\ attemptState' = [attemptState EXCEPT ![b] = s]
        /\ stepState' = [stepState EXCEPT ![attemptJob[b]][attemptStep[b]] = StepOf(s)]
        /\ jobState' = [jobState EXCEPT ![attemptJob[b]] =
                          EndedJob(jobState[attemptJob[b]], s, OtherStepsSucceeded(b))]
        /\ UNCHANGED <<jobEndpoint, intent, attemptJob, attemptStep, cancelActions>>
    BY Zenon, <1>2 DEF EndStep
  <2>2. attemptState'[b] = s /\ s \notin Active /\ s # "Absent"
    BY Zenon, <2>1 DEF IInv, TypeOK, TerminalAttempt, Active, Executing
  <2>3. b = a
    BY Zenon, <2>1, <2>2
  <2>4. /\ attemptJob[a] \in Job /\ attemptStep[a] \in Step
        /\ stepState[attemptJob[a]][attemptStep[a]] = "Dispatching"
        /\ jobState[attemptJob[a]] # "Absent"
    <3>1. attemptJob[a] \in Job /\ attemptStep[a] \in Step
      BY Zenon DEF IInv, TypeOK
    <3>2. stepState[attemptJob[a]][attemptStep[a]] = "Dispatching"
      BY Zenon, <2>1, <2>3 DEF IInv, StepFollowsAttempt, StepOf
    <3>3. QED  BY <3>1, <3>2 DEF IInv, AbsentJobHasNoSteps
  <2>5. StepOf(s) \notin {"Absent", "Dispatching"}
    BY Zenon, <2>2 DEF StepOf
  <2>6. EndedJob(jobState[attemptJob[b]], s, OtherStepsSucceeded(b)) # "Absent"
    BY Zenon DEF EndedJob
  <2>7. \A k \in Job, n \in Step :
          stepState'[k][n] = IF k = attemptJob[a] /\ n = attemptStep[a]
                             THEN StepOf(s) ELSE stepState[k][n]
    BY Zenon, <2>1, <2>3, <2>4 DEF IInv, TypeOK
  <2>8. \A k \in Job : k # attemptJob[a] => jobState'[k] = jobState[k]
    BY Zenon, <2>1, <2>3 DEF IInv, TypeOK
  <2>9. jobState'[attemptJob[a]] # "Absent"
    BY Zenon, <2>1, <2>3, <2>4, <2>6 DEF IInv, TypeOK
  <2>10. JobRow(attemptJob[a]) \in H /\ StepRow(attemptJob[a], attemptStep[a]) \in H
    <3>1. stepState' # stepState
      BY Zenon, <2>4, <2>5, <2>7
    <3>2. QED  BY <3>1
  <2>11. \A k \in Job, n \in Step : stepState'[k][n] = "Absent" <=> stepState[k][n] = "Absent"
    BY Zenon, <2>4, <2>5, <2>7
  <2>12. /\ \A x \in Attempt : attemptState'[x] \in Active => attemptState[x] \in Active
         /\ \A x \in Attempt : attemptState[x] # "Absent" => attemptState'[x] # "Absent"
    BY Zenon, <2>2, <2>3
  <2>13. Frame(H)
    BY <2>1, <2>7, <2>8, <2>9, <2>10, <2>11, <2>12 DEF Frame
  <2>14. QED  BY <2>11, <2>13
<1>3. QED  BY <1>1, <1>2

\* apply_action_evidence, apply_cancel_ack, apply_status_report and
\* close_indeterminate.
LEMMA EvidenceCommits ==
  ASSUME TxInv, NEW c \in Call, commit_evidence(c)
  PROVE  Commits(call[c].held)
<1>1. PICK t : t = call[c]
  BY Zenon
<1>2. t.op = "evidence" /\ Good(t) /\ IInv /\ Rows(t) = t.held
  BY <1>1, DecidingCall DEF commit_evidence
<1>3. /\ t.job \in Job /\ t.step \in Step
      /\ JobRow(t.job) \in t.held /\ StepRow(t.job, t.step) \in t.held
      /\ t.seen.job = jobState[t.job]
      /\ \A k \in Step : t.seen.steps[k] = stepState[t.job][k]
  BY Zenon, <1>2, StepsAsRead
<1>4. PICK a \in Attempt : a = t.attempt
  BY Zenon, <1>2 DEF Good, Purpose, TxRecord
<1>5. /\ attemptJob[a] = t.job /\ attemptStep[a] = t.step /\ attemptState[a] # "Absent"
      /\ AttemptRow(a) \in t.held /\ t.seen.attempt = attemptState[a]
  BY Zenon, <1>2, <1>4, NoAttemptAssumption DEF Good, Purpose, Current
<1>6. SeenFacts(t) = Facts(a)
  BY <1>3, <1>5 DEF SeenFacts, Facts
<1>7. SeenOthersSucceeded(t) = OtherStepsSucceeded(a)
  BY Zenon, <1>3, <1>5 DEF SeenOthersSucceeded, OtherStepsSucceeded
<1>8. /\ \/ \E ev \in ActionEvidence :
              Persist(a, apply_action_evidence(Facts(a), ev, OtherStepsSucceeded(a)))
         \/ a \in cancelActions /\ \E ev \in CancelAckEvidence :
              Persist(a, apply_cancel_ack(Facts(a), ev))
         \/ \E ev \in StatusReportEvidence :
              Persist(a, apply_status_report(Facts(a), ev, OtherStepsSucceeded(a)))
         \/ attemptState[a] = "AwaitingReconciliation" /\ Persist(a, close_indeterminate(Facts(a)))
      /\ UNCHANGED cancelActions
  BY Zenon, <1>1, <1>4, <1>5, <1>6, <1>7 DEF commit_evidence
<1>9. \/ \E ev \in ActionEvidence : ActionEvidenceApply(a, ev)
      \/ \E ev \in CancelAckEvidence : CancelAckApply(a, ev)
      \/ \E ev \in StatusReportEvidence : StatusReportApply(a, ev)
      \/ CloseIndeterminate(a)
  BY Zenon, <1>5, <1>8
  DEF ActionEvidenceApply, CancelAckApply, StatusReportApply, CloseIndeterminate
<1>10. Next
  BY Zenon, <1>9 DEF Next
<1>11. SoftStep \/ \E b \in Attempt, s \in TerminalAttempt : EndStep(b, s)
  BY Zenon, <1>2, <1>9, DecisionSteps
<1>12. \A b \in Attempt : b # a => attemptState'[b] = attemptState[b]
  BY Zenon, <1>2, <1>8 DEF Persist, IInv, TypeOK
<1>13. /\ Frame(t.held)
       /\ \A k \in Job, n \in Step : stepState'[k][n] = "Absent" <=> stepState[k][n] = "Absent"
  BY Zenon, <1>2, <1>3, <1>5, <1>11, <1>12, DecisionFrame
<1>14. QED  BY <1>1, <1>10, <1>13 DEF Commits

\* mark_endpoint_active_attempt_uncertain.
LEMMA MarkCommits ==
  ASSUME TxInv, NEW c \in Call, commit_mark(c)
  PROVE  Commits(call[c].held)
<1>1. PICK t : t = call[c]
  BY Zenon
<1>2. t.op = "mark" /\ Good(t) /\ IInv /\ Rows(t) = t.held
  BY <1>1, DecidingCall DEF commit_mark
<1>3. PICK a \in Attempt : a = t.attempt
  BY Zenon, <1>2 DEF Good, Purpose, TxRecord
<1>4. AttemptRow(a) \in t.held /\ t.seen.attempt = attemptState[a] /\ attemptState[a] # "Absent"
  BY Zenon, <1>2, <1>3 DEF Good, Purpose, Current
<1>5. /\ attemptState[a] \in Executing
      /\ attemptState' = [attemptState EXCEPT ![a] = mark_awaiting_reconciliation(attemptState[a])]
      /\ UNCHANGED <<jobVars, attemptJob, attemptStep, cancelActions>>
  BY Zenon, <1>1, <1>3, <1>4 DEF commit_mark
<1>6. stepState[attemptJob[a]][attemptStep[a]] = "Dispatching"
  BY Zenon, <1>2, <1>4, <1>5 DEF IInv, StepFollowsAttempt, StepOf, Active
<1>7. mark_endpoint_uncertain(a)
  BY Zenon, <1>5, <1>6 DEF mark_endpoint_uncertain
<1>8. Next
  BY Zenon, <1>7 DEF Next
<1>9. SoftStep \/ \E b \in Attempt, s \in TerminalAttempt : EndStep(b, s)
  BY Zenon, <1>2, <1>7, DecisionSteps
<1>10. \A b \in Attempt : b # a => attemptState'[b] = attemptState[b]
  BY Zenon, <1>2, <1>5 DEF IInv, TypeOK
<1>11. UNCHANGED <<jobState, stepState>>
  BY Zenon, <1>5 DEF jobVars
<1>12. /\ Frame(t.held)
       /\ \A k \in Job, n \in Step : stepState'[k][n] = "Absent" <=> stepState[k][n] = "Absent"
  BY Zenon, <1>2, <1>4, <1>9, <1>10, <1>11, DecisionFrame
<1>13. QED  BY <1>1, <1>8, <1>12 DEF Commits

\* request_cancellation.
LEMMA CancelCommits ==
  ASSUME TxInv, NEW c \in Call, commit_cancel(c)
  PROVE  Commits(call[c].held)
<1>1. PICK t : t = call[c]
  BY Zenon
<1>2. t.op = "cancel" /\ t.then = "decide" /\ Good(t) /\ t.job \in Job /\ IInv /\ Rows(t) = t.held
  BY <1>1, DecidingCall DEF commit_cancel
<1>3. /\ CancelPhase(t) /\ JobRow(t.job) \in t.held
  BY Zenon, <1>2 DEF Good, CancelPhase
<1>4. /\ jobState[t.job] = "Running"
      /\ jobState' = [jobState EXCEPT
                        ![t.job] = IF t.attempt = None THEN "Cancelled" ELSE "Cancelling"]
      /\ cancelActions' = cancelActions \cup ({t.attempt} \ {None})
      /\ UNCHANGED <<jobEndpoint, stepState, intent, attemptVars>>
  BY Zenon, <1>1, <1>2, <1>3 DEF commit_cancel, Good, Current
<1>5. JobAttempts(t.job, Active) = {t.attempt} \ {None}
  <2>1. CASE t.attempt = None
    BY Zenon, <1>2, <1>3, <2>1 DEF CancelPhase, NoneActive, JobAttempts
  <2>2. CASE t.attempt # None
    <3>1. /\ t.attempt \in Attempt /\ attemptState[t.attempt] \in Active
          /\ attemptJob[t.attempt] = t.job
      BY Zenon, <1>2, <1>3, <2>2 DEF CancelPhase, Good, Current, Purpose, TxRecord
    <3>2. stepState[t.job][attemptStep[t.attempt]] = "Dispatching"
      BY Zenon, <1>2, <3>1 DEF IInv, StepFollowsAttempt, StepOf, Active, Executing
    <3>3. t.attempt \in JobAttempts(t.job, Active)
      BY Zenon, <3>1, <3>2 DEF JobAttempts
    <3>4. ASSUME NEW b \in JobAttempts(t.job, Active) PROVE b = t.attempt
      BY Zenon, <1>2, <3>1, OneActivePerJob DEF JobAttempts
    <3>5. QED  BY <2>2, <3>3, <3>4
  <2>3. QED  BY <2>1, <2>2
<1>6. request_cancellation(t.job)
  <2>1. JobAttempts(t.job, Active) = {} <=> t.attempt = None
    BY Zenon, <1>5
  <2>2. QED  BY Zenon, <1>4, <1>5, <2>1 DEF request_cancellation
<1>7. Next
  BY Zenon, <1>2, <1>6 DEF Next
<1>8. Frame(t.held)
  BY Zenon, <1>2, <1>3, <1>4 DEF Frame, attemptVars, IInv, TypeOK
<1>9. QED  BY Zenon, <1>1, <1>4, <1>7, <1>8 DEF Commits

-----------------------------------------------------------------------------
(* The remaining steps, and the theorems.                                  *)

\* A step outside the calls, on rows no call has locked.
LEMMA OutsideStep ==
  ASSUME TxInv, UNCHANGED call, Next, Contiguous', NEW H, Frame(H),
         \A c \in Call : H \cap call[c].held = {}
  PROVE  TxInv'
<1>1. IInv'
  BY Zenon, NextPreserves DEF TxInv
<1>2. call' \in [Call -> {Idle} \cup TxRecord'] /\ Exclusive'
  BY Zenon DEF TxInv, TxRecord, Seen, Row, Exclusive
<1>3. ASSUME NEW d \in Call, call[d] # Idle PROVE Good(call[d])'
  <2>1. Good(call[d]) /\ call'[d] = call[d]
    BY Zenon, <1>3 DEF TxInv
  <2> DEFINE t == call[d]
  <2>2. \A e : e = t => (Good(e) /\ H \cap e.held = {})
    BY Zenon, <1>3, <2>1
  <2>3. QED  BY <1>3, <2>1, <2>2, FrameKeepsGood
<1>4. QED  BY Zenon, <1>1, <1>2, <1>3 DEF TxInv

\* create_workflow and authorize_destructive_intent.
LEMMA SingleRowPreserves ==
  ASSUME TxInv, SingleRow, UNCHANGED call
  PROVE  TxInv' /\ Next
<1>1. IInv /\ Contiguous
  BY Zenon DEF TxInv
<1>2. ASSUME NEW j \in Job, NEW e \in Endpoint, NEW n \in Step, create_workflow(j, e, n)
      PROVE  TxInv' /\ Next
  <2>1. Next
    BY Zenon, <1>2 DEF Next
  <2>2. /\ jobState[j] = "Absent"
        /\ jobState' = [jobState EXCEPT ![j] = "Pending"]
        /\ stepState' = [stepState EXCEPT
                           ![j] = [i \in Step |-> IF i <= n THEN "Pending" ELSE "Absent"]]
        /\ UNCHANGED <<intent, attemptVars>>
    BY Zenon, <1>2 DEF create_workflow
  <2>3. Frame({})
    BY Zenon, <1>1, <2>2 DEF Frame, attemptVars, IInv, TypeOK
  <2>4. Contiguous'
    <3> SUFFICES ASSUME NEW k \in Job
                 PROVE  \E m \in 0..MaxSteps : \A i \in Step : stepState'[k][i] # "Absent" <=> i <= m
      BY Zenon DEF Contiguous
    <3>1. CASE k = j
      <4>1. n \in 0..MaxSteps
        BY MaxStepsAssumption DEF Step
      <4>2. \A i \in Step : stepState'[j][i] = IF i <= n THEN "Pending" ELSE "Absent"
        BY Zenon, <1>1, <2>2 DEF IInv, TypeOK
      <4>3. QED  BY <3>1, <4>1, <4>2
    <3>2. CASE k # j
      <4>1. stepState'[k] = stepState[k]
        BY Zenon, <1>1, <2>2, <3>2 DEF IInv, TypeOK
      <4>2. QED  BY <1>1, <4>1 DEF Contiguous
    <3>3. QED  BY <3>1, <3>2
  <2>5. QED  BY <2>1, <2>3, <2>4, OutsideStep
<1>3. ASSUME NEW j \in Job, NEW i \in Step, authorize_destructive_intent(j, i),
             \A c \in Call : StepRow(j, i) \notin call[c].held
      PROVE  TxInv' /\ Next
  <2>1. Next
    BY Zenon, <1>3 DEF Next
  <2>2. /\ intent' = [intent EXCEPT ![j][i] = TRUE]
        /\ UNCHANGED <<jobState, stepState, attemptVars>>
    BY Zenon, <1>3 DEF authorize_destructive_intent
  <2>3. \A k \in Job, n \in Step : StepRow(k, n) \notin {StepRow(j, i)} => intent'[k][n] = intent[k][n]
    BY Zenon, <1>1, <2>2, RowsDiffer DEF IInv, TypeOK
  <2>4. Frame({StepRow(j, i)})
    BY Zenon, <2>2, <2>3 DEF Frame, attemptVars
  <2>5. Contiguous'
    BY Zenon, <1>1, <2>2 DEF Contiguous
  <2>6. \A c \in Call : {StepRow(j, i)} \cap call[c].held = {}
    BY Zenon, <1>3
  <2>7. QED  BY <2>1, <2>4, <2>5, <2>6, OutsideStep
<1>4. QED  BY <1>2, <1>3 DEF SingleRow

\* A restart ends every call.
LEMMA RestartPreserves ==
  ASSUME TxInv, reconcile_all_active_attempts_on_startup
  PROVE  TxInv' /\ Next
<1>1. Next /\ reconcile_on_startup /\ call' = [c \in Call |-> Idle]
  BY Zenon DEF reconcile_all_active_attempts_on_startup, Next
<1>2. IInv'
  BY Zenon, <1>1, NextPreserves DEF TxInv
<1>3. Contiguous'
  BY Zenon, <1>1 DEF TxInv, Contiguous, reconcile_on_startup, jobVars
<1>4. Idle.held = {}
  BY Zenon DEF Idle, Start, Tx
<1>5. QED  BY <1>1, <1>2, <1>3, <1>4 DEF TxInv, Exclusive

\* Every step of the transactions keeps the invariant, and is a step of
\* JobLifecycle or none.
LEMMA TxNextPreserves == TxInv /\ [TxNext]_txVars => TxInv' /\ [Next]_vars
<1> SUFFICES ASSUME TxInv, [TxNext]_txVars PROVE TxInv' /\ [Next]_vars
  BY Zenon
<1>1. CASE SingleRow /\ UNCHANGED call
  BY Zenon, <1>1, SingleRowPreserves
<1>2. CASE reconcile_all_active_attempts_on_startup
  BY Zenon, <1>2, RestartPreserves
<1>3. ASSUME NEW c \in Call, Begin(c) PROVE TxInv' /\ UNCHANGED vars
  BY Zenon, <1>3, BeginPreserves
  DEF Begin, begin_admit, begin_cancel, begin_satisfy, begin_dispatch, begin_evidence,
     begin_mark
<1>4. ASSUME NEW c \in Call,
             \/ lock_row(c) \/ abort(c) \/ rollback(c) \/ existing_active_attempt(c)
             \/ scan(c) \/ still_active(c) \/ rescan(c)
      PROVE  TxInv' /\ UNCHANGED vars
  <2>1. UNCHANGED vars
    BY Zenon, <1>4
       DEF lock_row, abort, rollback, existing_active_attempt, scan, still_active, rescan
  <2>2. CASE abort(c) \/ rollback(c)
    BY Zenon, <2>1, <2>2, EndsUnchanged DEF abort, rollback
  <2>3. QED  BY <1>4, <2>1, <2>2, LockPreserves, ExistingAttemptPreserves, ScanPreserves,
                StillActivePreserves, RescanPreserves
<1>5. ASSUME NEW c \in Call, Become(c, Idle), Commits(call[c].held) PROVE TxInv' /\ Next
  BY Zenon, <1>5, CommitStep DEF Commits
<1>6. ASSUME NEW c \in Call,
             \/ commit_admit(c) \/ commit_satisfy(c) \/ commit_evidence(c)
             \/ commit_mark(c) \/ commit_cancel(c)
      PROVE  TxInv' /\ Next
  <2>1. Become(c, Idle)
    BY Zenon, <1>6
       DEF commit_admit, commit_satisfy, commit_evidence, commit_mark, commit_cancel
  <2>2. Commits(call[c].held)
    BY Zenon, <1>6, AdmitCommits, SatisfyCommits, EvidenceCommits, MarkCommits,
       CancelCommits
  <2>3. QED  BY <1>5, <2>1, <2>2
<1>7. ASSUME NEW c \in Call, NEW ok \in BOOLEAN,
             \/ \E a \in Attempt : decide_dispatch(c, a, ok)
             \/ \E d \in BOOLEAN : deny_dispatch(c, d, ok)
      PROVE  TxInv' /\ Next
  <2>1. Become(c, Idle)
    BY Zenon, <1>7 DEF decide_dispatch, deny_dispatch
  <2>2. Commits(call[c].held)
    BY Zenon, <1>7, DispatchCommits, DenyCommits
  <2>3. QED  BY <1>5, <2>1, <2>2
<1>8. CASE UNCHANGED txVars
  <2>1. UNCHANGED vars /\ UNCHANGED call
    BY Zenon, <1>8 DEF txVars
  <2>2. Frame({})
    BY Zenon, <2>1 DEF Frame, vars, jobVars, attemptVars
  <2>3. IInv'
    BY Zenon, <2>1, NextPreserves DEF TxInv
  <2>4. Contiguous' /\ Exclusive' /\ call' \in [Call -> {Idle} \cup TxRecord']
    BY Zenon, <2>1 DEF TxInv, Contiguous, Exclusive, vars, jobVars, TxRecord, Seen, Row
  <2>5. ASSUME NEW d \in Call, call[d] # Idle PROVE Good(call[d])'
    <3>1. Good(call[d]) /\ call'[d] = call[d] /\ {} \cap call[d].held = {}
      BY Zenon, <2>1, <2>5 DEF TxInv
    <3>2. QED  BY <2>2, <3>1, FrameKeepsGood
  <2>6. QED  BY <2>1, <2>3, <2>4, <2>5 DEF TxInv
<1>9. QED  BY <1>1, <1>2, <1>3, <1>4, <1>6, <1>7, <1>8 DEF TxNext, Proceed

\* Initially nothing exists and no call is open.
LEMMA TxInitInv == TxInit => TxInv
<1> SUFFICES ASSUME TxInit PROVE TxInv
  BY Zenon
<1>1. IInv /\ call = [c \in Call |-> Idle]
  BY Zenon, InitIInv DEF TxInit
<1>2. Contiguous
  <2>1. 0 \in 0..MaxSteps /\ \A i \in Step : ~(i <= 0)
    BY MaxStepsAssumption DEF Step
  <2>2. \A j \in Job, i \in Step : stepState[j][i] = "Absent"
    BY Zenon DEF TxInit, Init
  <2>3. QED  BY <2>1, <2>2 DEF Contiguous
<1>3. Idle.held = {}
  BY Zenon DEF Idle, Start, Tx
<1>4. QED  BY <1>1, <1>2, <1>3 DEF TxInv, Exclusive

\* A row has one holder, and what a transaction has read under its locks is
\* what the tables hold when it decides.
THEOREM TransactionInvariance == TxSpec => []TxInv
<1>1. QED  BY TxInitInv, TxNextPreserves, PTL DEF TxSpec

\* Whatever is read when, whoever waits and whoever is aborted, the
\* transactions of job_repository.rs do to the tables what JobLifecycle does
\* in one step, with any number of connections.
THEOREM TransactionsRefine == TxSpec => RefinesJobLifecycle
<1>1. TxInit => Init
  BY Zenon DEF TxInit
<1>2. QED  BY <1>1, TransactionInvariance, TxNextPreserves, PTL
           DEF TxSpec, RefinesJobLifecycle, Spec

-----------------------------------------------------------------------------
(* Server, transport and Agent.                                            *)

\* What an Agent is asked to cancel, and what it answers, was issued by
\* request_cancellation.
CancelsIssued ==
  /\ \A a \in Attempt : Msg("CancelAction", a) \in toAgent => a \in cancelActions
  /\ \A m \in toServer : m.type = "CancelAck" => m.action \in cancelActions

RInv == IInv /\ ExecTypeOK /\ CancelsIssued /\ ReservationHeld

\* No message in flight and no call to come makes the Agent start a.
NoMore(a) ==
  agent[a] # "Unknown" \/ (Msg("ActionDispatch", a) \notin toAgent /\ calls[a] = 0)

\* Before its dispatch call, nobody but the records knows of the Attempt.
Undispatched(a) ==
  /\ Msg("ActionDispatch", a) \notin toAgent
  /\ executions[a] = 0 /\ agent[a] = "Unknown"

\* The Agent's record of an action says what became of it.
AgentIsTrue(a) ==
  /\ executions[a] \in {0, 1}
  /\ executions[a] = 0 <=> performed[a] = "Nothing"
  /\ agent[a] = "Active" <=> performed[a] = "Running"
  /\ agent[a] \in {"Succeeded", "Failed", "Cancelled"} => performed[a] = agent[a]
  /\ agent[a] = "Rejected" => executions[a] = 0

Story(a) ==
  /\ AgentIsTrue(a)
  /\ calls[a] > 0 => Undispatched(a)
  /\ executions[a] # 0 => NoMore(a)
  /\ attemptState[a] = "Absent" => Undispatched(a) /\ calls[a] = 0
  /\ attemptState[a] \in {"Succeeded", "Failed", "Cancelled"} =>
       performed[a] = attemptState[a]
  /\ attemptState[a] = "Rejected" => executions[a] = 0 /\ NoMore(a)

\* The end an answer reports, "None" when it reports none.
Reports(m) ==
  IF m.type = "ActionEvidence"
  THEN IF m.outcome = "ResultSucceeded" THEN "Succeeded"
       ELSE IF m.outcome = "ResultFailed" THEN "Failed"
       ELSE IF m.outcome = "AckRejected" THEN "Rejected" ELSE "None"
  ELSE IF m.type = "CancelAck"
  THEN IF m.outcome = "Cancelled" THEN "Cancelled" ELSE "None"
  ELSE IF m.outcome \in {"Succeeded", "Failed", "Cancelled"} THEN m.outcome ELSE "None"

IsSo(a, end) ==
  /\ end \in {"Succeeded", "Failed", "Cancelled"} => performed[a] = end
  /\ end = "Rejected" => executions[a] = 0 /\ NoMore(a)

Truthful(m) ==
  attemptState[m.action] # "Absent" /\ IsSo(m.action, Reports(m))

XInv == /\ RInv
        /\ \A a \in Attempt : Story(a)
        /\ \A m \in toAgent : attemptState[m.action] # "Absent"
        /\ \A m \in toServer : Truthful(m)

-----------------------------------------------------------------------------
(* Every step is a step of JobLifecycle.                                   *)

\* A reply is applied as the evidence of its type.
LEMMA ReplyApplies ==
  ASSUME RInv, NEW m \in toServer, handle_reply(m)
  PROVE  /\ m.action \in Attempt
         /\ \/ /\ m.type = "ActionEvidence" /\ m.outcome \in ActionEvidence
               /\ ActionEvidenceApply(m.action, m.outcome)
            \/ /\ m.type = "CancelAck" /\ m.outcome \in CancelAckEvidence
               /\ CancelAckApply(m.action, m.outcome)
            \/ /\ m.type = "StatusReport" /\ m.outcome \in StatusReportEvidence
               /\ StatusReportApply(m.action, m.outcome)
<1>1. m \in ToServer
  BY Zenon DEF RInv, ExecTypeOK
<1>2. CASE m.type = "ActionEvidence"
  BY Zenon, <1>1, <1>2 DEF ToServer, handle_reply, ActionEvidenceApply
<1>3. CASE m.type = "CancelAck"
  BY Zenon, <1>1, <1>3 DEF ToServer, handle_reply, CancelAckApply, RInv, CancelsIssued
<1>4. CASE m.type = "StatusReport"
  BY Zenon, <1>1, <1>4 DEF ToServer, handle_reply, StatusReportApply
<1>5. QED  BY <1>1, <1>2, <1>3, <1>4 DEF ToServer

\* Steps of the Agent, of the transport and of the transient Server state
\* leave the records alone.
RecordsAlone ==
  \/ UNCHANGED execVars
  \/ \E c \in Caller : acquire(c)
  \/ \E a \in Attempt : \/ dispatch_message(a)
                        \/ reconcile_on_session_start(a)
                        \/ handle_dispatch(a)
                        \/ \E o \in {"Succeeded", "Failed"} : run_configured_scenario(a, o)
                        \/ \E b \in BOOLEAN : handle_cancel(a, b)
                        \/ handle_status_query(a)
  \/ \E m \in toServer : forget_reply(m)
  \/ \E e \in Endpoint : agent_restart(e)

\* They really do.
LEMMA RecordsUnchanged == ASSUME RecordsAlone PROVE UNCHANGED vars
  BY Zenon
     DEF RecordsAlone, execVars, acquire, dispatch_message, reconcile_on_session_start,
         handle_dispatch, run_configured_scenario, handle_cancel, handle_status_query,
         forget_reply, agent_restart

\* Replies, closure, lost sessions and restarts decide about Attempts.
Decision ==
  \/ \E m \in toServer : handle_reply(m)
  \/ \E a \in Attempt : close(a) \/ connection_loss(a)
  \/ server_restart

\* A decision is one of those JobLifecycle makes from evidence.
LEMMA DecisionMaps ==
  ASSUME RInv, Decision
  PROVE  \/ reconcile_on_startup
         \/ \E a \in Attempt :
              \/ \E ev \in ActionEvidence : ActionEvidenceApply(a, ev)
              \/ \E ev \in CancelAckEvidence : CancelAckApply(a, ev)
              \/ \E ev \in StatusReportEvidence : StatusReportApply(a, ev)
              \/ CloseIndeterminate(a)
              \/ mark_endpoint_uncertain(a)
  BY Zenon, ReplyApplies DEF Decision, close, connection_loss, server_restart

\* The composition takes only steps of JobLifecycle.
LEMMA StepsMap == ASSUME RInv, [ExecNext]_execVars PROVE [Next]_vars
<1>1. CASE RecordsAlone
  BY Zenon, <1>1, RecordsUnchanged
<1>2. CASE Decision
  BY Zenon, <1>2, DecisionMaps DEF Next
<1>3. CASE Schedule
  BY Zenon, <1>3 DEF Schedule, Next
<1>4. ASSUME NEW c \in Caller, reject_dispatch(c) PROVE [Next]_vars
  BY Zenon, <1>4 DEF reject_dispatch, Next
<1>5. ASSUME NEW c \in Caller, NEW j \in Job, NEW i \in Step, NEW a \in Attempt,
             NEW ok \in BOOLEAN, commit_dispatch(c, j, i, a, ok)
      PROVE  [Next]_vars
  BY Zenon, <1>5 DEF commit_dispatch, Next
<1>6. ASSUME NEW j \in Job, request(j) PROVE [Next]_vars
  BY Zenon, <1>6 DEF request, Next
<1>7. QED  BY <1>1, <1>2, <1>3, <1>4, <1>5, <1>6 DEF ExecNext, RecordsAlone, Decision

\* An Attempt changes state only from an active one, except when it is
\* created by the commit of its dispatch.
LEMMA Moves ==
  ASSUME RInv, [ExecNext]_execVars, NEW b \in Attempt, attemptState'[b] # attemptState[b]
  PROVE  \/ /\ attemptState[b] \in Active
            /\ attemptState'[b] \in Active \cup TerminalAttempt
         \/ /\ attemptState[b] = "Absent" /\ attemptState'[b] = "Dispatched"
            /\ \E c \in Caller, j \in Job, i \in Step, ok \in BOOLEAN :
                 commit_dispatch(c, j, i, b, ok)
<1> USE DEF RInv
<1>1. CASE RecordsAlone
  BY Zenon, <1>1, RecordsUnchanged DEF vars, attemptVars
<1>2. CASE Decision
  <2>1. SoftStep \/ \E a \in Attempt, s \in TerminalAttempt : EndStep(a, s)
    BY Zenon, <1>2, DecisionMaps, DecisionSteps
  <2>2. QED  BY Zenon, <2>1 DEF SoftStep, EndStep, IInv, TypeOK
<1>3. CASE Schedule
  BY Zenon, <1>3 DEF Schedule, create_workflow, admit_job, authorize_destructive_intent,
              satisfy_preliminary_preconditions, attemptVars
<1>4. ASSUME NEW c \in Caller, reject_dispatch(c) PROVE attemptState' = attemptState
  BY Zenon, <1>4 DEF reject_dispatch, deny_destructive_dispatch, deny_transfer_dispatch,
              RevertToPending, attemptVars, vars
<1>5. ASSUME NEW c \in Caller, NEW j \in Job, NEW i \in Step, NEW a \in Attempt,
             NEW ok \in BOOLEAN, commit_dispatch(c, j, i, a, ok)
      PROVE  a = b /\ attemptState[b] = "Absent" /\ attemptState'[b] = "Dispatched"
  BY Zenon, <1>5
     DEF commit_dispatch, commit_destructive_dispatch, commit_transfer_dispatch,
              CommitAttempt, IInv, TypeOK
<1>6. ASSUME NEW j \in Job, request(j) PROVE attemptState' = attemptState
  BY Zenon, <1>6 DEF request, request_cancellation, attemptVars
<1>7. QED  BY <1>1, <1>2, <1>3, <1>4, <1>5, <1>6 DEF ExecNext, RecordsAlone, Decision

-----------------------------------------------------------------------------
(* RInv.                                                                   *)

\* Nothing is reserved, sent or executed initially.
LEMMA ExecInitially == ExecInit => RInv
<1> SUFFICES ASSUME ExecInit PROVE RInv
  BY Zenon
<1>1. IInv
  BY Zenon, InitIInv DEF ExecInit
<1>2. ExecTypeOK
  BY <1>1, MaxTriggersAssumption DEF ExecInit, ExecTypeOK, IInv, LocalActionState
<1>3. CancelsIssued /\ ReservationHeld
  BY DEF ExecInit, CancelsIssued, ReservationHeld
<1>4. QED  BY <1>1, <1>2, <1>3 DEF RInv

\* The Server's decisions and transactions leave messages, calls and the
\* Agents alone, but for the messages to the Agents a cancellation adds.
LEMMA RecordsOnly ==
  ASSUME \/ Schedule
         \/ \E m \in toServer : handle_reply(m)
         \/ \E a \in Attempt : close(a) \/ connection_loss(a)
         \/ \E c \in Caller : reject_dispatch(c)
  PROVE  UNCHANGED <<calls, carried, toAgent, toServer, agentVars>>
  BY Zenon DEF Schedule, handle_reply, close, connection_loss, reject_dispatch, serverVars

\* The Agent answers with an outcome of the type of its message.
LEMMA Answers ==
  ASSUME ExecTypeOK, NEW a \in Attempt,
         \/ handle_dispatch(a)
         \/ \E o \in {"Succeeded", "Failed"} : run_configured_scenario(a, o)
         \/ \E b \in BOOLEAN : handle_cancel(a, b)
         \/ handle_status_query(a)
  PROVE  /\ UNCHANGED <<vars, serverVars, toAgent>>
         /\ \E m \in ToServer :
              /\ m.action = a /\ toServer' \subseteq toServer \cup {m}
              /\ m.type = "CancelAck" => Msg("CancelAction", a) \in toAgent
<1> USE DEF ExecTypeOK, LocalActionState, Reply
<1>1. ASSUME NEW type \in {"ActionEvidence", "CancelAck", "StatusReport"},
             NEW outcome \in (IF type = "ActionEvidence" THEN ActionEvidence
                              ELSE IF type = "CancelAck" THEN CancelAckEvidence
                              ELSE StatusReportEvidence),
             Reply(type, a, outcome),
             type = "CancelAck" => Msg("CancelAction", a) \in toAgent
      PROVE  \E m \in ToServer :
               /\ m.action = a /\ toServer' \subseteq toServer \cup {m}
               /\ m.type = "CancelAck" => Msg("CancelAction", a) \in toAgent
  <2> DEFINE m == [type |-> type, action |-> a, outcome |-> outcome]
  <2>1. m \in ToServer
    BY Zenon DEF ToServer
  <2>2. toServer' \subseteq toServer \cup {m}
    BY Zenon, <1>1
  <2>3. QED  BY <1>1, <2>1, <2>2
<1>2. CASE handle_dispatch(a)
  BY Zenon, <1>1, <1>2 DEF handle_dispatch, ActionEvidence
<1>3. CASE \E o \in {"Succeeded", "Failed"} : run_configured_scenario(a, o)
  BY Zenon, <1>1, <1>3 DEF run_configured_scenario, ActionEvidence
<1>4. CASE \E b \in BOOLEAN : handle_cancel(a, b)
  BY Zenon, <1>1, <1>4 DEF handle_cancel, CancelAckEvidence
<1>5. CASE handle_status_query(a)
  BY Zenon, <1>1, <1>5 DEF handle_status_query, StatusReportEvidence
<1>6. QED
  BY Zenon, <1>2, <1>3, <1>4, <1>5
  DEF handle_dispatch, run_configured_scenario, handle_cancel, handle_status_query

-----------------------------------------------------------------------------
(* RInv is inductive.                                                      *)

\* Every variable keeps its type.
LEMMA ExecTypesStep ==
  ASSUME RInv, IInv', [ExecNext]_execVars
  PROVE  ExecTypeOK'
<1> DEFINE Rest ==
      /\ arbiter \subseteq Caller \cup Attempt
      /\ registry \subseteq Attempt /\ carried \subseteq Attempt
      /\ calls \in [Attempt -> 0..MaxTriggers]
      /\ toAgent \subseteq ToAgent /\ toServer \subseteq ToServer
      /\ agent \in [Attempt -> LocalActionState]
      /\ performed \in [Attempt -> {"Nothing", "Running", "Succeeded", "Failed",
                                    "Cancelled", "Aborted"}]
      /\ executions \in [Attempt -> Nat]
<1>1. Rest
  BY Zenon DEF RInv, ExecTypeOK
<1> USE MaxTriggersAssumption
<1>2. ASSUME Schedule \/ UNCHANGED execVars PROVE Rest'
  BY Zenon, <1>1, <1>2 DEF Schedule, execVars, serverVars, agentVars
<1>3. ASSUME NEW c \in Caller, acquire(c) \/ reject_dispatch(c) PROVE Rest'
  BY Zenon, <1>1, <1>3 DEF acquire, reject_dispatch, agentVars
<1>4. ASSUME NEW c \in Caller, NEW j \in Job, NEW i \in Step, NEW a \in Attempt,
             NEW ok \in BOOLEAN, commit_dispatch(c, j, i, a, ok)
      PROVE  Rest'
  BY <1>1, <1>4 DEF commit_dispatch, agentVars
<1>5. ASSUME NEW a \in Attempt, dispatch_message(a) PROVE Rest'
  <2>1. calls' \in [Attempt -> 0..MaxTriggers]
    BY <1>1, <1>5 DEF dispatch_message
  <2>2. toAgent' \subseteq ToAgent
    BY <1>1, <1>5 DEF dispatch_message, Msg, ToAgent
  <2>3. QED  BY <1>1, <1>5, <2>1, <2>2 DEF dispatch_message, agentVars
<1>6. ASSUME NEW a \in Attempt, close(a) \/ connection_loss(a) PROVE Rest'
  BY Zenon, <1>1, <1>6 DEF close, connection_loss, take_and_release, serverVars, agentVars
<1>7. ASSUME NEW a \in Attempt, reconcile_on_session_start(a) PROVE Rest'
  BY <1>1, <1>7 DEF reconcile_on_session_start, Msg, ToAgent, serverVars, agentVars
<1>8. ASSUME NEW m \in toServer, handle_reply(m) PROVE Rest'
  BY Zenon, <1>1, <1>8 DEF handle_reply, take_and_release, agentVars
<1>9. ASSUME NEW m \in toServer, forget_reply(m) PROVE Rest'
  BY Zenon, <1>1, <1>9 DEF forget_reply, serverVars, agentVars
<1>10. ASSUME NEW j \in Job, request(j) PROVE Rest'
  BY <1>1, <1>10 DEF request, Msg, ToAgent, JobAttempts, serverVars, agentVars
<1>11. ASSUME server_restart PROVE Rest'
  BY <1>1, <1>11 DEF server_restart, agentVars
<1>12. ASSUME NEW a \in Attempt,
              \/ handle_dispatch(a)
              \/ \E o \in {"Succeeded", "Failed"} : run_configured_scenario(a, o)
              \/ \E b \in BOOLEAN : handle_cancel(a, b)
              \/ handle_status_query(a)
       PROVE  Rest'
  <2>1. UNCHANGED <<serverVars, toAgent>> /\ toServer' \subseteq ToServer
    BY Zenon, <1>1, <1>12, Answers DEF RInv
  <2>2. /\ agent' \in [Attempt -> LocalActionState]
        /\ performed' \in [Attempt -> {"Nothing", "Running", "Succeeded", "Failed",
                                       "Cancelled", "Aborted"}]
    BY Zenon, <1>1, <1>12 DEF handle_dispatch, run_configured_scenario, handle_cancel,
                       handle_status_query, agentVars, LocalActionState
  <2>3. executions' \in [Attempt -> Nat]
    BY <1>1, <1>12 DEF handle_dispatch, run_configured_scenario, handle_cancel,
                       handle_status_query, agentVars
  <2>4. QED  BY <1>1, <2>1, <2>2, <2>3 DEF serverVars
<1>13. ASSUME NEW e \in Endpoint, agent_restart(e) PROVE Rest'
  BY Zenon, <1>1, <1>13 DEF agent_restart, LocalActionState, serverVars
<1>14. Rest'
  <2> HIDE DEF Rest
  <2>1. QED  BY <1>2, <1>3, <1>4, <1>5, <1>6, <1>7, <1>8, <1>9, <1>10, <1>11, <1>12, <1>13 DEF ExecNext
<1>15. QED  BY <1>14 DEF ExecTypeOK, IInv

\* A CancelAction is sent for what request_cancellation recorded, and the
\* record is never withdrawn.
LEMMA CancelsIssuedStep ==
  ASSUME RInv, [ExecNext]_execVars
  PROVE  CancelsIssued'
<1>1. CancelsIssued
  BY Zenon DEF RInv
<1>2. cancelActions \subseteq cancelActions'
  BY StepsMap
  DEF Next, vars, create_workflow, admit_job, request_cancellation,
      authorize_destructive_intent, satisfy_preliminary_preconditions,
      deny_destructive_dispatch, deny_transfer_dispatch, RevertToPending,
      commit_destructive_dispatch, commit_transfer_dispatch, CommitAttempt,
      ActionEvidenceApply, CancelAckApply, StatusReportApply, CloseIndeterminate,
      mark_endpoint_uncertain, reconcile_on_startup
<1>3. ASSUME \A a \in Attempt : Msg("CancelAction", a) \in toAgent' =>
                                Msg("CancelAction", a) \in toAgent,
             toServer' \subseteq toServer
      PROVE  CancelsIssued'
  BY Zenon, <1>1, <1>2, <1>3 DEF CancelsIssued, Msg
<1>4. CASE \/ Schedule
           \/ \E m \in toServer : handle_reply(m)
           \/ \E a \in Attempt : close(a) \/ connection_loss(a)
           \/ \E c \in Caller : reject_dispatch(c)
  BY Zenon, <1>3, <1>4, RecordsOnly
<1>5. CASE \/ UNCHANGED execVars
           \/ \E c \in Caller : acquire(c)
           \/ \E c \in Caller, j \in Job, i \in Step, a \in Attempt, ok \in BOOLEAN :
                commit_dispatch(c, j, i, a, ok)
           \/ \E m \in toServer : forget_reply(m)
           \/ \E e \in Endpoint : agent_restart(e)
           \/ server_restart
  BY Zenon, <1>3, <1>5
     DEF execVars, acquire, commit_dispatch, forget_reply, agent_restart,
                    server_restart
<1>6. ASSUME NEW a \in Attempt, dispatch_message(a) \/ reconcile_on_session_start(a)
      PROVE  CancelsIssued'
  BY <1>3, <1>6 DEF dispatch_message, reconcile_on_session_start, Msg
<1>7. ASSUME NEW j \in Job, request(j) PROVE CancelsIssued'
  <2>1. \A a \in Attempt : Msg("CancelAction", a) \in toAgent' =>
          Msg("CancelAction", a) \in toAgent \/ a \in JobAttempts(j, Active)
    BY Zenon, <1>7 DEF request, Msg
  <2>2. QED  BY <1>1, <1>2, <1>7, <2>1 DEF CancelsIssued, request, request_cancellation
<1>8. ASSUME NEW a \in Attempt,
             \/ handle_dispatch(a)
             \/ \E o \in {"Succeeded", "Failed"} : run_configured_scenario(a, o)
             \/ \E b \in BOOLEAN : handle_cancel(a, b)
             \/ handle_status_query(a)
      PROVE  CancelsIssued'
  <2>1. PICK m \in ToServer :
          /\ m.action = a /\ toServer' \subseteq toServer \cup {m}
          /\ m.type = "CancelAck" => Msg("CancelAction", a) \in toAgent
    BY Zenon, <1>8, Answers DEF RInv
  <2>2. toAgent' = toAgent /\ cancelActions' = cancelActions
    BY Zenon, <1>8, Answers DEF RInv, vars
  <2>3. QED  BY <1>1, <2>1, <2>2 DEF CancelsIssued
<1>9. QED  BY <1>4, <1>5, <1>6, <1>7, <1>8 DEF ExecNext

\* The transaction that ends an Attempt is the only one that gives up its
\* reservation.
LEMMA ReservationStep ==
  ASSUME RInv, [ExecNext]_execVars
  PROVE  ReservationHeld'
<1> SUFFICES ASSUME NEW b \in Attempt, attemptState'[b] \in Active,
                    calls'[b] > 0 \/ b \in registry'
             PROVE  b \in arbiter'
  BY Zenon DEF ReservationHeld
<1>1. /\ attemptState[b] \in Active /\ (calls[b] > 0 \/ b \in registry) => b \in arbiter
      /\ b \notin Caller
  BY Zenon, CallerAssumption DEF RInv, ReservationHeld
<1>2. ASSUME NEW c \in Caller, NEW j \in Job, NEW i \in Step, NEW ok \in BOOLEAN,
             commit_dispatch(c, j, i, b, ok)
      PROVE  b \in arbiter'
  BY Zenon, <1>2 DEF commit_dispatch
<1>3. CASE ~\E c \in Caller, j \in Job, i \in Step, ok \in BOOLEAN :
              commit_dispatch(c, j, i, b, ok)
  <2>1. attemptState[b] \in Active
    BY Zenon, <1>3, Moves
  <2>2. ASSUME UNCHANGED serverVars PROVE b \in arbiter'
    BY Zenon, <1>1, <2>1, <2>2 DEF serverVars
  <2>3. ASSUME NEW a \in Attempt, take_and_release(a), calls' = calls PROVE b \in arbiter'
    <3>1. CASE a = b
      BY Zenon, <1>1, <2>1, <2>3, <3>1
         DEF take_and_release, Active, Executing, TerminalAttempt
    <3>2. CASE a # b
      BY Zenon, <1>1, <2>1, <2>3, <3>2 DEF take_and_release
    <3>3. QED  BY <3>1, <3>2
  <2>4. ASSUME NEW c \in Caller, acquire(c) \/ reject_dispatch(c) PROVE b \in arbiter'
    BY Zenon, <1>1, <2>1, <2>4 DEF acquire, reject_dispatch
  <2>5. ASSUME NEW c \in Caller, NEW j \in Job, NEW i \in Step, NEW a \in Attempt,
               NEW ok \in BOOLEAN, commit_dispatch(c, j, i, a, ok), a # b
        PROVE  b \in arbiter'
    BY Zenon, <1>1, <2>1, <2>5 DEF commit_dispatch, RInv, ExecTypeOK
  <2>6. ASSUME NEW a \in Attempt, dispatch_message(a) PROVE b \in arbiter'
    <3>1. calls'[b] > 0 => calls[b] > 0
      BY Zenon, <2>6 DEF dispatch_message, RInv, ExecTypeOK
    <3>2. b \in registry' => b \in registry \/ calls[b] > 0
      BY Zenon, <2>6 DEF dispatch_message
    <3>3. QED  BY <1>1, <2>1, <2>6, <3>1, <3>2 DEF dispatch_message
  <2>7. CASE server_restart
    BY <2>7 DEF server_restart
  <2>8. ASSUME \/ Schedule \/ UNCHANGED execVars
               \/ \E a \in Attempt : connection_loss(a) \/ reconcile_on_session_start(a)
               \/ \E m \in toServer : forget_reply(m)
               \/ \E j \in Job : request(j)
               \/ \E e \in Endpoint : agent_restart(e)
        PROVE  UNCHANGED serverVars
    BY Zenon, <2>8 DEF Schedule, execVars, connection_loss, reconcile_on_session_start,
                forget_reply, request, agent_restart
  <2>9. ASSUME NEW a \in Attempt,
               \/ handle_dispatch(a)
               \/ \E o \in {"Succeeded", "Failed"} : run_configured_scenario(a, o)
               \/ \E x \in BOOLEAN : handle_cancel(a, x)
               \/ handle_status_query(a)
        PROVE  UNCHANGED serverVars
    BY Zenon, <2>9, Answers DEF RInv
  <2>10. ASSUME NEW a \in Attempt, close(a) PROVE b \in arbiter'
    BY Zenon, <2>3, <2>10 DEF close
  <2>11. ASSUME NEW m \in toServer, handle_reply(m) PROVE b \in arbiter'
    BY Zenon, <2>3, <2>11, ReplyApplies DEF handle_reply
  <2>12. QED
    BY Zenon, <1>3, <2>2, <2>4, <2>5, <2>6, <2>7, <2>8, <2>9, <2>10, <2>11 DEF ExecNext
<1>4. QED  BY <1>2, <1>3

\* Every step preserves RInv.
LEMMA ExecStep == RInv /\ [ExecNext]_execVars => RInv'
<1> SUFFICES ASSUME RInv, [ExecNext]_execVars PROVE RInv'
  BY Zenon
<1>1. IInv'
  BY Zenon, StepsMap, NextPreserves DEF RInv
<1>2. QED  BY <1>1, ExecTypesStep, CancelsIssuedStep, ReservationStep DEF RInv

\* RInv holds in every reachable state.
THEOREM ExecInvariance == ExecSpec => []RInv
  BY ExecInitially, ExecStep, PTL DEF ExecSpec

\* The transient state of Server, transport and Agents is well typed.
THEOREM ExecTypeCorrect == ExecSpec => []ExecTypeOK
<1>1. RInv => ExecTypeOK
  BY Zenon DEF RInv
<1>2. QED  BY <1>1, ExecInvariance, PTL

\* The unit a committed dispatch reserved is not released while its Attempt
\* is active, whatever evidence, closure and repeated calls interleave.
THEOREM ReservationsAreHeld == ExecSpec => []ReservationHeld
<1>1. RInv => ReservationHeld
  BY Zenon DEF RInv
<1>2. QED  BY <1>1, ExecInvariance, PTL

\* Dispatch calls, messages and Agents only ever change the durable records
\* as JobLifecycle allows.
THEOREM ExecRefines == ExecSpec => ExecRefinesJobLifecycle
<1>1. ExecInit => Init
  BY Zenon DEF ExecInit
<1>2. RInv /\ [ExecNext]_execVars => [Next]_vars
  BY Zenon, StepsMap
<1>3. QED  BY <1>1, <1>2, ExecInvariance, PTL DEF ExecSpec, ExecRefinesJobLifecycle, Spec

-----------------------------------------------------------------------------
(* XInv: one dispatch call for each committed Attempt.                     *)

\* What the Agent does, and does with an answer.
AgentStep(a) ==
  \/ handle_dispatch(a)
  \/ \E o \in {"Succeeded", "Failed"} : run_configured_scenario(a, o)
  \/ \E b \in BOOLEAN : handle_cancel(a, b)
  \/ handle_status_query(a)

\* No step but these changes what the Agent has done, what it will still be
\* told to start, or which calls are to come.
Aloof ==
  /\ UNCHANGED <<calls, agentVars>>
  /\ \A b \in Attempt : Msg("ActionDispatch", b) \in toAgent' =>
                        Msg("ActionDispatch", b) \in toAgent
  /\ toServer' \subseteq toServer

\* The steps of the composition, by what they do to an Attempt's story.
LEMMA StepKinds ==
  ASSUME RInv, [ExecNext]_execVars
  PROVE  \/ Aloof
         \/ \E c \in Caller, j \in Job, i \in Step, a \in Attempt, ok \in BOOLEAN :
              commit_dispatch(c, j, i, a, ok)
         \/ \E a \in Attempt : dispatch_message(a) \/ AgentStep(a)
         \/ server_restart
         \/ \E e \in Endpoint : agent_restart(e)
<1>1. CASE \/ Schedule
           \/ \E m \in toServer : handle_reply(m)
           \/ \E a \in Attempt : close(a) \/ connection_loss(a)
           \/ \E c \in Caller : reject_dispatch(c)
  BY Zenon, <1>1, RecordsOnly DEF Aloof
<1>2. CASE \/ UNCHANGED execVars
           \/ \E c \in Caller : acquire(c)
           \/ \E m \in toServer : forget_reply(m)
  BY Zenon, <1>2 DEF execVars, acquire, forget_reply, serverVars, Aloof
<1>3. ASSUME NEW a \in Attempt, reconcile_on_session_start(a) PROVE Aloof
  BY Zenon, <1>3 DEF reconcile_on_session_start, Msg, serverVars, Aloof
<1>4. ASSUME NEW j \in Job, request(j) PROVE Aloof
  BY Zenon, <1>4 DEF request, Msg, serverVars, Aloof
<1>5. QED  BY <1>1, <1>2, <1>3, <1>4 DEF ExecNext, AgentStep

\* What is settled about an Attempt stays so.
Stays(b) ==
  /\ NoMore(b) => NoMore(b)' /\ executions'[b] = executions[b]
  /\ performed[b] \in {"Succeeded", "Failed", "Cancelled"} => performed'[b] = performed[b]

\* The Agent settles an action once.
LEMMA AgentStays ==
  ASSUME XInv, NEW a \in Attempt, AgentStep(a), NEW b \in Attempt
  PROVE  Stays(b)
<1>1. UNCHANGED <<serverVars, toAgent>>
  BY Zenon, Answers DEF AgentStep, XInv, RInv
<1>2. ExecTypeOK /\ AgentIsTrue(a) /\ (executions[a] # 0 => NoMore(a))
  BY Zenon DEF XInv, RInv, Story
<1>3. /\ agent[b] # "Unknown" => agent'[b] # "Unknown"
      /\ performed[b] \in {"Succeeded", "Failed", "Cancelled"} => performed'[b] = performed[b]
  <2>1. CASE handle_dispatch(a)
    BY Zenon, <1>2, <2>1 DEF handle_dispatch, ExecTypeOK, AgentIsTrue, NoMore, agentVars
  <2>2. CASE \E o \in {"Succeeded", "Failed"} : run_configured_scenario(a, o)
    BY Zenon, <1>2, <2>2 DEF run_configured_scenario, ExecTypeOK, AgentIsTrue
  <2>3. CASE \E x \in BOOLEAN : handle_cancel(a, x)
    BY Zenon, <1>2, <2>3 DEF handle_cancel, ExecTypeOK, AgentIsTrue
  <2>4. CASE handle_status_query(a)
    BY Zenon, <2>4 DEF handle_status_query, agentVars
  <2>5. QED  BY <2>1, <2>2, <2>3, <2>4 DEF AgentStep
<1>4. NoMore(b) => executions'[b] = executions[b]
  BY Zenon, <1>2 DEF AgentStep, handle_dispatch, run_configured_scenario, handle_cancel,
              handle_status_query, ExecTypeOK, NoMore, agentVars
<1>5. NoMore(b) => NoMore(b)'
  BY Zenon, <1>1, <1>3 DEF NoMore, serverVars
<1>6. QED  BY <1>3, <1>4, <1>5 DEF Stays

\* Restarts and calls do not unsettle it either.
LEMMA SettledStays ==
  ASSUME XInv, MaxTriggers = 1, [ExecNext]_execVars,
         NEW b \in Attempt, attemptState[b] # "Absent"
  PROVE  Stays(b)
<1>1. Story(b) /\ ExecTypeOK
  BY Zenon DEF XInv, RInv
<1>2. CASE Aloof
  BY Zenon, <1>2 DEF Aloof, Stays, NoMore, agentVars
<1>3. ASSUME NEW c \in Caller, NEW j \in Job, NEW i \in Step, NEW a \in Attempt,
             NEW ok \in BOOLEAN, commit_dispatch(c, j, i, a, ok)
      PROVE  Stays(b)
  <2>1. a # b
    BY Zenon, <1>3
       DEF commit_dispatch, commit_destructive_dispatch, commit_transfer_dispatch,
                CommitAttempt
  <2>2. calls'[b] = calls[b] /\ UNCHANGED <<toAgent, agentVars>>
    BY Zenon, <1>1, <1>3, <2>1 DEF commit_dispatch, ExecTypeOK
  <2>3. QED  BY <2>2 DEF Stays, NoMore, agentVars
<1>4. ASSUME NEW a \in Attempt, dispatch_message(a) PROVE Stays(b)
  <2>1. UNCHANGED agentVars
    BY Zenon, <1>4 DEF dispatch_message
  <2>2. CASE a = b
    <3>1. agent[b] = "Unknown" /\ calls[b] # 0
      BY <1>1, <1>4, <2>2 DEF dispatch_message, Story, Undispatched
    <3>2. ~NoMore(b)
      BY Zenon, <3>1 DEF NoMore
    <3>3. QED  BY <2>1, <3>2 DEF Stays, agentVars
  <2>3. CASE a # b
    <3>1. /\ calls'[b] = calls[b]
          /\ Msg("ActionDispatch", b) \in toAgent' => Msg("ActionDispatch", b) \in toAgent
      BY <1>1, <1>4, <2>3 DEF dispatch_message, Msg, ExecTypeOK
    <3>2. QED  BY <2>1, <3>1 DEF Stays, NoMore, agentVars
  <2>4. QED  BY <2>2, <2>3
<1>5. CASE server_restart
  BY Zenon, <1>5 DEF server_restart, Stays, NoMore, agentVars
<1>6. ASSUME NEW e \in Endpoint, agent_restart(e) PROVE Stays(b)
  <2>1. UNCHANGED <<calls, executions>>
    BY Zenon, <1>6 DEF agent_restart, serverVars
  <2>2. performed[b] \in {"Succeeded", "Failed", "Cancelled"} => performed'[b] = performed[b]
    BY Zenon, <1>6 DEF agent_restart
  <2>3. \/ agent'[b] = agent[b]
        \/ Msg("ActionDispatch", b) \notin toAgent'
    BY Zenon, <1>6 DEF agent_restart, Msg
  <2>4. Msg("ActionDispatch", b) \in toAgent' => Msg("ActionDispatch", b) \in toAgent
    BY Zenon, <1>6 DEF agent_restart
  <2>5. NoMore(b) => calls[b] = 0 \/ ~(calls[b] > 0)
    BY Zenon, <1>1 DEF Story, Undispatched, NoMore
  <2>6. calls[b] \in Nat
    BY <1>1, MaxTriggersAssumption DEF ExecTypeOK
  <2>7. NoMore(b) => calls[b] = 0
    BY <2>5, <2>6
  <2>8. NoMore(b) => NoMore(b)'
    BY Zenon, <2>1, <2>3, <2>4, <2>7 DEF NoMore
  <2>9. QED  BY <2>1, <2>2, <2>8 DEF Stays
<1>7. QED  BY Zenon, <1>2, <1>3, <1>4, <1>5, <1>6, StepKinds, AgentStays DEF XInv

\* So what has been reported stays true.
LEMMA ReportStays ==
  ASSUME XInv, MaxTriggers = 1, [ExecNext]_execVars,
         NEW b \in Attempt, attemptState[b] # "Absent", NEW end, IsSo(b, end)
  PROVE  IsSo(b, end)'
  BY Zenon, SettledStays DEF IsSo, Stays

\* An Attempt that ends, but for one given up, ends as some answer reported.
LEMMA EndsAsReported ==
  ASSUME RInv, [ExecNext]_execVars, NEW b \in Attempt,
         attemptState'[b] # attemptState[b],
         attemptState'[b] \in {"Succeeded", "Failed", "Cancelled", "Rejected"}
  PROVE  \E m \in toServer : m.action = b /\ Reports(m) = attemptState'[b]
<1> USE DEF RInv
<1>1. attemptState \in [Attempt -> AttemptState \cup {"Absent"}]
  BY Zenon DEF IInv, TypeOK
<1>2. ASSUME NEW a \in Attempt, NEW g, Persist(a, g), g.attempt = attemptState[a]
      PROVE  FALSE
  BY Zenon, <1>1, <1>2 DEF Persist
<1>3. ASSUME NEW m \in toServer, handle_reply(m)
      PROVE  m.action = b /\ Reports(m) = attemptState'[b]
  <2> DEFINE f == Facts(m.action)
  <2>1. f.attempt = attemptState[m.action]
    BY Zenon DEF Facts
  <2>2. ASSUME NEW g, Persist(m.action, g)
        PROVE  m.action = b /\ attemptState'[b] = g.attempt
    BY Zenon, <1>1, <1>3, <2>2, ReplyApplies DEF Persist
  <2>3. CASE m.type = "ActionEvidence"
    <3>1. Persist(m.action, apply_action_evidence(f, m.outcome, OtherStepsSucceeded(m.action)))
      BY Zenon, <1>3, <2>3, ReplyApplies DEF ActionEvidenceApply
    <3>2. QED
      BY <2>1, <2>2, <2>3, <3>1
      DEF apply_action_evidence, terminal_success, terminal_failure, with_attempt, Reports
  <2>4. CASE m.type = "CancelAck"
    <3>1. Persist(m.action, apply_cancel_ack(f, m.outcome))
      BY Zenon, <1>3, <2>4, ReplyApplies DEF CancelAckApply
    <3>2. QED
      BY <2>1, <2>2, <2>4, <3>1
      DEF apply_cancel_ack, cancel_terminal, complete_cancellation_now, with_attempt,
         Reports
  <2>5. CASE m.type = "StatusReport"
    <3>1. Persist(m.action, apply_status_report(f, m.outcome, OtherStepsSucceeded(m.action)))
      BY Zenon, <1>3, <2>5, ReplyApplies DEF StatusReportApply
    <3>2. QED
      BY <2>1, <2>2, <2>5, <3>1
      DEF apply_status_report, terminal_success, terminal_failure, cancel_terminal,
          with_attempt, Reports
  <2>6. QED  BY <1>3, <2>3, <2>4, <2>5, ReplyApplies
<1>4. ASSUME NEW a \in Attempt, close(a) PROVE FALSE
  <2>1. /\ attemptState[a] = "AwaitingReconciliation"
        /\ attemptState' = [attemptState EXCEPT ![a] = close_indeterminate(Facts(a)).attempt]
    BY Zenon, <1>4 DEF close, CloseIndeterminate, Persist
  <2>2. close_indeterminate(Facts(a)).attempt = "Indeterminate"
    BY Zenon, <2>1 DEF close_indeterminate, terminal_failure, Facts
  <2>3. QED  BY <1>1, <2>1, <2>2
<1>5. ASSUME NEW a \in Attempt, connection_loss(a) PROVE FALSE
  BY Zenon, <1>1, <1>5
     DEF connection_loss, mark_endpoint_uncertain, mark_awaiting_reconciliation
<1>6. ASSUME server_restart PROVE FALSE
  BY Zenon, <1>1, <1>6
     DEF server_restart, reconcile_on_startup, mark_awaiting_reconciliation
<1>7. ASSUME RecordsAlone PROVE FALSE
  BY Zenon, <1>7, RecordsUnchanged DEF vars, attemptVars
<1>8. ASSUME Schedule PROVE FALSE
  BY Zenon, <1>8 DEF Schedule, create_workflow, admit_job, authorize_destructive_intent,
              satisfy_preliminary_preconditions, attemptVars
<1>9. ASSUME NEW c \in Caller, reject_dispatch(c) PROVE FALSE
  BY Zenon, <1>9 DEF reject_dispatch, deny_destructive_dispatch, deny_transfer_dispatch,
              RevertToPending, attemptVars, vars
<1>10. ASSUME NEW c \in Caller, NEW j \in Job, NEW i \in Step, NEW a \in Attempt,
              NEW ok \in BOOLEAN, commit_dispatch(c, j, i, a, ok)
       PROVE  FALSE
  BY Zenon, <1>1, <1>10 DEF commit_dispatch, commit_destructive_dispatch,
                     commit_transfer_dispatch, CommitAttempt
<1>11. ASSUME NEW j \in Job, request(j) PROVE FALSE
  BY Zenon, <1>11 DEF request, request_cancellation, attemptVars
<1>12. QED
  BY Zenon, <1>3, <1>4, <1>5, <1>6, <1>7, <1>8, <1>9, <1>10, <1>11
     DEF ExecNext, RecordsAlone

\* The recorded outcome stays, or becomes, what an answer truly reported.
LEMMA OutcomeStep ==
  ASSUME XInv, MaxTriggers = 1, [ExecNext]_execVars, NEW b \in Attempt
  PROVE  /\ attemptState'[b] \in {"Succeeded", "Failed", "Cancelled"} =>
              performed'[b] = attemptState'[b]
         /\ attemptState'[b] = "Rejected" => executions'[b] = 0 /\ NoMore(b)'
<1> SUFFICES ASSUME attemptState'[b] \in {"Succeeded", "Failed", "Cancelled", "Rejected"}
             PROVE  IsSo(b, attemptState[b])'
  BY Zenon DEF IsSo
<1>1. CASE attemptState'[b] = attemptState[b]
  <2>1. IsSo(b, attemptState[b]) /\ attemptState[b] # "Absent"
    BY Zenon, <1>1 DEF XInv, Story, IsSo
  <2>2. ASSUME NEW end, end = attemptState[b] PROVE IsSo(b, end)'
    BY Zenon, <2>1, <2>2, ReportStays
  <2>3. QED  BY <1>1, <2>2
<1>2. CASE attemptState'[b] # attemptState[b]
  <2>1. PICK m \in toServer : m.action = b /\ Reports(m) = attemptState'[b]
    BY Zenon, <1>2, EndsAsReported DEF XInv
  <2>2. attemptState[b] # "Absent" /\ IsSo(b, Reports(m))
    BY Zenon, <2>1 DEF XInv, Truthful
  <2>3. IsSo(b, Reports(m))'
    BY Zenon, <2>2, ReportStays
  <2>4. QED  BY <2>1, <2>3 DEF IsSo
<1>3. QED  BY <1>1, <1>2

\* What the Agent records of an action goes on saying what became of it.
LEMMA AgentIsTrueStep ==
  ASSUME XInv, [ExecNext]_execVars, NEW b \in Attempt
  PROVE  AgentIsTrue(b)'
<1>1. Story(b) /\ AgentIsTrue(b) /\ ExecTypeOK
  BY Zenon DEF XInv, RInv, Story
<1>2. ASSUME UNCHANGED agentVars PROVE AgentIsTrue(b)'
  BY Zenon, <1>1, <1>2 DEF AgentIsTrue, agentVars
<1>3. ASSUME NEW a \in Attempt, AgentStep(a) PROVE AgentIsTrue(b)'
  <2>1. CASE handle_dispatch(a)
    <3>1. CASE agent'[b] = agent[b]
      <4>1. UNCHANGED <<agent[b], performed[b], executions[b]>>
        BY ZenonT(40), <1>1, <2>1, <3>1 DEF handle_dispatch, ExecTypeOK, agentVars
      <4>2. QED  BY <1>1, <4>1 DEF AgentIsTrue
    <3>2. CASE agent'[b] # agent[b]
      <4>1. a = b /\ agent[b] = "Unknown" /\ Msg("ActionDispatch", b) \in toAgent
        BY Zenon, <1>1, <2>1, <3>2 DEF handle_dispatch, ExecTypeOK, agentVars
      <4>2. executions[b] = 0
        BY Zenon, <1>1, <4>1 DEF Story, NoMore
      <4>3. \/ agent'[b] = "Active" /\ performed'[b] = "Running" /\ executions'[b] = 1
            \/ agent'[b] = "Rejected" /\ UNCHANGED <<performed, executions>>
        BY <1>1, <2>1, <4>1, <4>2 DEF handle_dispatch, ExecTypeOK, agentVars
      <4>4. QED  BY <1>1, <4>1, <4>2, <4>3 DEF AgentIsTrue
    <3>3. QED  BY <3>1, <3>2
  <2>2. CASE \E o \in {"Succeeded", "Failed"} : run_configured_scenario(a, o)
    BY Zenon, <1>1, <2>2 DEF run_configured_scenario, ExecTypeOK, AgentIsTrue
  <2>3. CASE \E x \in BOOLEAN : handle_cancel(a, x)
    BY Zenon, <1>1, <2>3 DEF handle_cancel, ExecTypeOK, AgentIsTrue
  <2>4. CASE handle_status_query(a)
    BY Zenon, <1>2, <2>4 DEF handle_status_query
  <2>5. QED  BY <1>3, <2>1, <2>2, <2>3, <2>4 DEF AgentStep
<1>4. ASSUME NEW e \in Endpoint, agent_restart(e) PROVE AgentIsTrue(b)'
  <2>1. /\ agent'[b] \in {agent[b], "Unknown"}
        /\ executions' = executions
        /\ \/ agent'[b] = agent[b] /\ performed'[b] = performed[b]
           \/ /\ agent'[b] = "Unknown"
              /\ performed'[b] = IF performed[b] = "Running" THEN "Aborted" ELSE performed[b]
    BY Zenon, <1>4 DEF agent_restart
  <2>2. QED  BY <1>1, <2>1 DEF AgentIsTrue
<1>5. QED
  BY Zenon, <1>2, <1>3, <1>4, StepKinds
  DEF XInv, Aloof, commit_dispatch, dispatch_message, server_restart

\* An Attempt is dispatched by its one call, and started by that dispatch.
LEMMA DispatchStep ==
  ASSUME XInv, MaxTriggers = 1, [ExecNext]_execVars, NEW b \in Attempt
  PROVE  /\ calls'[b] > 0 => Undispatched(b)'
         /\ executions'[b] # 0 => NoMore(b)'
         /\ attemptState'[b] = "Absent" => Undispatched(b)' /\ calls'[b] = 0
<1>1. Story(b) /\ ExecTypeOK /\ RInv
  BY Zenon DEF XInv, RInv
<1>2. attemptState'[b] = "Absent" => attemptState[b] = "Absent"
  BY Zenon, <1>1, Moves DEF Active, Executing, TerminalAttempt
<1> DEFINE Goal == /\ calls'[b] > 0 => Undispatched(b)'
                   /\ executions'[b] # 0 => NoMore(b)'
                   /\ attemptState'[b] = "Absent" => Undispatched(b)' /\ calls'[b] = 0
<1>3. ASSUME calls'[b] = calls[b], UNCHANGED agentVars,
             Msg("ActionDispatch", b) \in toAgent' => Msg("ActionDispatch", b) \in toAgent
      PROVE  Goal
  BY Zenon, <1>1, <1>2, <1>3 DEF Story, Undispatched, NoMore, agentVars
<1>4. ASSUME Aloof PROVE Goal
  BY Zenon, <1>3, <1>4 DEF Aloof
<1>5. ASSUME NEW c \in Caller, NEW j \in Job, NEW i \in Step, NEW a \in Attempt,
             NEW ok \in BOOLEAN, commit_dispatch(c, j, i, a, ok)
      PROVE  Goal
  <2>1. UNCHANGED <<toAgent, agentVars>>
    BY Zenon, <1>5 DEF commit_dispatch
  <2>2. CASE a = b
    <3>1. attemptState[b] = "Absent" /\ attemptState'[b] = "Dispatched"
      BY Zenon, <1>1, <1>5, <2>2
      DEF commit_dispatch, commit_destructive_dispatch, commit_transfer_dispatch,
          CommitAttempt, ExecTypeOK, TypeOK
    <3>2. Undispatched(b)' /\ executions'[b] = 0
      BY Zenon, <1>1, <2>1, <3>1 DEF Story, Undispatched, agentVars
    <3>3. QED  BY <3>1, <3>2
  <2>3. CASE a # b
    <3>1. calls'[b] = calls[b]
      BY Zenon, <1>1, <1>5, <2>3 DEF commit_dispatch, ExecTypeOK
    <3>2. QED  BY <1>3, <2>1, <3>1
  <2>4. QED  BY <2>2, <2>3
<1>6. ASSUME NEW a \in Attempt, dispatch_message(a) PROVE Goal
  <2>1. UNCHANGED agentVars
    BY Zenon, <1>6 DEF dispatch_message
  <2>2. CASE a = b
    <3>1. calls[b] > 0 /\ calls'[b] = calls[b] - 1 /\ calls[b] \in 0..MaxTriggers
      BY Zenon, <1>1, <1>6, <2>2 DEF dispatch_message, ExecTypeOK
    <3>2. calls'[b] = 0
      BY <3>1
    <3>3. executions'[b] = 0 /\ attemptState'[b] # "Absent"
      <4>1. Undispatched(b)
        BY Zenon, <1>1, <3>1 DEF Story
      <4>2. attemptState[b] # "Absent"
        BY <1>1, <3>1 DEF Story
      <4>3. QED  BY <1>2, <2>1, <4>1, <4>2 DEF Undispatched, agentVars
    <3>4. QED  BY <3>2, <3>3
  <2>3. CASE a # b
    <3>1. /\ calls'[b] = calls[b]
          /\ Msg("ActionDispatch", b) \in toAgent' => Msg("ActionDispatch", b) \in toAgent
      BY <1>1, <1>6, <2>3 DEF dispatch_message, Msg, ExecTypeOK
    <3>2. QED  BY <1>3, <2>1, <3>1
  <2>4. QED  BY <2>2, <2>3
<1>7. ASSUME server_restart PROVE Goal
  <2>1. calls'[b] = 0 /\ toAgent' = {} /\ UNCHANGED agentVars
    BY Zenon, <1>7 DEF server_restart
  <2>2. ~(calls'[b] > 0) /\ NoMore(b)'
    BY <2>1 DEF NoMore
  <2>3. attemptState'[b] = "Absent" => Undispatched(b)'
    BY Zenon, <1>1, <1>2, <2>1 DEF Story, Undispatched, agentVars
  <2>4. QED  BY <2>1, <2>2, <2>3
<1>8. ASSUME NEW e \in Endpoint, agent_restart(e) PROVE Goal
  <2>1. /\ UNCHANGED <<calls, executions, attemptState>>
        /\ agent'[b] \in {agent[b], "Unknown"}
        /\ Msg("ActionDispatch", b) \in toAgent' => Msg("ActionDispatch", b) \in toAgent
    BY Zenon, <1>8 DEF agent_restart, serverVars, vars, attemptVars
  <2>2. executions'[b] # 0 => NoMore(b)'
    <3>1. executions[b] # 0 => NoMore(b) /\ attemptState[b] # "Absent"
      BY Zenon, <1>1 DEF Story, Undispatched
    <3>2. attemptState[b] # "Absent" => Stays(b)
      BY Zenon, SettledStays
    <3>3. QED  BY <2>1, <3>1, <3>2 DEF Stays
  <2>3. Undispatched(b) => Undispatched(b)'
    BY Zenon, <2>1 DEF Undispatched
  <2>4. QED  BY <1>1, <2>1, <2>2, <2>3 DEF Story
<1>9. ASSUME NEW a \in Attempt, AgentStep(a) PROVE Goal
  <2>1. UNCHANGED <<calls, toAgent, attemptState>>
    BY Zenon, <1>1, <1>9, Answers DEF AgentStep, serverVars, vars, attemptVars
  <2>2. CASE agent'[b] = agent[b] /\ executions'[b] = executions[b]
    BY Zenon, <1>1, <2>1, <2>2 DEF Story, Undispatched, NoMore
  <2>3. CASE agent'[b] # agent[b] \/ executions'[b] # executions[b]
    <3>1. a = b /\ agent'[b] # "Unknown"
          /\ (agent[b] # "Unknown" \/ Msg("ActionDispatch", b) \in toAgent)
      BY Zenon, <1>1, <1>9, <2>3
      DEF AgentStep, handle_dispatch, run_configured_scenario, handle_cancel,
          handle_status_query, agentVars, ExecTypeOK
    <3>2. ~(calls[b] > 0) /\ attemptState[b] # "Absent"
      BY Zenon, <1>1, <3>1 DEF Story, Undispatched
    <3>3. QED  BY <2>1, <3>1, <3>2 DEF NoMore
  <2>4. QED  BY <2>2, <2>3
<1>10. QED
  <2> HIDE DEF Goal
  <2>1. Goal
    BY Zenon, <1>1, <1>4, <1>5, <1>6, <1>7, <1>8, <1>9, StepKinds
  <2>2. QED  BY <2>1 DEF Goal

-----------------------------------------------------------------------------
(* What is in flight.                                                      *)

\* The Agent answers what is so.
LEMMA AnswersAreTrue ==
  ASSUME XInv, NEW a \in Attempt, AgentStep(a), Stays(a)
  PROVE  \E m \in ToServer :
           /\ m.action = a /\ toServer' \subseteq toServer \cup {m}
           /\ IsSo(a, Reports(m))'
<1>1. Story(a) /\ AgentIsTrue(a) /\ ExecTypeOK
  BY Zenon DEF XInv, RInv, Story
<1>2. UNCHANGED <<serverVars, toAgent>>
  BY Zenon, <1>1, Answers DEF AgentStep
<1>3. ASSUME NEW type \in {"ActionEvidence", "CancelAck", "StatusReport"},
             NEW outcome \in (IF type = "ActionEvidence" THEN ActionEvidence
                              ELSE IF type = "CancelAck" THEN CancelAckEvidence
                              ELSE StatusReportEvidence),
             Reply(type, a, outcome),
             IsSo(a, Reports([type |-> type, action |-> a, outcome |-> outcome]))'
      PROVE  \E m \in ToServer :
               /\ m.action = a /\ toServer' \subseteq toServer \cup {m}
               /\ IsSo(a, Reports(m))'
  <2> DEFINE m == [type |-> type, action |-> a, outcome |-> outcome]
  <2>1. m \in ToServer
    BY Zenon DEF ToServer
  <2>2. toServer' \subseteq toServer \cup {m}
    BY Zenon, <1>3 DEF Reply
  <2>3. QED  BY <1>3, <2>1, <2>2
<1>4. CASE handle_dispatch(a)
  <2>1. PICK outcome \in ActionEvidence :
          /\ Reply("ActionEvidence", a, outcome)
          /\ outcome = "AckRejected" => executions'[a] = 0 /\ agent'[a] = "Rejected"
          /\ outcome = "ResultSucceeded" => performed'[a] = "Succeeded"
          /\ outcome = "ResultFailed" => performed'[a] = "Failed"
    <3>1. CASE agent[a] = "Unknown"
      <4>1. executions[a] = 0
        BY Zenon, <1>1, <1>4, <3>1 DEF handle_dispatch, Story, NoMore
      <4>2. QED
        BY Zenon, <1>1, <1>4, <3>1, <4>1 DEF handle_dispatch, ActionEvidence, ExecTypeOK
    <3>2. CASE agent[a] # "Unknown"
      BY Zenon, <1>1, <1>4, <3>2
      DEF handle_dispatch, ActionEvidence, ExecTypeOK, LocalActionState, AgentIsTrue,
         agentVars
    <3>3. QED  BY <3>1, <3>2
  <2>2. IsSo(a, Reports([type |-> "ActionEvidence", action |-> a, outcome |-> outcome]))'
    BY Zenon, <2>1 DEF IsSo, Reports, NoMore
  <2>3. QED  BY Zenon, <1>3, <2>1, <2>2
<1>5. ASSUME NEW o \in {"Succeeded", "Failed"}, run_configured_scenario(a, o)
      PROVE  \E m \in ToServer :
               /\ m.action = a /\ toServer' \subseteq toServer \cup {m}
               /\ IsSo(a, Reports(m))'
  <2> DEFINE outcome == IF o = "Succeeded" THEN "ResultSucceeded" ELSE "ResultFailed"
  <2>1. Reply("ActionEvidence", a, outcome) /\ outcome \in ActionEvidence
    BY Zenon, <1>5 DEF run_configured_scenario, ActionEvidence
  <2>2. performed'[a] = o
    BY Zenon, <1>1, <1>5 DEF run_configured_scenario, ExecTypeOK
  <2>3. IsSo(a, Reports([type |-> "ActionEvidence", action |-> a, outcome |-> outcome]))'
    BY Zenon, <2>2 DEF IsSo, Reports
  <2>4. QED  BY Zenon, <1>3, <2>1, <2>3
<1>6. ASSUME NEW x \in BOOLEAN, handle_cancel(a, x)
      PROVE  \E m \in ToServer :
               /\ m.action = a /\ toServer' \subseteq toServer \cup {m}
               /\ IsSo(a, Reports(m))'
  <2>1. PICK outcome \in CancelAckEvidence :
          /\ Reply("CancelAck", a, outcome)
          /\ outcome = "Cancelled" => performed'[a] = "Cancelled"
    BY Zenon, <1>1, <1>6 DEF handle_cancel, CancelAckEvidence, ExecTypeOK, AgentIsTrue
  <2>2. IsSo(a, Reports([type |-> "CancelAck", action |-> a, outcome |-> outcome]))'
    BY Zenon, <2>1 DEF IsSo, Reports
  <2>3. QED  BY Zenon, <1>3, <2>1, <2>2
<1>7. CASE handle_status_query(a)
  <2>1. PICK outcome \in StatusReportEvidence :
          /\ Reply("StatusReport", a, outcome)
          /\ outcome \in {"Succeeded", "Failed", "Cancelled"} => performed'[a] = outcome
    BY Zenon, <1>1, <1>7 DEF handle_status_query, StatusReportEvidence, ExecTypeOK,
                      LocalActionState, AgentIsTrue, agentVars
  <2>2. IsSo(a, Reports([type |-> "StatusReport", action |-> a, outcome |-> outcome]))'
    BY Zenon, <2>1 DEF IsSo, Reports
  <2>3. QED  BY <1>3, <2>1, <2>2
<1>8. QED  BY <1>4, <1>5, <1>6, <1>7 DEF AgentStep

\* Messages concern existing Attempts, and answers are true when they are
\* sent and stay so until they arrive.
LEMMA MessagesStep ==
  ASSUME XInv, MaxTriggers = 1, [ExecNext]_execVars
  PROVE  /\ \A m \in toAgent' : attemptState'[m.action] # "Absent"
         /\ \A m \in toServer' : Truthful(m)'
<1>1. RInv /\ ExecTypeOK
  BY Zenon DEF XInv, RInv
<1>2. ASSUME NEW b \in Attempt, attemptState[b] # "Absent"
      PROVE  attemptState'[b] # "Absent"
  BY Zenon, <1>1, <1>2, Moves DEF Active, Executing, TerminalAttempt
<1>3. ASSUME NEW m \in toServer PROVE Truthful(m)'
  <2>1. m.action \in Attempt
    BY Zenon, <1>1 DEF ExecTypeOK, ToServer
  <2>2. QED  BY <1>2, <2>1, ReportStays DEF XInv, Truthful
<1>4. ASSUME NEW m \in toAgent PROVE attemptState'[m.action] # "Absent"
  BY Zenon, <1>1, <1>2 DEF XInv, ExecTypeOK, ToAgent
<1>5. ASSUME NEW a \in Attempt, AgentStep(a)
      PROVE  toAgent' = toAgent /\ \A m \in toServer' : Truthful(m)'
  <2>1. attemptState[a] # "Absent"
    <3>1. agent[a] # "Unknown" \/ \E m \in toAgent : m.action = a
      BY Zenon, <1>5
         DEF AgentStep, handle_dispatch, run_configured_scenario, handle_cancel,
                  handle_status_query, Msg
    <3>2. QED  BY <3>1 DEF XInv, Story, Undispatched
  <2>2. PICK m \in ToServer : /\ m.action = a /\ toServer' \subseteq toServer \cup {m}
                              /\ IsSo(a, Reports(m))'
    BY Zenon, <1>5, <2>1, AgentStays, AnswersAreTrue
  <2>3. Truthful(m)'
    BY Zenon, <1>2, <2>1, <2>2 DEF Truthful
  <2>4. toAgent' = toAgent
    BY Zenon, <1>1, <1>5, Answers DEF AgentStep
  <2>5. QED  BY <1>3, <2>2, <2>3, <2>4
<1>6. ASSUME ~\E a \in Attempt : AgentStep(a) PROVE toServer' \subseteq toServer
  BY Zenon, <1>1, <1>6, StepKinds
  DEF Aloof, commit_dispatch, dispatch_message, server_restart, agent_restart
<1>7. ASSUME ~\E a \in Attempt : AgentStep(a), NEW m \in toAgent'
      PROVE  attemptState'[m.action] # "Absent"
  <2>1. ASSUME NEW a \in Attempt, dispatch_message(a)
        PROVE  attemptState'[m.action] # "Absent"
    <3>1. attemptState[a] = "Absent" => calls[a] = 0
      BY Zenon DEF XInv, Story
    <3>2. calls[a] > 0 /\ (toAgent' = toAgent \cup {Msg("ActionDispatch", a)}
                            \/ toAgent' = toAgent)
      BY Zenon, <2>1 DEF dispatch_message
    <3>3. attemptState[a] # "Absent"
      BY ONLY <3>1, <3>2, SMT
    <3>4. m \in toAgent \/ m.action = a
      BY ONLY <1>7, <3>2, SMT DEF Msg
    <3>5. QED  BY Zenon, <1>2, <1>4, <3>3, <3>4
  <2>2. ASSUME NEW a \in Attempt, reconcile_on_session_start(a)
        PROVE  attemptState'[m.action] # "Absent"
    BY <1>2, <1>4, <1>7, <2>2 DEF reconcile_on_session_start, Msg
  <2>3. ASSUME NEW j \in Job, request(j) PROVE attemptState'[m.action] # "Absent"
    <3>1. m \in toAgent \/ m.action \in JobAttempts(j, Active)
      BY <1>7, <2>3 DEF request, Msg
    <3>2. QED  BY <1>2, <1>4, <3>1 DEF JobAttempts, Active, Executing
  <2>4. CASE \/ Schedule
             \/ \E x \in toServer : handle_reply(x)
             \/ \E a \in Attempt : close(a) \/ connection_loss(a)
             \/ \E c \in Caller : reject_dispatch(c)
    BY Zenon, <1>4, <1>7, <2>4, RecordsOnly
  <2>5. CASE \/ UNCHANGED execVars
             \/ \E c \in Caller : acquire(c)
             \/ \E c \in Caller, j \in Job, i \in Step, a \in Attempt, ok \in BOOLEAN :
                  commit_dispatch(c, j, i, a, ok)
             \/ \E x \in toServer : forget_reply(x)
             \/ \E e \in Endpoint : agent_restart(e)
             \/ server_restart
    BY Zenon, <1>4, <1>7, <2>5
       DEF execVars, acquire, commit_dispatch, forget_reply, agent_restart,
                            server_restart
  <2>6. \/ \E a \in Attempt : dispatch_message(a) \/ reconcile_on_session_start(a)
        \/ \E j \in Job : request(j)
        \/ \/ Schedule
           \/ \E x \in toServer : handle_reply(x)
           \/ \E a \in Attempt : close(a) \/ connection_loss(a)
           \/ \E c \in Caller : reject_dispatch(c)
        \/ \/ UNCHANGED execVars
           \/ \E c \in Caller : acquire(c)
           \/ \E c \in Caller, j \in Job, i \in Step, a \in Attempt, ok \in BOOLEAN :
                commit_dispatch(c, j, i, a, ok)
           \/ \E x \in toServer : forget_reply(x)
           \/ \E e \in Endpoint : agent_restart(e)
           \/ server_restart
    <3>1. \A a \in Attempt : ~AgentStep(a)
      BY Zenon, <1>7
    <3>2. QED  BY Zenon, <3>1 DEF ExecNext, AgentStep
  <2>7. QED  BY Zenon, <2>1, <2>2, <2>3, <2>4, <2>5, <2>6
<1>8. QED  BY <1>3, <1>4, <1>5, <1>6, <1>7

-----------------------------------------------------------------------------
(* Theorems for one dispatch call per Attempt.                             *)

\* XInv holds in every reachable state.
THEOREM StoriesAgree == ASSUME MaxTriggers = 1 PROVE ExecSpec => []XInv
<1>1. ExecInit => XInv
  <2> SUFFICES ASSUME ExecInit PROVE XInv
    BY Zenon
  <2>1. RInv
    BY Zenon, ExecInitially
  <2>2. ASSUME NEW a \in Attempt PROVE Story(a)
    BY Zenon DEF ExecInit, Init, Story, AgentIsTrue, Undispatched
  <2>3. QED  BY <2>1, <2>2 DEF XInv, ExecInit
<1>2. XInv /\ [ExecNext]_execVars => XInv'
  <2> SUFFICES ASSUME XInv, [ExecNext]_execVars PROVE XInv'
    BY Zenon
  <2>1. RInv'
    BY Zenon, ExecStep DEF XInv
  <2>2. ASSUME NEW b \in Attempt PROVE Story(b)'
    BY Zenon, AgentIsTrueStep, DispatchStep, OutcomeStep DEF Story
  <2>3. QED  BY Zenon, <2>1, <2>2, MessagesStep DEF XInv
<1>3. QED  BY <1>1, <1>2, PTL DEF ExecSpec

\* The durable outcome of an Attempt is what happened on the Endpoint.
THEOREM OutcomesAreTrue == ASSUME MaxTriggers = 1 PROVE ExecSpec => []OutcomeIsTrue
<1>1. XInv => OutcomeIsTrue
  BY Zenon DEF XInv, Story, OutcomeIsTrue
<1>2. QED  BY <1>1, StoriesAgree, PTL

\* No action is started twice, although both sides forget it at a restart.
THEOREM StartedAtMostOnce == ASSUME MaxTriggers = 1 PROVE ExecSpec => []AtMostOnceExecution
<1>1. XInv => AtMostOnceExecution
  BY DEF XInv, Story, AgentIsTrue, AtMostOnceExecution
<1>2. QED  BY <1>1, StoriesAgree, PTL

\* Two actions run on an Endpoint at once only if one was given up: what runs
\* has an active or an Indeterminate Attempt, and an Endpoint has at most one
\* active Attempt.
THEOREM ExecutionIsExclusive ==
  ASSUME MaxTriggers = 1 PROVE ExecSpec => []ExclusiveExecution
<1>1. XInv => ExclusiveExecution
  <2> SUFFICES ASSUME XInv, NEW a \in Attempt, NEW b \in Attempt,
                      performed[a] = "Running", performed[b] = "Running",
                      EndpointOf(a) = EndpointOf(b), a # b
               PROVE  "Indeterminate" \in {attemptState[a], attemptState[b]}
    BY Zenon DEF ExclusiveExecution
  <2>1. ASSUME NEW c \in Attempt, performed[c] = "Running"
        PROVE  attemptState[c] \in Active \cup {"Indeterminate"}
    <3>1. attemptState[c] \in AttemptState \cup {"Absent"}
      BY Zenon DEF XInv, RInv, IInv, TypeOK
    <3>2. Story(c) /\ AgentIsTrue(c)
      BY Zenon DEF XInv, Story
    <3>3. attemptState[c] \notin {"Absent", "Rejected", "Succeeded", "Failed", "Cancelled"}
      BY Zenon, <2>1, <3>2 DEF Story, AgentIsTrue, Undispatched
    <3>4. QED  BY <3>1, <3>3 DEF AttemptState, Active, Executing
  <2>2. ~(attemptState[a] \in Active /\ attemptState[b] \in Active)
    BY Zenon, OneActive DEF XInv, RInv, OneActiveAttemptPerEndpoint, EndpointOf
  <2>3. QED  BY <2>1, <2>2
<1>2. QED  BY <1>1, StoriesAgree, PTL
=============================================================================
