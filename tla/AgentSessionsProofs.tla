------------------------ MODULE AgentSessionsProofs ------------------------
(***************************************************************************)
(* Proofs about AgentSessions for any number of sessions and Attempts.     *)
(*                                                                         *)
(* Why an InProgress Attempt always has a session that answers for it: the *)
(* correlation of an active Attempt is overwritten only in favour of that  *)
(* Attempt.  A dispatch call that has not resolved its session yet belongs *)
(* to the one active Attempt, and a session that still has to rebind an    *)
(* older Attempt finds the newer one's correlation and leaves it alone     *)
(* (Faithful).  That holds as long as no fault has happened.               *)
(***************************************************************************)
EXTENDS AgentSessions, TLAPS

\* The time limit of the solver, in seconds, for every leaf that names no other
\* prover.
USE SMTT(60)

\* Nothing knows of an action whose dispatch has not resolved a session.
Unheard ==
  /\ \A a \in Attempt : attempt[a] = "Absent" => call[a] = None
  /\ \A a \in Attempt : attempt[a] = "Absent" \/ call[a] = "Pending" =>
       /\ known[a] = "Unknown"
       /\ correlation # None => correlation[2] # a
       /\ \A s \in Session : /\ Dispatch(a) \notin channel[s]
                             /\ rebinding[s] # a /\ captured[s] # a

OneActive ==
  \A a, b \in Attempt : attempt[a] \in Active /\ attempt[b] \in Active => a = b

\* Where a session task can hold what.
Tasks ==
  /\ \A s \in Session : rebinding[s] # None => phase[s] = "Live"
  /\ \A s \in Session : captured[s] # None =>
       phase[s] \in {"Captured", "Unregistered", "Marked"}
  /\ live = <<>> => correlation = None

\* Only carriers are bound to an action.
Carried ==
  \A s \in Session, a \in Attempt :
    rebinding[s] = a \/ captured[s] = a \/ correlation = <<s, a>> => s \in carriers[a]

\* The active Attempt owns the correlation from the moment it is resolved.
Faithful ==
  faulted = {} =>
    \A a \in Attempt :
      /\ call[a] = "Pending" => attempt[a] = "Dispatched"
      /\ attempt[a] \in Active /\ call[a] # "Pending" =>
           IF correlation = None THEN \A s \in Session : rebinding[s] \in {None, a}
           ELSE correlation[2] = a

SInv == TypeOK /\ Unheard /\ OneActive /\ Tasks /\ Carried /\ Faithful /\ InProgressHasSession

\* Removing the element at one position of a sequence without repetition.
LEMMA RemoveAtFacts ==
  ASSUME NEW S, NEW q \in Seq(S), IsInjective(q), NEW i \in DOMAIN q
  PROVE  /\ RemoveAt(q, i) \in Seq(S)
         /\ IsInjective(RemoveAt(q, i))
         /\ ToSet(RemoveAt(q, i)) = ToSet(q) \ {q[i]}
  <1> DEFINE r == RemoveAt(q, i)
             n == Len(q)
  <1>1. n \in Nat /\ i \in 1..n
    OBVIOUS
  <1>2. /\ SubSeq(q, 1, i - 1) \in Seq(S) /\ Len(SubSeq(q, 1, i - 1)) = i - 1
        /\ \A k \in 1..(i - 1) : SubSeq(q, 1, i - 1)[k] = q[k]
    BY <1>1
  <1>3. /\ SubSeq(q, i + 1, n) \in Seq(S) /\ Len(SubSeq(q, i + 1, n)) = n - i
        /\ \A k \in 1..(n - i) : SubSeq(q, i + 1, n)[k] = q[i + k]
    BY <1>1
  <1>4. /\ r \in Seq(S) /\ Len(r) = n - 1
        /\ \A k \in 1..(n - 1) : r[k] = IF k < i THEN q[k] ELSE q[k + 1]
    <2> DEFINE u == SubSeq(q, 1, i - 1)
               v == SubSeq(q, i + 1, n)
    <2> HIDE DEF u, v
    <2>1. /\ u \in Seq(S) /\ Len(u) = i - 1 /\ \A k \in 1..(i - 1) : u[k] = q[k]
          /\ v \in Seq(S) /\ Len(v) = n - i /\ \A k \in 1..(n - i) : v[k] = q[i + k]
      BY <1>2, <1>3 DEF u, v
    <2>2. r = u \o v
      BY DEF u, v, RemoveAt
    <2>3. /\ u \o v \in Seq(S) /\ Len(u \o v) = Len(u) + Len(v)
          /\ \A k \in 1..(Len(u) + Len(v)) :
               (u \o v)[k] = IF k <= Len(u) THEN u[k] ELSE v[k - Len(u)]
      BY <2>1
    <2> HIDE DEF r
    <2>4. /\ r \in Seq(S) /\ Len(r) = Len(u) + Len(v)
          /\ \A k \in 1..(Len(u) + Len(v)) :
               r[k] = IF k <= Len(u) THEN u[k] ELSE v[k - Len(u)]
      BY Zenon, <2>2, <2>3
    <2>5. ASSUME NEW k \in 1..(n - 1) PROVE r[k] = IF k < i THEN q[k] ELSE q[k + 1]
      <3>1. CASE k < i
        <4>1. k \in 1..(i - 1) /\ k <= Len(u) /\ k \in 1..(Len(u) + Len(v))
          BY <1>1, <2>1, <3>1
        <4>2. r[k] = u[k]
          BY <2>4, <4>1
        <4> QED
          BY <2>1, <3>1, <4>1, <4>2
      <3>2. CASE ~(k < i)
        <4>1. /\ k - (i - 1) \in 1..(n - i)
              /\ k \in 1..(Len(u) + Len(v)) /\ ~(k <= Len(u)) /\ Len(u) = i - 1
          BY <1>1, <2>1, <3>2
        <4>2. r[k] = v[k - Len(u)] /\ k - Len(u) = k - (i - 1)
          BY <2>4, <4>1
        <4>3. v[k - (i - 1)] = q[i + (k - (i - 1))]
          BY Zenon, <2>1, <4>1
        <4>4. i + (k - (i - 1)) = k + 1
          BY <1>1
        <4> QED
          BY <3>2, <4>2, <4>3, <4>4
      <3> QED
        BY <3>1, <3>2
    <2> QED
      BY <1>1, <2>1, <2>4, <2>5
  <1> HIDE DEF r
  <1>5. IsInjective(r)
    <2> SUFFICES ASSUME NEW k \in 1..(n - 1), NEW m \in 1..(n - 1), r[k] = r[m]
                 PROVE  k = m
      BY <1>1, <1>4 DEF IsInjective
    <2>1. \A x, y \in 1..n : q[x] = q[y] => x = y
      BY <1>1 DEF IsInjective
    <2>2. r[k] = q[IF k < i THEN k ELSE k + 1] /\ r[m] = q[IF m < i THEN m ELSE m + 1]
      BY Zenon, <1>4
    <2>3. /\ (IF k < i THEN k ELSE k + 1) \in 1..n /\ (IF m < i THEN m ELSE m + 1) \in 1..n
          /\ (IF k < i THEN k ELSE k + 1) = (IF m < i THEN m ELSE m + 1) => k = m
      BY <1>1
    <2> QED
      BY Zenon, <2>1, <2>2, <2>3
  <1>6. ToSet(r) = {r[k] : k \in 1..(n - 1)} /\ ToSet(q) = {q[k] : k \in 1..n}
    BY <1>1, <1>4 DEF ToSet
  <1>7. \A k \in 1..(n - 1) : r[k] \in ToSet(q) \ {q[i]}
    BY <1>1, <1>4, <1>6 DEF IsInjective
  <1>8. ASSUME NEW k \in 1..n, q[k] # q[i] PROVE q[k] \in ToSet(r)
    <2>1. CASE k < i
      BY <1>1, <1>4, <1>6, <2>1
    <2>2. CASE k > i
      <3>1. k - 1 \in 1..(n - 1) /\ r[k - 1] = q[k]
        BY <1>1, <1>4, <2>2
      <3> QED
        BY <1>6, <3>1
    <2> QED
      BY <1>1, <1>8, <2>1, <2>2
  <1> QED
    BY <1>4, <1>5, <1>6, <1>7, <1>8 DEF r

-----------------------------------------------------------------------------
\* The newest live session is a session, and only an empty directory has none.
LEMMA Newest ==
  ASSUME TypeOK, live # <<>> PROVE Last(live) \in Session
  BY DEF TypeOK, Last

LEMMA LiveIsListed ==
  ASSUME TypeOK, NEW s \in Session, phase[s] \in {"Live", "Ended", "Captured"}
  PROVE  live # <<>> /\ \E i \in DOMAIN live : live[i] = s
  BY DEF TypeOK, ToSet

LEMMA SessionsInit == Init => SInv
  <1> SUFFICES ASSUME Init PROVE SInv
    OBVIOUS
  <1> USE DEF Init
  <1>1. TypeOK
    BY DEF TypeOK, IsInjective, ToSet, Active, Executing
  <1>2. Unheard /\ OneActive /\ Tasks
    BY Zenon, NoneAssumption DEF Unheard, OneActive, Tasks, Active, Executing
  <1>3. Carried
    <2>1. \A s \in Session, a \in Attempt : <<s, a>> # None
      BY NoneAssumption
    <2> QED
      BY <2>1, NoneAssumption DEF Carried
  <1>4. Faithful /\ InProgressHasSession
    BY Zenon, NoneAssumption DEF Faithful, InProgressHasSession, Active, Executing
  <1> QED
    BY Zenon, <1>1, <1>2, <1>3, <1>4 DEF SInv

\* Every step preserves the inductive invariant, conjunct by conjunct.
LEMMA QueriesTyped ==
  ASSUME TypeOK
  PROVE  WithStatusQuery \in [Session -> SUBSET ({Dispatch(a) : a \in Attempt}
                                                \cup {Query(a) : a \in Attempt})]
  BY Newest DEF WithStatusQuery, TypeOK

\* The types, and that the directory lists the registered sessions.
LEMMA TypeStep == ASSUME SInv, [Next]_vars PROVE TypeOK'
  <1> USE NoneAssumption, PendingAssumption DEF dirVars, taskVars, agentVars, history
  <1>1. ASSUME NEW a \in Attempt, commit_dispatch(a) PROVE TypeOK'
    BY Zenon, <1>1 DEF commit_dispatch, SInv, TypeOK, Active, Executing
  <1>2. ASSUME NEW a \in Attempt, resolve(a) PROVE TypeOK'
    BY <1>2, Newest DEF resolve, SInv, TypeOK
  <1>3. ASSUME NEW a \in Attempt, enqueue(a) PROVE TypeOK'
    BY <1>3 DEF enqueue, SInv, TypeOK
  <1>4. ASSUME NEW a \in Attempt, run_configured_scenario(a) PROVE TypeOK'
    BY Zenon, <1>4 DEF run_configured_scenario, SInv, TypeOK, Active, Executing
  <1>5. ASSUME NEW a \in Attempt, close_indeterminate(a) PROVE TypeOK'
    BY Zenon, <1>5 DEF close_indeterminate, SInv, TypeOK, Active, Executing
  <1>6. ASSUME NEW s \in Session, session_start(s) PROVE TypeOK'
    <2>1. live \in Seq(Session) /\ IsInjective(live) /\ s \notin ToSet(live)
      BY Zenon, <1>6 DEF session_start, SInv, TypeOK
    <2>2. /\ live' \in Seq(Session) /\ Len(live') = Len(live) + 1 /\ live'[Len(live) + 1] = s
          /\ \A i \in 1..Len(live) : live'[i] = live[i]
      BY <1>6, <2>1 DEF session_start
    <2>3. IsInjective(live') /\ ToSet(live') = ToSet(live) \cup {s}
      BY <2>1, <2>2 DEF IsInjective, ToSet
    <2>4. ToSet(live') = {t \in Session : phase'[t] \in {"Live", "Ended", "Captured"}}
      BY <1>6, <2>3 DEF session_start, SInv, TypeOK
    <2> QED
      BY Zenon, <1>6, <2>2, <2>3, <2>4 DEF session_start, SInv, TypeOK
  <1>7. ASSUME NEW s \in Session, reconcile_on_session_start(s) PROVE TypeOK'
    <2>1. channel' \in [Session -> SUBSET ({Dispatch(a) : a \in Attempt}
                                           \cup {Query(a) : a \in Attempt})]
      BY <1>7, QueriesTyped DEF reconcile_on_session_start, SInv
    <2> QED
      BY Zenon, <1>7, <2>1 DEF reconcile_on_session_start, SInv, TypeOK
  <1>8. ASSUME NEW s \in Session, bind_dispatch_relevant_session(s) PROVE TypeOK'
    BY Zenon, <1>8 DEF bind_dispatch_relevant_session, SInv, TypeOK, Active, Executing
  <1>9. ASSUME NEW s \in Session, loop_end(s) PROVE TypeOK'
    <2>1. ToSet(live) = {t \in Session : phase'[t] \in {"Live", "Ended", "Captured"}}
      BY Zenon, <1>9 DEF loop_end, InLoop, SInv, TypeOK
    <2> QED
      BY Zenon, <1>9, <2>1 DEF loop_end, SInv, TypeOK
  <1>10. ASSUME NEW s \in Session, dispatch_relevant_action(s) PROVE TypeOK'
    <2>1. ToSet(live) = {t \in Session : phase'[t] \in {"Live", "Ended", "Captured"}}
      BY Zenon, <1>10 DEF dispatch_relevant_action, SInv, TypeOK
    <2>2. captured' \in [Session -> Attempt \cup {None}]
      BY Zenon, <1>10 DEF dispatch_relevant_action, SInv, TypeOK
    <2> QED
      BY Zenon, <1>10, <2>1, <2>2 DEF dispatch_relevant_action, SInv, TypeOK
  <1>11. ASSUME NEW s \in Session, unregister(s) PROVE TypeOK'
    <2>1. PICK i \in DOMAIN live : live[i] = s /\ live' = RemoveAt(live, i)
      BY <1>11 DEF unregister
    <2>2. live' \in Seq(Session) /\ IsInjective(live') /\ ToSet(live') = ToSet(live) \ {s}
      BY Zenon, <2>1, RemoveAtFacts DEF SInv, TypeOK
    <2>3. ToSet(live') = {t \in Session : phase'[t] \in {"Live", "Ended", "Captured"}}
      BY Zenon, <1>11, <2>2 DEF unregister, SInv, TypeOK
    <2> QED
      BY Zenon, <1>11, <2>2, <2>3 DEF unregister, SInv, TypeOK
  <1>12. ASSUME NEW s \in Session, mark_endpoint_uncertain(s) PROVE TypeOK'
    BY Zenon, <1>12 DEF mark_endpoint_uncertain, SInv, TypeOK, Active, Executing
  <1>13. ASSUME NEW s \in Session, mark_fails(s) PROVE TypeOK'
    BY Zenon, <1>13 DEF mark_fails, SInv, TypeOK, Active, Executing
  <1>14. ASSUME NEW s \in Session, session_end(s) PROVE TypeOK'
    <2>1. channel' \in [Session -> SUBSET ({Dispatch(a) : a \in Attempt}
                                           \cup {Query(a) : a \in Attempt})]
      BY Zenon, <1>14, QueriesTyped DEF session_end, SInv, TypeOK
    <2> QED
      BY <1>14, <2>1 DEF session_end, SInv, TypeOK
  <1>15. ASSUME NEW s \in Session, NEW m \in channel[s], transmit(s, m) PROVE TypeOK'
    <2>1. m \in {Dispatch(a) : a \in Attempt} \cup {Query(a) : a \in Attempt}
      BY Zenon DEF SInv, TypeOK
    <2>2. m.action \in Attempt
      BY <2>1 DEF Dispatch, Query
    <2> QED
      BY <1>15, <2>2 DEF transmit, SInv, TypeOK
  <1>16. ASSUME NEW s \in Session, NEW a \in Attempt, handle_action_ack(s, a) PROVE TypeOK'
    BY Zenon, <1>16
       DEF handle_action_ack, CommitInProgress, SInv, TypeOK, Active, Executing
  <1>17. ASSUME NEW s \in Session, NEW a \in Attempt, handle_action_result(s, a) PROVE TypeOK'
    BY Zenon, <1>17 DEF handle_action_result, SInv, TypeOK, Active, Executing
  <1>18. ASSUME NEW s \in Session, NEW a \in Attempt, handle_status_report(s, a) PROVE TypeOK'
    BY <1>18 DEF handle_status_report, CommitInProgress, SInv, TypeOK, Active, Executing
  <1>19. ASSUME NEW s \in Session, NEW a \in Attempt, handle_cancel_ack(s, a) PROVE TypeOK'
    BY Zenon, <1>19 DEF handle_cancel_ack, SInv, TypeOK, Active, Executing
  <1>20. ASSUME server_restart PROVE TypeOK'
    <2>1. IsInjective(<<>>) /\ ToSet(<<>>) = {} /\ <<>> \in Seq(Session)
      BY DEF IsInjective, ToSet
    <2> QED
      BY Zenon, <1>20, <2>1 DEF server_restart, SInv, TypeOK, Active, Executing
  <1>21. CASE UNCHANGED vars
    BY Zenon, <1>21 DEF vars, SInv, TypeOK, Active, Executing
  <1> QED
    BY Zenon, <1>1, <1>2, <1>3, <1>4, <1>5, <1>6, <1>7, <1>8, <1>9, <1>10, <1>11, <1>12,
       <1>13, <1>14,
       <1>15, <1>16, <1>17, <1>18, <1>19, <1>20, <1>21 DEF Next, vars

\* The messages of two kinds differ, and a query adds no dispatch.
LEMMA Messages ==
  /\ \A a, b \in Attempt : Dispatch(a) # Query(b)
  /\ \A a, b \in Attempt : Dispatch(a) = Dispatch(b) => a = b
  BY DEF Dispatch, Query

LEMMA QueriesAddNoDispatch ==
  ASSUME TypeOK, NEW s \in Session, NEW a \in Attempt
  PROVE  Dispatch(a) \in WithStatusQuery[s] => Dispatch(a) \in channel[s]
  BY Messages, Newest DEF WithStatusQuery, TypeOK

\* The correlation is dropped with the last session, when none is live.
LEMMA CorrelationEnds ==
  ASSUME SInv, NEW s \in Session, unregister(s)
  PROVE  /\ \/ correlation' = correlation
            \/ correlation' = None /\ \A t \in Session : phase'[t] \notin {"Live", "Ended"}
         /\ live' = <<>> => correlation' = None
  <1>1. TypeOK'
    BY TypeStep DEF Next
  <1>2. ASSUME live' = <<>> PROVE \A t \in Session : phase'[t] \notin {"Live", "Ended"}
    BY <1>1, <1>2 DEF TypeOK, ToSet
  <1> QED
    BY <1>2 DEF unregister

\* One active Attempt at a time.
LEMMA OneActiveStep == ASSUME SInv, [Next]_vars PROVE OneActive'
  <1> USE NoneAssumption, PendingAssumption DEF dirVars, taskVars, agentVars, history
  <1>1. ASSUME NEW a \in Attempt, commit_dispatch(a) PROVE OneActive'
    BY <1>1 DEF commit_dispatch, SInv, TypeOK, Active, Executing, OneActive
  <1>2. ASSUME NEW a \in Attempt, close_indeterminate(a) PROVE OneActive'
    BY <1>2 DEF close_indeterminate, SInv, TypeOK, Active, Executing, OneActive
  <1>3. ASSUME NEW s \in Session, mark_endpoint_uncertain(s) PROVE OneActive'
    BY Zenon, <1>3 DEF mark_endpoint_uncertain, SInv, TypeOK, Active, Executing, OneActive
  <1>4. ASSUME NEW s \in Session, NEW a \in Attempt, handle_action_ack(s, a) PROVE OneActive'
    BY <1>4
       DEF handle_action_ack, CommitInProgress, SInv, TypeOK, Active, Executing, OneActive
  <1>5. ASSUME NEW s \in Session, NEW a \in Attempt, handle_action_result(s, a) PROVE OneActive'
    BY <1>5 DEF handle_action_result, SInv, TypeOK, Active, Executing, OneActive
  <1>6. ASSUME NEW s \in Session, NEW a \in Attempt, handle_status_report(s, a) PROVE OneActive'
    BY <1>6 DEF handle_status_report, CommitInProgress, SInv, TypeOK, Active, Executing,
       OneActive
  <1>7. ASSUME NEW s \in Session, NEW a \in Attempt, handle_cancel_ack(s, a) PROVE OneActive'
    BY Zenon, <1>7 DEF handle_cancel_ack, SInv, TypeOK, Active, Executing, OneActive
  <1>8. ASSUME server_restart PROVE OneActive'
    BY Zenon, <1>8 DEF server_restart, SInv, TypeOK, Active, Executing, OneActive
  <1>9. CASE UNCHANGED <<attempt>>
    BY <1>9 DEF SInv, TypeOK, Active, Executing, OneActive
  <1> QED
    BY Zenon, <1>1, <1>2, <1>3, <1>4, <1>5, <1>6, <1>7, <1>8, <1>9
       DEF Next, vars, resolve, enqueue,
       run_configured_scenario, session_start, reconcile_on_session_start,
       bind_dispatch_relevant_session, loop_end, dispatch_relevant_action, unregister,
       mark_fails, session_end, transmit

\* What a session task can hold.
LEMMA TasksStep == ASSUME SInv, [Next]_vars PROVE Tasks'
  <1> USE NoneAssumption, PendingAssumption DEF dirVars, taskVars, agentVars, history
  <1>1. ASSUME NEW a \in Attempt, resolve(a) PROVE Tasks'
    BY Zenon, <1>1 DEF resolve, SInv, TypeOK, Tasks, InLoop
  <1>2. ASSUME NEW s \in Session, session_start(s) PROVE Tasks'
    <2>1. live' # <<>>
      BY <1>2 DEF session_start, SInv, TypeOK
    <2> QED
      BY <1>2, <2>1 DEF session_start, SInv, TypeOK, Tasks
  <1>3. ASSUME NEW s \in Session, bind_dispatch_relevant_session(s) PROVE Tasks'
    <2>1. live # <<>>
      BY <1>3, LiveIsListed DEF bind_dispatch_relevant_session, SInv, Tasks
    <2> QED
      BY <1>3, <2>1 DEF bind_dispatch_relevant_session, SInv, TypeOK, Tasks
  <1>4. ASSUME NEW s \in Session, loop_end(s) PROVE Tasks'
    BY <1>4 DEF loop_end, SInv, TypeOK, Tasks, InLoop
  <1>5. ASSUME NEW s \in Session, dispatch_relevant_action(s) PROVE Tasks'
    BY <1>5 DEF dispatch_relevant_action, SInv, TypeOK, Tasks, InLoop
  <1>6. ASSUME NEW s \in Session, unregister(s) PROVE Tasks'
    BY <1>6, CorrelationEnds DEF unregister, SInv, TypeOK, Tasks
  <1>7. ASSUME NEW s \in Session, mark_endpoint_uncertain(s) PROVE Tasks'
    BY <1>7 DEF mark_endpoint_uncertain, SInv, TypeOK, Tasks, InLoop
  <1>8. ASSUME NEW s \in Session, mark_fails(s) PROVE Tasks'
    BY <1>8 DEF mark_fails, SInv, TypeOK, Tasks, InLoop
  <1>9. ASSUME NEW s \in Session, session_end(s) PROVE Tasks'
    BY <1>9 DEF session_end, SInv, TypeOK, Tasks, InLoop
  <1>10. ASSUME NEW s \in Session, NEW a \in Attempt, handle_action_ack(s, a) PROVE Tasks'
    BY <1>10 DEF handle_action_ack, CommitInProgress, SInv, TypeOK, Tasks, InLoop
  <1>11. ASSUME NEW s \in Session, NEW a \in Attempt, handle_status_report(s, a) PROVE Tasks'
    BY <1>11 DEF handle_status_report, CommitInProgress, SInv, TypeOK, Tasks, InLoop
  <1>12. ASSUME server_restart PROVE Tasks'
    BY Zenon, <1>12 DEF server_restart, SInv, TypeOK, Tasks, InLoop
  <1>13. CASE UNCHANGED <<phase, live, correlation, rebinding, captured>>
    BY <1>13 DEF SInv, TypeOK, Tasks, InLoop
  <1> QED
    BY Zenon, <1>1, <1>2, <1>3, <1>4, <1>5, <1>6, <1>7, <1>8, <1>9, <1>10, <1>11, <1>12,
       <1>13 DEF
       Next, vars, commit_dispatch, enqueue, run_configured_scenario, close_indeterminate,
       reconcile_on_session_start, transmit, handle_action_result, handle_cancel_ack

\* Only carriers are bound.
LEMMA CarriedStep == ASSUME SInv, [Next]_vars PROVE Carried'
  <1> USE NoneAssumption, PendingAssumption DEF dirVars, taskVars, agentVars, history
  <1>1. ASSUME NEW a \in Attempt, resolve(a) PROVE Carried'
    BY <1>1 DEF resolve, SInv, TypeOK, Carried, Tasks
  <1>2. ASSUME NEW s \in Session, session_start(s) PROVE Carried'
    BY <1>2 DEF session_start, SInv, TypeOK, Carried, Tasks
  <1>3. ASSUME NEW s \in Session, bind_dispatch_relevant_session(s) PROVE Carried'
    BY <1>3 DEF bind_dispatch_relevant_session, SInv, TypeOK, Carried, Tasks
  <1>4. ASSUME NEW s \in Session, dispatch_relevant_action(s) PROVE Carried'
    BY <1>4 DEF dispatch_relevant_action, SInv, TypeOK, Carried, Tasks
  <1>5. ASSUME NEW s \in Session, unregister(s) PROVE Carried'
    <2>1. \A t \in Session, a \in Attempt : correlation' = <<t, a>> => correlation = <<t, a>>
      BY <1>5, CorrelationEnds
    <2> QED
      BY Zenon, <1>5, <2>1 DEF unregister, SInv, Carried
  <1>6. ASSUME NEW s \in Session, session_end(s) PROVE Carried'
    BY <1>6 DEF session_end, SInv, TypeOK, Carried, Tasks
  <1>7. ASSUME NEW s \in Session, NEW a \in Attempt, handle_action_ack(s, a) PROVE Carried'
    BY <1>7 DEF handle_action_ack, CommitInProgress, SInv, TypeOK, Carried, Tasks
  <1>8. ASSUME NEW s \in Session, NEW a \in Attempt, handle_status_report(s, a) PROVE Carried'
    BY <1>8 DEF handle_status_report, CommitInProgress, SInv, TypeOK, Carried, Tasks
  <1>9. ASSUME server_restart PROVE Carried'
    BY <1>9 DEF server_restart, SInv, TypeOK, Carried, Tasks
  <1>10. CASE UNCHANGED <<correlation, rebinding, captured, carriers>>
    BY Zenon, <1>10 DEF SInv, TypeOK, Carried, Tasks
  <1> QED
    BY Zenon, <1>1, <1>2, <1>3, <1>4, <1>5, <1>6, <1>7, <1>8, <1>9, <1>10 DEF Next, vars,
       commit_dispatch, enqueue, run_configured_scenario, close_indeterminate,
       reconcile_on_session_start, loop_end, mark_endpoint_uncertain, mark_fails, transmit,
       handle_action_result, handle_cancel_ack

\* Unresolved actions are unheard of.
LEMMA UnheardStep == ASSUME SInv, [Next]_vars PROVE Unheard'
  <1> USE NoneAssumption, PendingAssumption DEF dirVars, taskVars, agentVars, history
  <1>1. ASSUME NEW a \in Attempt, commit_dispatch(a) PROVE Unheard'
    BY <1>1 DEF commit_dispatch, SInv, TypeOK, Unheard, Executing
  <1>2. ASSUME NEW a \in Attempt, resolve(a) PROVE Unheard'
    <2>1. CASE live = <<>>
      BY <1>2, <2>1 DEF resolve, SInv, TypeOK, Unheard
    <2>2. CASE live # <<>>
      <3>1. Last(live) \in Session
        BY <2>2, Newest DEF SInv
      <3>2. /\ call'[a] = Last(live) /\ \A b \in Attempt \ {a} : call'[b] = call[b]
            /\ correlation' = <<Last(live), a>> /\ attempt[a] # "Absent"
        BY <1>2, <2>2 DEF resolve, SInv, TypeOK, Unheard
      <3> QED
        BY <1>2, <3>1, <3>2 DEF resolve, SInv, Unheard
    <2> QED
      BY <2>1, <2>2
  <1>3. ASSUME NEW a \in Attempt, enqueue(a) PROVE Unheard'
    <2>1. /\ call[a] \in Session /\ call[a] # "Pending" /\ attempt[a] # "Absent"
          /\ call'[a] = None /\ \A b \in Attempt \ {a} : call'[b] = call[b]
      BY <1>3 DEF enqueue, SInv, TypeOK, Unheard
    <2>2. \A b \in Attempt \ {a}, s \in Session :
            Dispatch(b) \in channel'[s] => Dispatch(b) \in channel[s]
      BY <1>3, <2>1, Messages DEF enqueue, SInv, TypeOK
    <2> QED
      BY Zenon, <1>3, <2>1, <2>2 DEF enqueue, SInv, Unheard
  <1>4. ASSUME NEW a \in Attempt, run_configured_scenario(a) PROVE Unheard'
    BY <1>4 DEF run_configured_scenario, SInv, TypeOK, Unheard, Executing
  <1>5. ASSUME NEW a \in Attempt, close_indeterminate(a) PROVE Unheard'
    BY <1>5 DEF close_indeterminate, SInv, TypeOK, Unheard, Executing
  <1>6. ASSUME NEW s \in Session, reconcile_on_session_start(s) PROVE Unheard'
    BY <1>6, QueriesAddNoDispatch DEF reconcile_on_session_start, SInv, Unheard
  <1>7. ASSUME NEW s \in Session, bind_dispatch_relevant_session(s) PROVE Unheard'
    BY <1>7 DEF bind_dispatch_relevant_session, SInv, TypeOK, Unheard, Executing
  <1>8. ASSUME NEW s \in Session, dispatch_relevant_action(s) PROVE Unheard'
    BY <1>8 DEF dispatch_relevant_action, SInv, TypeOK, Unheard, Executing
  <1>9. ASSUME NEW s \in Session, unregister(s) PROVE Unheard'
    BY Zenon, <1>9 DEF unregister, SInv, TypeOK, Unheard, Executing
  <1>10. ASSUME NEW s \in Session, mark_endpoint_uncertain(s) PROVE Unheard'
    BY Zenon, <1>10 DEF mark_endpoint_uncertain, SInv, TypeOK, Unheard, Executing
  <1>11. ASSUME NEW s \in Session, session_end(s) PROVE Unheard'
    <2>1. \A a \in Attempt, t \in Session :
            Dispatch(a) \in channel'[t] => Dispatch(a) \in channel[t]
      <3>1. WithStatusQuery \in [Session -> SUBSET ({Dispatch(a) : a \in Attempt}
                                                   \cup {Query(a) : a \in Attempt})]
        BY QueriesTyped DEF SInv
      <3> QED
        BY Zenon, <1>11, <3>1, QueriesAddNoDispatch DEF session_end, SInv, TypeOK
    <2> QED
      BY <1>11, <2>1 DEF session_end, SInv, TypeOK, Unheard
  <1>12. ASSUME NEW s \in Session, NEW m \in channel[s], transmit(s, m) PROVE Unheard'
    <2>1. PICK b \in Attempt : m = Dispatch(b) \/ m = Query(b)
      BY DEF SInv, TypeOK
    <2>2. m.action = b /\ (m.type # "StatusQuery" => m = Dispatch(b))
      BY <2>1 DEF Dispatch, Query
    <2>3. \A t \in Session : channel'[t] \subseteq channel[t]
      BY Zenon, <1>12 DEF transmit, SInv, TypeOK
    <2>4. \A a \in Attempt : known'[a] # known[a] => Dispatch(a) \in channel[s]
      BY <1>12, <2>1, <2>2 DEF transmit, SInv, TypeOK
    <2> QED
      BY Zenon, <1>12, <2>3, <2>4 DEF transmit, SInv, Unheard
  <1>13. ASSUME NEW s \in Session, NEW a \in Attempt, handle_action_ack(s, a) PROVE Unheard'
    BY <1>13 DEF handle_action_ack, CommitInProgress, SInv, TypeOK, Unheard, Executing
  <1>14. ASSUME NEW s \in Session, NEW a \in Attempt, handle_action_result(s, a) PROVE Unheard'
    BY <1>14 DEF handle_action_result, SInv, TypeOK, Unheard, Executing
  <1>15. ASSUME NEW s \in Session, NEW a \in Attempt, handle_status_report(s, a) PROVE Unheard'
    BY <1>15 DEF handle_status_report, CommitInProgress, SInv, TypeOK, Unheard, Executing
  <1>16. ASSUME NEW s \in Session, NEW a \in Attempt, handle_cancel_ack(s, a) PROVE Unheard'
    BY <1>16 DEF handle_cancel_ack, SInv, TypeOK, Unheard, Executing
  <1>17. ASSUME server_restart PROVE Unheard'
    BY <1>17 DEF server_restart, SInv, TypeOK, Unheard, Executing
  <1>18. CASE UNCHANGED <<attempt, call, correlation, channel, rebinding, captured, known>>
    BY Zenon, <1>18 DEF SInv, TypeOK, Unheard, Executing
  <1> QED
    BY Zenon, <1>1, <1>2, <1>3, <1>4, <1>5, <1>6, <1>7, <1>8, <1>9, <1>10, <1>11, <1>12,
       <1>13, <1>14,
       <1>15, <1>16, <1>17, <1>18 DEF Next, vars, session_start, loop_end, mark_fails

\* The active Attempt keeps the correlation.
LEMMA FaithfulStep == ASSUME SInv, [Next]_vars PROVE Faithful'
  <1> USE NoneAssumption, PendingAssumption DEF dirVars, taskVars, agentVars, history
  <1>1. ASSUME NEW a \in Attempt, commit_dispatch(a) PROVE Faithful'
    BY <1>1
       DEF commit_dispatch, SInv, TypeOK, Active, Executing, Faithful, Unheard, OneActive,
       Tasks
  <1>2. ASSUME NEW a \in Attempt, resolve(a) PROVE Faithful'
    <2>1. CASE live = <<>>
      <3>1. \A s \in Session : rebinding[s] = None
        BY Zenon, <2>1, LiveIsListed DEF SInv, Tasks, TypeOK
      <3> QED
        BY <1>2, <2>1, <3>1 DEF resolve, SInv, TypeOK, Tasks, Faithful
    <2>2. CASE live # <<>>
      <3>1. /\ Last(live) \in Session
            /\ call'[a] = Last(live) /\ \A b \in Attempt \ {a} : call'[b] = call[b]
            /\ correlation' = <<Last(live), a>>
        BY <1>2, <2>2, Newest DEF resolve, SInv, TypeOK
      <3>2. faulted = {} => \A b \in Attempt \ {a} : attempt[b] \notin Active
        BY <1>2 DEF resolve, SInv, Faithful, OneActive, Active, Executing
      <3> QED
        BY <1>2, <3>1, <3>2 DEF resolve, SInv, Faithful
    <2> QED
      BY <2>1, <2>2
  <1>3. ASSUME NEW a \in Attempt, enqueue(a) PROVE Faithful'
    BY <1>3
       DEF enqueue, SInv, TypeOK, Active, Executing, Faithful, Unheard, OneActive, Tasks
  <1>4. ASSUME NEW a \in Attempt, close_indeterminate(a) PROVE Faithful'
    BY <1>4 DEF close_indeterminate, SInv, TypeOK, Active, Executing, Faithful, Unheard,
       OneActive, Tasks
  <1>5. ASSUME NEW s \in Session, bind_dispatch_relevant_session(s) PROVE Faithful'
    BY <1>5 DEF bind_dispatch_relevant_session, SInv, TypeOK, Active, Executing, Faithful,
       Unheard, OneActive, Tasks
  <1>6. ASSUME NEW s \in Session, unregister(s) PROVE Faithful'
    <2>1. CASE correlation' = correlation
      BY <1>6, <2>1 DEF unregister, SInv, Faithful
    <2>2. CASE correlation' = None /\ \A t \in Session : phase'[t] \notin {"Live", "Ended"}
      <3>1. \A t \in Session : rebinding'[t] = None
        BY Zenon, <1>6, <2>2, TasksStep DEF Next, Tasks
      <3> QED
        BY <1>6, <2>2, <3>1 DEF unregister, SInv, Faithful
    <2> QED
      BY <1>6, <2>1, <2>2, CorrelationEnds
  <1>7. ASSUME NEW s \in Session, mark_endpoint_uncertain(s) PROVE Faithful'
    BY <1>7
       DEF mark_endpoint_uncertain, SInv, TypeOK, Active, Executing, Faithful, Unheard,
       OneActive, Tasks
  <1>8. ASSUME NEW s \in Session, mark_fails(s) PROVE Faithful'
    BY <1>8 DEF mark_fails, Faithful
  <1>9. ASSUME NEW s \in Session, NEW a \in Attempt, handle_action_ack(s, a) PROVE Faithful'
    BY <1>9
       DEF handle_action_ack, CommitInProgress, SInv, TypeOK, Active, Executing, Faithful,
       Unheard, OneActive, Tasks
  <1>10. ASSUME NEW s \in Session, NEW a \in Attempt, handle_action_result(s, a) PROVE Faithful'
    BY <1>10 DEF handle_action_result, SInv, TypeOK, Active, Executing, Faithful, Unheard,
       OneActive, Tasks
  <1>11. ASSUME NEW s \in Session, NEW a \in Attempt, handle_status_report(s, a) PROVE Faithful'
    BY <1>11 DEF handle_status_report, CommitInProgress, SInv, TypeOK, Active, Executing,
       Faithful, Unheard, OneActive, Tasks
  <1>12. ASSUME NEW s \in Session, NEW a \in Attempt, handle_cancel_ack(s, a) PROVE Faithful'
    BY <1>12 DEF handle_cancel_ack, Faithful
  <1>13. ASSUME server_restart PROVE Faithful'
    BY Zenon, <1>13
       DEF server_restart, SInv, TypeOK, Active, Executing, Faithful, Unheard, OneActive,
       Tasks
  <1>14. CASE UNCHANGED <<attempt, call, correlation, rebinding, faulted>>
    BY Zenon, <1>14
       DEF SInv, TypeOK, Active, Executing, Faithful, Unheard, OneActive, Tasks
  <1> QED
    BY Zenon, <1>1, <1>2, <1>3, <1>4, <1>5, <1>6, <1>7, <1>8, <1>9, <1>10, <1>11, <1>12,
       <1>13, <1>14
       DEF Next, vars, run_configured_scenario, session_start, reconcile_on_session_start,
       loop_end, dispatch_relevant_action, session_end, transmit

\* A session answers for the InProgress Attempt.
LEMMA AnswerStep == ASSUME SInv, [Next]_vars PROVE InProgressHasSession'
  <1> USE NoneAssumption, PendingAssumption DEF dirVars, taskVars, agentVars, history
  <1>1. ASSUME NEW a \in Attempt, commit_dispatch(a) PROVE InProgressHasSession'
    BY <1>1
       DEF commit_dispatch, SInv, TypeOK, Active, Executing, InProgressHasSession,
          Answers,
       Faithful, OneActive, Tasks, InLoop
  <1>2. ASSUME NEW a \in Attempt, resolve(a) PROVE InProgressHasSession'
    BY <1>2 DEF resolve, SInv, TypeOK, Active, Executing, InProgressHasSession, Answers,
       Faithful, OneActive, Tasks, InLoop
  <1>3. ASSUME NEW a \in Attempt, close_indeterminate(a) PROVE InProgressHasSession'
    BY <1>3
       DEF close_indeterminate, SInv, TypeOK, Active, Executing, InProgressHasSession,
       Answers, Faithful, OneActive, Tasks, InLoop
  <1>4. ASSUME NEW s \in Session, session_start(s) PROVE InProgressHasSession'
    BY <1>4
       DEF session_start, SInv, TypeOK, Active, Executing, InProgressHasSession, Answers,
       Faithful, OneActive, Tasks, InLoop
  <1>5. ASSUME NEW s \in Session, bind_dispatch_relevant_session(s) PROVE InProgressHasSession'
    BY <1>5 DEF bind_dispatch_relevant_session, SInv, TypeOK, Active, Executing,
       InProgressHasSession, Answers, Faithful, OneActive, Tasks, InLoop
  <1>6. ASSUME NEW s \in Session, loop_end(s) PROVE InProgressHasSession'
    BY <1>6 DEF loop_end, SInv, TypeOK, Active, Executing, InProgressHasSession, Answers,
       Faithful, OneActive, Tasks, InLoop
  <1>7. ASSUME NEW s \in Session, dispatch_relevant_action(s) PROVE InProgressHasSession'
    BY <1>7
       DEF dispatch_relevant_action, SInv, TypeOK, Active, Executing,
          InProgressHasSession,
       Answers, Faithful, OneActive, Tasks, InLoop
  <1>8. ASSUME NEW s \in Session, unregister(s) PROVE InProgressHasSession'
    <2> SUFFICES ASSUME faulted = {}, NEW a \in Attempt, attempt[a] = "InProgress"
                 PROVE  \E t \in Session : Answers(t, a)'
      BY <1>8 DEF unregister, InProgressHasSession
    <2>1. PICK t \in Session : Answers(t, a)
      BY DEF SInv, InProgressHasSession
    <2>2. /\ phase'[s] = "Unregistered" /\ phase[s] = "Captured"
          /\ \A u \in Session \ {s} : phase'[u] = phase[u]
          /\ captured' = captured /\ rebinding' = rebinding
      BY Zenon, <1>8 DEF unregister, SInv, TypeOK
    <2>3. CASE phase[t] \in {"Live", "Ended"} /\ correlation = <<t, a>>
      BY <1>8, <2>2, <2>3, CorrelationEnds DEF Answers
    <2>4. CASE phase[t] \in {"Captured", "Unregistered"} /\ captured[t] = a
      BY <2>2, <2>4 DEF Answers
    <2>5. CASE rebinding[t] = a
      BY <2>2, <2>5 DEF Answers
    <2> QED
      BY <2>1, <2>3, <2>4, <2>5 DEF Answers
  <1>9. ASSUME NEW s \in Session, mark_endpoint_uncertain(s) PROVE InProgressHasSession'
    <2> SUFFICES ASSUME faulted = {}, NEW a \in Attempt, attempt'[a] = "InProgress"
                 PROVE  \E t \in Session : Answers(t, a)'
      BY <1>9 DEF mark_endpoint_uncertain, InProgressHasSession
    <2>1. attempt[a] = "InProgress" /\ captured[s] # a
      BY Zenon, <1>9 DEF mark_endpoint_uncertain, SInv, TypeOK, Executing
    <2>2. PICK t \in Session : Answers(t, a)
      BY <2>1 DEF SInv, InProgressHasSession
    <2>3. phase[s] = "Unregistered" /\ rebinding[s] # a
      BY <1>9 DEF mark_endpoint_uncertain, SInv, Tasks
    <2>4. t # s
      BY <2>1, <2>2, <2>3 DEF Answers
    <2>5. phase'[t] = phase[t]
      BY Zenon, <1>9, <2>4 DEF mark_endpoint_uncertain, SInv, TypeOK
    <2> QED
      BY <1>9, <2>2, <2>5 DEF mark_endpoint_uncertain, Answers
  <1>10. ASSUME NEW s \in Session, mark_fails(s) PROVE InProgressHasSession'
    BY <1>10 DEF mark_fails, InProgressHasSession
  <1>11. ASSUME NEW s \in Session, session_end(s) PROVE InProgressHasSession'
    BY Zenon, <1>11
       DEF session_end, SInv, TypeOK, Active, Executing, InProgressHasSession, Answers,
       Faithful, OneActive, Tasks, InLoop
  <1>12. ASSUME NEW s \in Session, NEW a \in Attempt, handle_action_ack(s, a) PROVE InProgressHasSession'
    BY <1>12 DEF handle_action_ack, CommitInProgress, SInv, TypeOK, Active, Executing,
       InProgressHasSession, Answers, Faithful, OneActive, Tasks, InLoop
  <1>13. ASSUME NEW s \in Session, NEW a \in Attempt, handle_action_result(s, a) PROVE InProgressHasSession'
    BY <1>13
       DEF handle_action_result, SInv, TypeOK, Active, Executing, InProgressHasSession,
       Answers, Faithful, OneActive, Tasks, InLoop
  <1>14. ASSUME NEW s \in Session, NEW a \in Attempt, handle_status_report(s, a) PROVE InProgressHasSession'
    BY <1>14 DEF handle_status_report, CommitInProgress, SInv, TypeOK, Active, Executing,
       InProgressHasSession, Answers, Faithful, OneActive, Tasks, InLoop
  <1>15. ASSUME NEW s \in Session, NEW a \in Attempt, handle_cancel_ack(s, a) PROVE InProgressHasSession'
    BY <1>15 DEF handle_cancel_ack, InProgressHasSession
  <1>16. ASSUME server_restart PROVE InProgressHasSession'
    BY Zenon, <1>16
       DEF server_restart, SInv, TypeOK, Active, Executing, InProgressHasSession, Answers,
       Faithful, OneActive, Tasks, InLoop
  <1>17. CASE UNCHANGED <<attempt, phase, correlation, rebinding, captured, faulted>>
    BY <1>17 DEF SInv, TypeOK, Active, Executing, InProgressHasSession, Answers, Faithful,
       OneActive, Tasks, InLoop
  <1> QED
    BY Zenon, <1>1, <1>2, <1>3, <1>4, <1>5, <1>6, <1>7, <1>8, <1>9, <1>10, <1>11, <1>12,
       <1>13, <1>14,
       <1>15, <1>16, <1>17 DEF Next, vars, enqueue, run_configured_scenario,
       reconcile_on_session_start, transmit

LEMMA SessionsStep == ASSUME SInv, [Next]_vars PROVE SInv'
  BY TypeStep, OneActiveStep, TasksStep, CarriedStep, UnheardStep, FaithfulStep,
     AnswerStep DEF SInv

-----------------------------------------------------------------------------
(* The invariant holds in every reachable state.                             *)
THEOREM SessionsInvariance == Spec => []SInv
  BY SessionsInit, SessionsStep, PTL DEF Spec

(* The types of the directory and of the session tasks, and that the         *)
(* directory lists exactly the sessions between register and unregister.     *)
THEOREM SessionsTypeCorrect == Spec => []TypeOK
  <1>1. SInv => TypeOK
    BY DEF SInv
  <1> QED
    BY <1>1, SessionsInvariance, PTL

(* Without a fault, an InProgress Attempt always has a session whose end     *)
(* makes it uncertain (bind_dispatch_relevant_session, unregister).          *)
THEOREM InProgressIsAnswered == Spec => []InProgressHasSession
  <1>1. SInv => InProgressHasSession
    BY DEF SInv
  <1> QED
    BY <1>1, SessionsInvariance, PTL

(* mark_endpoint_uncertain only touches an Attempt that the ending session   *)
(* carried or confirmed, with or without faults.                             *)
THEOREM MarksAreOfCarriers == Spec => OnlyCarrierMarks
  <1> DEFINE Mark == \A s \in Session, a \in Attempt :
                       /\ phase[s] = "Unregistered" /\ phase'[s] = "Marked"
                       /\ attempt[a] # attempt'[a]
                       => s \in carriers[a]
  <1>1. ASSUME SInv, Next, NEW s \in Session, phase[s] = "Unregistered", phase'[s] = "Marked"
        PROVE  mark_endpoint_uncertain(s) \/ mark_fails(s)
    <2>1. \A x \in Session : \A q : phase' = [phase EXCEPT ![x] = q] =>
            phase'[s] = IF x = s THEN q ELSE phase[s]
      BY Zenon, <1>1 DEF SInv, TypeOK
    <2>2. phase' # phase
      BY <1>1
    <2>3. PICK x \in Session : \/ session_start(x) \/ loop_end(x) \/ dispatch_relevant_action(x)
                              \/ unregister(x) \/ mark_endpoint_uncertain(x) \/ mark_fails(x)
                              \/ session_end(x) \/ server_restart
      BY Zenon, <1>1, <2>2
      DEF Next, commit_dispatch, resolve, enqueue, run_configured_scenario,
          close_indeterminate, reconcile_on_session_start, bind_dispatch_relevant_session,
          transmit, handle_action_ack, CommitInProgress, handle_action_result,
          handle_status_report, handle_cancel_ack, taskVars
    <2>4. ~server_restart
      BY <1>1 DEF server_restart
    <2>5. x = s
      BY Zenon, <1>1, <2>1, <2>3, <2>4
      DEF session_start, loop_end, dispatch_relevant_action, unregister,
          mark_endpoint_uncertain, mark_fails, session_end
    <2>6. QED
      BY Zenon, <1>1, <2>1, <2>3, <2>4, <2>5
      DEF session_start, loop_end, dispatch_relevant_action, unregister, session_end
  <1>2. ASSUME SInv, [Next]_vars PROVE [Mark]_vars
    <2> SUFFICES ASSUME Next, NEW s \in Session, NEW a \in Attempt,
                        phase[s] = "Unregistered", phase'[s] = "Marked", attempt[a] # attempt'[a]
                 PROVE  s \in carriers[a]
      BY <1>2
    <2>1. mark_endpoint_uncertain(s)
      BY <1>1, <1>2 DEF mark_fails
    <2>2. a = captured[s]
      BY Zenon, <1>2, <2>1 DEF mark_endpoint_uncertain, SInv, TypeOK
    <2> QED
      BY <1>2, <2>2 DEF SInv, Carried
  <1> QED
    BY <1>2, SessionsInvariance, PTL DEF Spec, OnlyCarrierMarks
=============================================================================
