------------------------ MODULE DestructiveGateProofs ------------------------
(***************************************************************************)
(* Proofs about DestructiveGate for any number of Endpoints, Jobs, boots,  *)
(* overlapping authorisations and inventory revisions.                     *)
(*                                                                         *)
(* The argument: revision identifiers only grow, so a revision that was    *)
(* read by an authorisation, or recorded by one, is at most the current    *)
(* one, and once it is below the current one it stays below (Behind).  An  *)
(* intent whose two facts were not current together is behind from the     *)
(* moment it is recorded.  What a dispatch accepted cannot change while it *)
(* holds the row locks (Accepted).                                         *)
(***************************************************************************)
EXTENDS DestructiveGate, TLAPS

\* The time limit of the solver, in seconds, for every leaf that names no other
\* prover.
USE SMTT(60)

Current(j) == inventory[EndpointOf[j]].id

\* The calls under way hold facts that were current when they read them.
CallsBehind ==
  \A k \in Call : call[k].phase # "Idle" =>
    /\ call[k].job \in Job
    /\ call[k].revision \in 1..Current(call[k].job)
    /\ call[k].phase = "Record" =>
         /\ call[k].target \in Target
         /\ call[k].pair = "Torn" => call[k].revision # Current(call[k].job)

\* So do the recorded intents.
IntentsBehind ==
  \A j \in Job : intent[j] # None =>
    /\ intent[j].revision \in 1..Current(j)
    /\ intent[j].pair = "Torn" => intent[j].revision # Current(j) /\ step[j] # "Dispatching"

\* A dispatch that was accepted and has not committed.
Accepted ==
  \A j \in deciding :
    LET x == endpoint[EndpointOf[j]] IN
    /\ step[j] = "PreconditionsSatisfied"
    /\ x # None /\ x.identity = "Enrolled" /\ ~x.revoked /\ x.trusted
    /\ intent[j] # None /\ intent[j].revision = Current(j)

GInv ==
  /\ GateTypeOK
  /\ CallsBehind
  /\ IntentsBehind
  /\ Accepted
  /\ \A j \in Job : step[j] = "Dispatching" => intent[j] # None

-----------------------------------------------------------------------------
\* The invariant holds of the empty tables.
LEMMA GateInit == Init => GInv
  BY JobsAssumption, MaxRevisionsAssumption
  DEF Init, FactsInit, GInv, GateTypeOK, CallsBehind, IntentsBehind, Accepted, Current,
     Idle, Holding

\* A transaction of the Endpoint keeps the types of its facts.
LEMMA TransactionType ==
  ASSUME endpoint \in [Endpoint -> Facts \cup {None}], used \subseteq Context,
         NEW e \in Endpoint, Transaction(e)
  PROVE  /\ endpoint' \in [Endpoint -> Facts \cup {None}]
         /\ used' \subseteq Context
         /\ \A x \in Endpoint \ {e} : endpoint'[x] = endpoint[x]
  <1>1. ASSUME NEW c \in Context, first_contact(e, c)
        PROVE  /\ endpoint' \in [Endpoint -> Facts \cup {None}]
               /\ used' \subseteq Context
               /\ \A x \in Endpoint \ {e} : endpoint'[x] = endpoint[x]
    BY Zenon, <1>1 DEF first_contact, Change, Facts, FactsRecord
  <1>2. ASSUME NEW c \in Context, genuine_reboot(e, c)
        PROVE  /\ endpoint' \in [Endpoint -> Facts \cup {None}]
               /\ used' \subseteq Context
               /\ \A x \in Endpoint \ {e} : endpoint'[x] = endpoint[x]
    BY Zenon, <1>2 DEF genuine_reboot, Change, Facts, FactsRecord
  <1>3. CASE approve_enrollment(e)
    BY Zenon, <1>3 DEF approve_enrollment, Change, Facts, FactsRecord
  <1>4. CASE revoke_credential(e)
    BY Zenon, <1>4 DEF revoke_credential, Change, Facts, FactsRecord
  <1>5. CASE establish_trusted_bootstrap(e)
    BY Zenon, <1>5 DEF establish_trusted_bootstrap, Change, Facts, FactsRecord
  <1> QED
    BY Zenon, <1>1, <1>2, <1>3, <1>4, <1>5 DEF Transaction

\* Time changes no fact but the credential's.
LEMMA ExpiredKeeps ==
  \A x \in Facts : /\ Expired(x) \in Facts
                   /\ Expired(x).identity = x.identity
                   /\ Expired(x).revoked = x.revoked
                   /\ Expired(x).trusted = x.trusted
  BY Zenon DEF Facts, Expired, FactsRecord

\* A step that leaves the tables, the calls and the locks alone.
LEMMA MemoryStep ==
  ASSUME GInv, UNCHANGED <<facts, inventory, call, step, intent, deciding>>,
         target' \in [Endpoint -> Target \cup {None}],
         sessions' \subseteq Endpoint \X Context, present' \subseteq Endpoint \X Context
  PROVE  GInv'
  BY Zenon DEF facts, GInv, GateTypeOK, CallsBehind, IntentsBehind, Accepted, Current

\* What a call may hold.
Calls == [phase : {"Idle", "Target", "Record"}, job : Job \cup {None},
          revision : (1..MaxRevisions) \cup {None},
          target : Target \cup {None}, pair : {"Whole", "Torn"}]

CallBehind(c) ==
  c.phase # "Idle" =>
    /\ c.job \in Job
    /\ c.revision \in 1..Current(c.job)
    /\ c.phase = "Record" =>
         /\ c.target \in Target
         /\ c.pair = "Torn" => c.revision # Current(c.job)

\* A step of one authorisation that only changes the call.
LEMMA CallStep ==
  ASSUME GInv, UNCHANGED <<facts, inventory, memory, step, intent, deciding>>,
         NEW k \in Call, NEW c \in Calls, call' = [call EXCEPT ![k] = c], CallBehind(c)
  PROVE  GInv'
  <1>1. GateTypeOK'
    BY Zenon DEF facts, memory, GInv, GateTypeOK, Calls
  <1>2. call'[k] = c /\ \A q \in Call \ {k} : call'[q] = call[q]
    BY Zenon DEF GInv, GateTypeOK
  <1>3. CallsBehind'
    BY <1>2 DEF GInv, CallsBehind, CallBehind, Current
  <1>4. IntentsBehind' /\ Accepted'
    BY Zenon DEF facts, GInv, IntentsBehind, Accepted, Current
  <1> QED
    BY Zenon, <1>1, <1>3, <1>4 DEF GInv

\* A step that changes facts of Endpoints no dispatch holds locked.
LEMMA FactsStep ==
  ASSUME GInv, UNCHANGED <<inventory, target, present, call, step, intent, deciding>>,
         sessions' \subseteq Endpoint \X Context,
         endpoint' \in [Endpoint -> Facts \cup {None}], used' \subseteq Context,
         \A j \in deciding :
           /\ endpoint'[EndpointOf[j]] # None
           /\ endpoint'[EndpointOf[j]].identity = endpoint[EndpointOf[j]].identity
           /\ endpoint'[EndpointOf[j]].revoked = endpoint[EndpointOf[j]].revoked
           /\ endpoint'[EndpointOf[j]].trusted = endpoint[EndpointOf[j]].trusted
  PROVE  GInv'
  <1>1. GateTypeOK'
    BY Zenon DEF GInv, GateTypeOK
  <1>2. CallsBehind' /\ IntentsBehind'
    BY Zenon DEF GInv, CallsBehind, IntentsBehind, Current
  <1>3. Accepted'
    BY Zenon DEF GInv, Accepted, Current
  <1> QED
    BY Zenon, <1>1, <1>2, <1>3 DEF GInv

LEMMA GateStep == ASSUME GInv, [Next]_vars PROVE GInv'
  <1> USE JobsAssumption, MaxRevisionsAssumption
  <1>1. ASSUME NEW e \in Endpoint, endpoint_transaction(e) PROVE GInv'
    <2>1. Transaction(e) /\ ~Locked(e)
      BY Zenon, <1>1 DEF endpoint_transaction, Transaction
    <2>2. /\ endpoint' \in [Endpoint -> Facts \cup {None}]
          /\ used' \subseteq Context
          /\ \A x \in Endpoint \ {e} : endpoint'[x] = endpoint[x]
      BY Zenon, <2>1, TransactionType DEF GInv, GateTypeOK
    <2>3. \A j \in deciding : EndpointOf[j] \in Endpoint \ {e}
      BY Zenon, <2>1 DEF Locked, GInv, GateTypeOK
    <2>4. sessions' \subseteq Endpoint \X Context
      <3>1. sessions' = sessions \/ \E c \in Context : sessions' = sessions \cup {<<e, c>>}
        BY Zenon, <1>1 DEF endpoint_transaction
      <3> QED
        BY <3>1 DEF GInv, GateTypeOK
    <2> QED
      BY Zenon, <1>1, <2>2, <2>3, <2>4, FactsStep
         DEF endpoint_transaction, durable, GInv, Accepted
  <1>2. ASSUME time_passes PROVE GInv'
    <2>1. PICK S \in SUBSET Endpoint : expire(S)
      BY <1>2 DEF time_passes
    <2>2. endpoint \in [Endpoint -> Facts \cup {None}] /\ used \subseteq Context
      BY Zenon DEF GInv, GateTypeOK
    <2>3. \A e \in S : endpoint[e] \in Facts
      BY Zenon, <2>1, <2>2 DEF expire
    <2>4. \A e \in S : endpoint'[e] = Expired(endpoint[e])
      BY Zenon, <2>1 DEF expire
    <2>6. \A e \in S : /\ endpoint'[e] \in Facts
                       /\ endpoint'[e].identity = endpoint[e].identity
                       /\ endpoint'[e].revoked = endpoint[e].revoked
                       /\ endpoint'[e].trusted = endpoint[e].trusted
      BY Zenon, <2>3, <2>4, ExpiredKeeps
    <2>7. \A e \in Endpoint \ S : endpoint'[e] = endpoint[e]
      BY Zenon, <2>1 DEF expire
    <2>8. endpoint' \in [Endpoint -> Facts \cup {None}] /\ used' \subseteq Context
      BY Zenon, <2>1, <2>2, <2>6, <2>7 DEF expire
    <2>9. \A j \in deciding : endpoint[EndpointOf[j]] # None /\ EndpointOf[j] \in Endpoint
      BY Zenon DEF GInv, Accepted, GateTypeOK
    <2>10. sessions' \subseteq Endpoint \X Context
      BY Zenon, <1>2 DEF time_passes, memory, GInv, GateTypeOK
    <2> QED
      BY Zenon, <1>2, <2>6, <2>7, <2>8, <2>9, <2>10, NoFactsAssumption, FactsStep
      DEF time_passes, durable, memory
  <1>3. ASSUME NEW e \in Endpoint, begin_session(e) PROVE GInv'
    <2>1. endpoint[e].boot \in Context
      BY Zenon, <1>3 DEF begin_session, GInv, GateTypeOK, Facts
    <2> QED
      BY <1>3, <2>1, MemoryStep DEF begin_session, durable, GInv, GateTypeOK
  <1>4. ASSUME NEW e \in Endpoint, NEW c \in Context, register(e, c) \/ unregister(e, c)
        PROVE  GInv'
    BY Zenon, <1>4, MemoryStep DEF register, unregister, durable, GInv, GateTypeOK
  <1>5. ASSUME NEW e \in Endpoint, NEW s \in Snapshot, record_inventory(e, s) PROVE GInv'
    <2>1. /\ inventory'[e] \in [id : 0..MaxRevisions, snapshot : Snapshot \cup {None}]
          /\ inventory'[e].id \in {inventory[e].id, inventory[e].id + 1}
      BY <1>5 DEF record_inventory, record_inventory_on_change, GInv, GateTypeOK
    <2>2. /\ \A x \in Endpoint \ {e} : inventory'[x] = inventory[x]
          /\ inventory' \in [Endpoint -> [id : 0..MaxRevisions, snapshot : Snapshot \cup {None}]]
      BY Zenon, <1>5, <2>1 DEF record_inventory, GInv, GateTypeOK
    <2>3. \A x \in Endpoint : /\ inventory[x].id \in Nat /\ inventory'[x].id \in Nat
                              /\ inventory[x].id <= inventory'[x].id
      BY <2>1, <2>2 DEF GInv, GateTypeOK
    <2>4. GateTypeOK'
      BY Zenon, <1>5, <2>2 DEF record_inventory, GInv, GateTypeOK, facts, memory
    <2>5. \A j \in Job : /\ Current(j) \in Nat /\ Current(j)' \in Nat
                         /\ Current(j) <= Current(j)'
      BY Zenon, <2>3 DEF Current
    <2>6. CallsBehind'
      <3> SUFFICES ASSUME NEW k \in Call, call[k].phase # "Idle"
                   PROVE  /\ call[k].job \in Job
                          /\ call[k].revision \in 1..inventory'[EndpointOf[call[k].job]].id
                          /\ call[k].phase = "Record" =>
                               /\ call[k].target \in Target
                               /\ call[k].pair = "Torn" =>
                                    call[k].revision # inventory'[EndpointOf[call[k].job]].id
        BY Zenon, <1>5 DEF record_inventory, CallsBehind, Current
      <3> QED
        BY <2>3 DEF GInv, CallsBehind, Current
    <2>7. IntentsBehind'
      <3> SUFFICES ASSUME NEW j \in Job, intent[j] # None
                   PROVE  /\ intent[j].revision \in 1..Current(j)'
                          /\ intent[j].pair = "Torn" =>
                               intent[j].revision # Current(j)' /\ step[j] # "Dispatching"
        BY Zenon, <1>5 DEF record_inventory, IntentsBehind, Current
      <3> QED
        BY <2>5 DEF GInv, IntentsBehind
    <2>8. Accepted'
      BY Zenon, <1>5, <2>2
         DEF record_inventory, Locked, GInv, GateTypeOK, Accepted, Current, facts
    <2> QED
      BY Zenon, <1>5, <2>4, <2>6, <2>7, <2>8 DEF record_inventory, GInv
  <1>6. ASSUME NEW e \in Endpoint, NEW t \in Target \cup {None}, set_target(e, t) PROVE GInv'
    BY Zenon, <1>6, MemoryStep DEF set_target, durable, GInv, GateTypeOK
  <1>7. ASSUME NEW k \in Call, NEW j \in Job, find_current_inventory(k, j) PROVE GInv'
    <2> DEFINE c == Holding("Target", j, Current(j), None, "Whole")
    <2>1. Current(j) \in 1..MaxRevisions
      BY <1>7 DEF find_current_inventory, Current, GInv, GateTypeOK
    <2>2. c \in Calls /\ CallBehind(c)
      BY <2>1 DEF Holding, Calls, CallBehind
    <2>3. call' = [call EXCEPT ![k] = c]
      BY Zenon, <1>7 DEF find_current_inventory, Current
    <2> HIDE DEF c
    <2> QED
      BY Zenon, <1>7, <2>2, <2>3, CallStep
         DEF find_current_inventory, facts, durable, memory
  <1>8. ASSUME NEW k \in Call, current_target_fingerprint(k) PROVE GInv'
    <2> DEFINE e == EndpointOf[call[k].job]
    <2>1. /\ call[k].job \in Job /\ e \in Endpoint
          /\ call[k].revision \in 1..Current(call[k].job)
          /\ call[k].revision \in 1..MaxRevisions
      BY <1>8 DEF current_target_fingerprint, Current, GInv, GateTypeOK, CallsBehind
    <2> DEFINE pair == IF inventory[e].id = call[k].revision THEN "Whole" ELSE "Torn"
               held == Holding("Record", call[k].job, call[k].revision, target[e], pair)
               c == IF target[e] = None THEN Idle ELSE held
    <2>2. Idle \in Calls /\ CallBehind(Idle)
      BY Zenon DEF Idle, Holding, Calls, CallBehind
    <2>3. target[e] # None => held \in Calls /\ CallBehind(held)
      BY Zenon, <2>1 DEF Holding, Calls, CallBehind, Current, GInv, GateTypeOK
    <2>4. call' = [call EXCEPT ![k] = c]
      BY Zenon, <1>8 DEF current_target_fingerprint
    <2>5. c \in Calls /\ CallBehind(c)
      BY Zenon, <2>2, <2>3
    <2> HIDE DEF c
    <2> QED
      BY Zenon, <1>8, <2>4, <2>5, CallStep
         DEF current_target_fingerprint, facts, durable, memory
  <1>9. ASSUME NEW k \in Call, authorize_destructive_intent(k) PROVE GInv'
    <2> DEFINE j == call[k].job
    <2>1. j \in Job /\ j \notin deciding
      BY Zenon, <1>9 DEF authorize_destructive_intent, GInv, CallsBehind
    <2>2. call'[k] = Idle /\ \A q \in Call \ {k} : call'[q] = call[q]
      BY Zenon, <1>9 DEF authorize_destructive_intent, GInv, GateTypeOK
    <2> DEFINE x == [revision |-> call[k].revision, target |-> call[k].target,
                     pair |-> call[k].pair]
    <2>3. /\ x \in [revision : 1..MaxRevisions, target : Target, pair : {"Whole", "Torn"}]
          /\ x.revision \in 1..Current(j)
          /\ x.pair = "Torn" => x.revision # Current(j)
      BY <1>9, <2>1
         DEF authorize_destructive_intent, GInv, GateTypeOK, CallsBehind, Current
    <2>4. Idle \in Calls
      BY Zenon DEF Idle, Holding, Calls
    <2>5. \/ intent' = intent
          \/ intent[j] = None /\ step[j] = "Pending" /\ intent' = [intent EXCEPT ![j] = x]
      BY Zenon, <1>9 DEF authorize_destructive_intent, MayAuthorize
    <2> HIDE DEF x
    <2>6. GateTypeOK'
      <3>1. intent' \in [Job -> [revision : 1..MaxRevisions, target : Target,
                                 pair : {"Whole", "Torn"}] \cup {None}]
        BY <2>1, <2>3, <2>5 DEF GInv, GateTypeOK
      <3>2. call' \in [Call -> Calls]
        BY Zenon, <1>9, <2>4 DEF authorize_destructive_intent, GInv, GateTypeOK, Calls
      <3> QED
        BY Zenon, <1>9, <3>1, <3>2
           DEF authorize_destructive_intent, GInv, GateTypeOK, Calls, facts, memory
    <2>7. CallsBehind'
      BY <1>9, <2>2
         DEF authorize_destructive_intent, GInv, CallsBehind, Current, Idle, Holding
    <2>8. \A i \in Job : \/ intent'[i] = intent[i]
                         \/ i = j /\ intent'[i] = x /\ step[i] = "Pending"
      BY Zenon, <2>1, <2>5 DEF GInv, GateTypeOK
    <2>9. IntentsBehind'
      BY <1>9, <2>3, <2>8 DEF authorize_destructive_intent, GInv, IntentsBehind, Current
    <2>10. \A i \in Job : intent[i] # None => intent'[i] = intent[i]
      BY Zenon, <2>1, <2>5 DEF GInv, GateTypeOK
    <2>11. Accepted'
      BY <1>9, <2>10
         DEF authorize_destructive_intent, GInv, GateTypeOK, Accepted, Current, facts
    <2> QED
      BY Zenon, <1>9, <2>6, <2>7, <2>9, <2>10, <2>11
         DEF authorize_destructive_intent, GInv
  <1>10. ASSUME NEW j \in Job, satisfy_current_step_preconditions(j) PROVE GInv'
    <2>1. GateTypeOK'
      BY Zenon, <1>10
         DEF satisfy_current_step_preconditions, GInv, GateTypeOK, facts, memory
    <2> QED
      BY <1>10, <2>1
      DEF satisfy_current_step_preconditions, GInv, GateTypeOK, CallsBehind,
         IntentsBehind,
          Accepted, Current, facts
  <1>11. ASSUME NEW j \in Job, revalidate(j) PROVE GInv'
    <2>1. GateTypeOK'
      <3>1. /\ step' \in [Job -> {"Pending", "PreconditionsSatisfied", "Dispatching"}]
            /\ deciding' \subseteq Job
        BY <1>11 DEF revalidate, GInv, GateTypeOK
      <3>2. \A i, q \in deciding' : EndpointOf[i] = EndpointOf[q] => i = q
        BY <1>11 DEF revalidate, Locked, GInv, GateTypeOK
      <3> QED
        BY Zenon, <1>11, <3>1, <3>2 DEF revalidate, GInv, GateTypeOK, facts, memory
    <2>2. CallsBehind' /\ IntentsBehind'
      BY <1>11 DEF revalidate, GInv, GateTypeOK, CallsBehind, IntentsBehind, Current
    <2>3. Accepted'
      BY <1>11
      DEF revalidate, evaluate_final_destructive_dispatch, GInv, GateTypeOK, Accepted,
         Current, facts
    <2> QED
      BY Zenon, <1>11, <2>1, <2>2, <2>3 DEF revalidate, GInv, GateTypeOK
  <1>12. ASSUME NEW j \in Job, commit_destructive_dispatch(j) PROVE GInv'
    <2>1. GateTypeOK'
      BY Zenon, <1>12 DEF commit_destructive_dispatch, GInv, GateTypeOK, facts, memory
    <2>2. CallsBehind'
      BY Zenon, <1>12 DEF commit_destructive_dispatch, GInv, CallsBehind, Current
    <2>3. IntentsBehind'
      BY <1>12
         DEF commit_destructive_dispatch, GInv, GateTypeOK, IntentsBehind, Accepted,
            Current
    <2>4. Accepted'
      BY <1>12 DEF commit_destructive_dispatch, GInv, GateTypeOK, Accepted, Current, facts
    <2> QED
      BY <1>12, <2>1, <2>2, <2>3, <2>4
         DEF commit_destructive_dispatch, GInv, GateTypeOK, Accepted
  <1>13. ASSUME restart PROVE GInv'
    BY Zenon, <1>13
    DEF restart, Idle, Holding, durable, GInv, GateTypeOK, CallsBehind, IntentsBehind,
       Accepted, Current, facts
  <1>14. CASE UNCHANGED vars
    BY Zenon, <1>14
       DEF vars, facts, GInv, GateTypeOK, CallsBehind, IntentsBehind, Accepted, Current
  <1> QED
    BY Zenon, <1>1, <1>2, <1>3, <1>4, <1>5, <1>6, <1>7, <1>8, <1>9, <1>10, <1>11, <1>12,
       <1>13, <1>14
    DEF Next

-----------------------------------------------------------------------------
(* The invariant holds in every reachable state.                             *)
THEOREM GateInvariance == GateSpec => []GInv
  BY GateInit, GateStep, PTL DEF GateSpec

(* The types of the rows, the registries and the calls, and that one         *)
(* dispatch at a time holds the row lock of an Endpoint.                     *)
THEOREM GateTypeCorrect == GateSpec => []GateTypeOK
  <1>1. GInv => GateTypeOK
    BY DEF GInv
  <1> QED
    BY <1>1, GateInvariance, PTL

(* An intent whose inventory and target DestructiveIntentService::authorize  *)
(* read at different revisions is never dispatched.                          *)
THEOREM TornIsNeverDispatched == GateSpec => []NoTornDispatch
  <1>1. GInv => NoTornDispatch
    BY Zenon DEF GInv, GateTypeOK, IntentsBehind, NoTornDispatch
  <1> QED
    BY <1>1, GateInvariance, PTL

(* What evaluate_final_destructive_dispatch accepted is still so when        *)
(* commit_destructive_dispatch commits the Attempt.                          *)
THEOREM CommitsAreGated == GateSpec => CommitIsGated
  <1> DEFINE Gated == \A j \in Job : step[j] # "Dispatching" /\ step'[j] = "Dispatching" =>
               LET x == endpoint[EndpointOf[j]] IN
               /\ x # None /\ x.identity = "Enrolled" /\ ~x.revoked /\ x.trusted
               /\ intent[j] # None /\ intent[j].revision = inventory[EndpointOf[j]].id
  <1>1. GInv /\ [Next]_vars => [Gated]_vars
    <2> SUFFICES ASSUME GInv, Next, NEW j \in Job, step[j] # "Dispatching", step'[j] = "Dispatching"
                 PROVE  j \in deciding
      BY Zenon DEF GInv, Accepted, Current
    <2> QED
      BY Zenon
         DEF Next, endpoint_transaction, time_passes, begin_session, register,
            unregister,
            record_inventory,
             set_target, find_current_inventory, current_target_fingerprint,
             authorize_destructive_intent, satisfy_current_step_preconditions, revalidate,
             commit_destructive_dispatch, restart, durable, GInv, GateTypeOK
  <1> QED
    BY <1>1, GateInvariance, PTL DEF GateSpec, CommitIsGated

(* A JobStep whose authorised inventory revision is no longer the Endpoint's *)
(* is never dispatched: no intent is refreshed and no revision returns.      *)
THEOREM StaleStaysDead == GateSpec => StaleIntentIsDead
  <1> USE JobsAssumption
  <1> DEFINE Dead == \A j \in Job : Stale(j) /\ step[j] # "Dispatching" =>
                       Stale(j)' /\ step'[j] # "Dispatching"
  <1>1. ASSUME GInv, Next PROVE \A j \in Job : step'[j] = "Dispatching" =>
                                  step[j] = "Dispatching" \/ j \in deciding
    BY Zenon, <1>1
       DEF Next, endpoint_transaction, time_passes, begin_session, register,
            unregister,
          record_inventory,
           set_target, find_current_inventory, current_target_fingerprint,
           authorize_destructive_intent, satisfy_current_step_preconditions, revalidate,
           commit_destructive_dispatch, restart, durable, GInv, GateTypeOK
  <1>2. ASSUME GInv, Next PROVE \A j \in Job : intent[j] # None => intent'[j] = intent[j]
    BY Zenon, <1>2
       DEF Next, endpoint_transaction, time_passes, begin_session, register,
            unregister,
          record_inventory,
           set_target, find_current_inventory, current_target_fingerprint, MayAuthorize,
           authorize_destructive_intent, satisfy_current_step_preconditions, revalidate,
           commit_destructive_dispatch, restart, durable, GInv, GateTypeOK, CallsBehind
  <1>3. ASSUME GInv, Next PROVE \A e \in Endpoint : inventory[e].id <= inventory'[e].id
    <2>1. \/ inventory' = inventory
          \/ \E e \in Endpoint, s \in Snapshot : record_inventory(e, s)
      BY Zenon, <1>3 DEF Next, endpoint_transaction, time_passes, begin_session, register,
            unregister,
             set_target, find_current_inventory, current_target_fingerprint,
             authorize_destructive_intent, satisfy_current_step_preconditions, revalidate,
             commit_destructive_dispatch, restart, durable
    <2>2. \A e \in Endpoint : inventory[e].id \in Nat
      BY <1>3 DEF GInv, GateTypeOK
    <2>3. ASSUME NEW e \in Endpoint, NEW s \in Snapshot, record_inventory(e, s)
          PROVE  \A x \in Endpoint : inventory[x].id <= inventory'[x].id
      <3>1. inventory \in [Endpoint -> [id : 0..MaxRevisions, snapshot : Snapshot \cup {None}]]
        BY Zenon, <1>3 DEF GInv, GateTypeOK
      <3>2. /\ inventory'[e].id \in {inventory[e].id, inventory[e].id + 1}
            /\ \A x \in Endpoint \ {e} : inventory'[x] = inventory[x]
        BY Zenon, <2>3, <3>1 DEF record_inventory, record_inventory_on_change
      <3>3. ASSUME NEW x \in Endpoint PROVE inventory[x].id <= inventory'[x].id
        <4>1. CASE x = e
          BY <2>2, <3>2, <4>1
        <4>2. CASE x # e
          BY <2>2, <3>2, <4>2
        <4> QED
          BY <4>1, <4>2
      <3> QED
        BY Zenon, <3>3
    <2> QED
      BY <2>1, <2>2, <2>3
  <1>4. GInv /\ [Next]_vars => [Dead]_vars
    <2> SUFFICES ASSUME GInv, Next, NEW j \in Job, Stale(j), step[j] # "Dispatching"
                 PROVE  Stale(j)' /\ step'[j] # "Dispatching"
      BY Zenon
    <2>1. j \notin deciding
      BY Zenon DEF GInv, Accepted, Stale, Current
    <2>2. intent[j].revision < Current(j) /\ intent[j].revision \in Nat /\ Current(j) \in Nat
      <3>1. Current(j) \in Nat
        BY DEF GInv, GateTypeOK, Current
      <3>2. intent[j].revision \in 1..Current(j) /\ intent[j].revision # Current(j)
        BY Zenon DEF GInv, IntentsBehind, Stale, Current
      <3> QED
        BY <3>1, <3>2
    <2>3. EndpointOf[j] \in Endpoint /\ inventory'[EndpointOf[j]].id >= Current(j)
      BY Zenon, <1>3 DEF Current
    <2>4. inventory'[EndpointOf[j]].id \in Nat
      <3>1. GInv'
        BY GateStep
      <3> QED
        BY <3>1 DEF GInv, GateTypeOK
    <2>5. intent'[j] = intent[j] /\ intent[j] # None
      BY Zenon, <1>2 DEF Stale
    <2> QED
      BY <1>1, <2>1, <2>2, <2>3, <2>4, <2>5 DEF Stale
  <1> QED
    BY <1>4, GateInvariance, PTL DEF GateSpec, StaleIntentIsDead

=============================================================================
