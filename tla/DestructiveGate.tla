--------------------------- MODULE DestructiveGate ---------------------------
(***************************************************************************)
(* The last gate before a destructive action: the facts an operator's      *)
(* DestructiveIntent was recorded from, and their revalidation under the   *)
(* row locks of the dispatch transaction.                                  *)
(*                                                                         *)
(* DestructiveIntentService::authorize reads the inventory and the target  *)
(* one after the other, without a lock, and then records the intent in a   *)
(* transaction; authorisations, inventory reports, reboots, revocations    *)
(* and sessions run between its reads.  FinalDispatchService decides under *)
(* the locks of the Job and of the Endpoint and commits in a later step.   *)
(* Presence and the target are process memory: no lock covers them.        *)
(*                                                                         *)
(* Each Job is Running and has one JobStep; the rest of its lifecycle, the *)
(* other steps and the resource reservation are JobLifecycle's.            *)
(* hardware_confidence is Consistent for every Endpoint the code creates.  *)
(***************************************************************************)
EXTENDS EndpointFacts, Naturals

CONSTANTS Job, EndpointOf, Call, Snapshot, Target,
          MaxRevisions  \* bound on the inventory revisions of an Endpoint

ASSUME JobsAssumption == EndpointOf \in [Job -> Endpoint]
ASSUME MaxRevisionsAssumption == MaxRevisions \in Nat

VARIABLES
  inventory,  \* endpoints.current_inventory_revision_id and its revision
  target,     \* the target revalidation port's fingerprint, or None
  sessions,   \* the authenticated sessions <<Endpoint, boot>>
  present,    \* PresenceRegistry: those of them that are registered
  call,       \* the calls of DestructiveIntentService::authorize
  step,       \* job_steps.state
  intent,     \* job_steps' destructive_intent, or None
  deciding    \* the Jobs whose dispatch transaction holds its locks, accepted

memory == <<target, sessions, present>>
durable == <<inventory, step, intent>>
vars == <<facts, inventory, target, sessions, present, call, step, intent, deciding>>

\* A call of authorize and what it has read.
Holding(phase, job, revision, fingerprint, pair) ==
  [phase |-> phase, job |-> job, revision |-> revision, target |-> fingerprint, pair |-> pair]

Idle == Holding("Idle", None, None, None, "Whole")

Init ==
  /\ FactsInit
  /\ inventory = [e \in Endpoint |-> [id |-> 0, snapshot |-> None]]
  /\ target = [e \in Endpoint |-> None]
  /\ sessions = {} /\ present = {}
  /\ call = [k \in Call |-> Idle]
  /\ step = [j \in Job |-> "Pending"]
  /\ intent = [j \in Job |-> None]
  /\ deciding = {}

Locked(e) == \E j \in deciding : EndpointOf[j] = e

-----------------------------------------------------------------------------
(* The Endpoint, its sessions and its reports.                               *)

endpoint_transaction(e) ==
  /\ ~Locked(e)
  /\ \/ \E c \in Context :
          /\ first_contact(e, c) \/ genuine_reboot(e, c)
          /\ sessions' = sessions \cup {<<e, c>>}
     \/ /\ \/ approve_enrollment(e)
           \/ revoke_credential(e)
           \/ /\ endpoint[e] # None /\ <<e, endpoint[e].boot>> \in present
              /\ establish_trusted_bootstrap(e)
        /\ UNCHANGED sessions
  /\ UNCHANGED <<durable, target, present, call, deciding>>

time_passes ==
  /\ \E S \in SUBSET Endpoint : expire(S)
  /\ UNCHANGED <<durable, memory, call, deciding>>

\* A session presents a valid credential of the Endpoint's current boot.
begin_session(e) ==
  /\ endpoint[e] # None /\ endpoint[e].live /\ ~endpoint[e].revoked
  /\ sessions' = sessions \cup {<<e, endpoint[e].boot>>}
  /\ UNCHANGED <<facts, durable, target, present, call, deciding>>

\* Its task registers it later, whatever has become of its boot and its
\* credential since, and it stays until its connection ends.
register(e, c) ==
  /\ <<e, c>> \in sessions
  /\ present' = present \cup {<<e, c>>}
  /\ UNCHANGED <<facts, durable, target, sessions, call, deciding>>

unregister(e, c) ==
  /\ present' = present \ {<<e, c>>}
  /\ UNCHANGED <<facts, durable, target, sessions, call, deciding>>

is_present(e) == \E c \in Context : <<e, c>> \in present

\* Every change is a new revision, also the return to an older snapshot.
record_inventory_on_change(old, new) ==
  IF old.snapshot = new THEN old ELSE [id |-> old.id + 1, snapshot |-> new]

\* Faulty variant: the Endpoint is read without FOR UPDATE.
FaultyRecordInventory(e, s) ==
  /\ is_present(e)
  /\ inventory[e].id < MaxRevisions
  /\ inventory' = [inventory EXCEPT ![e] = record_inventory_on_change(inventory[e], s)]
  /\ UNCHANGED <<facts, memory, call, step, intent, deciding>>

record_inventory(e, s) ==
  /\ is_present(e)
  /\ inventory[e].id < MaxRevisions
  /\ ~Locked(e)
  /\ inventory' = [inventory EXCEPT ![e] = record_inventory_on_change(inventory[e], s)]
  /\ UNCHANGED <<facts, memory, call, step, intent, deciding>>

\* set and clear of the target revalidation port.
set_target(e, t) ==
  /\ target' = [target EXCEPT ![e] = t]
  /\ UNCHANGED <<facts, durable, sessions, present, call, deciding>>

-----------------------------------------------------------------------------
(* DestructiveIntentService::authorize.                                      *)

find_current_inventory(k, j) ==
  LET e == EndpointOf[j] IN
  /\ call[k].phase = "Idle"
  /\ inventory[e].id > 0
  /\ call' = [call EXCEPT ![k] = Holding("Target", j, inventory[e].id, None, "Whole")]
  /\ UNCHANGED <<facts, durable, memory, deciding>>

\* `pair' remembers whether the two facts were current together.
current_target_fingerprint(k) ==
  LET e == EndpointOf[call[k].job] IN
  /\ call[k].phase = "Target"
  /\ call' = [call EXCEPT ![k] =
       IF target[e] = None THEN Idle
       ELSE Holding("Record", call[k].job, call[k].revision, target[e],
                    IF inventory[e].id = call[k].revision THEN "Whole" ELSE "Torn")]
  /\ UNCHANGED <<facts, durable, memory, deciding>>

\* NotEligible and AlreadyAuthorized.
MayAuthorize(j) == step[j] = "Pending" /\ intent[j] = None

authorize_destructive_intent(k) ==
  LET j == call[k].job IN
  /\ call[k].phase = "Record"
  /\ j \notin deciding
  /\ intent' = IF MayAuthorize(j)
               THEN [intent EXCEPT ![j] = [revision |-> call[k].revision,
                                           target |-> call[k].target, pair |-> call[k].pair]]
               ELSE intent
  /\ call' = [call EXCEPT ![k] = Idle]
  /\ UNCHANGED <<facts, inventory, memory, step, deciding>>

-----------------------------------------------------------------------------
(* JobSchedulingService and FinalDispatchService.                            *)

satisfy_current_step_preconditions(j) ==
  /\ j \notin deciding
  /\ step[j] = "Pending"
  /\ step' = [step EXCEPT ![j] = "PreconditionsSatisfied"]
  /\ UNCHANGED <<facts, inventory, memory, call, intent, deciding>>

\* Faulty variant: the current inventory revision is not compared.
FaultyEvaluate(j) ==
  LET e == EndpointOf[j] IN
  /\ intent[j] # None
  /\ endpoint[e] # None /\ endpoint[e].identity = "Enrolled"
  /\ ~endpoint[e].revoked /\ endpoint[e].live
  /\ is_present(e)
  /\ intent[j].target = target[e]
  /\ endpoint[e].trusted

\* The seven independent preconditions.
evaluate_final_destructive_dispatch(j) ==
  LET e == EndpointOf[j] IN
  /\ intent[j] # None
  /\ endpoint[e] # None /\ endpoint[e].identity = "Enrolled"
  /\ ~endpoint[e].revoked /\ endpoint[e].live
  /\ is_present(e)
  /\ intent[j].revision = inventory[e].id
  /\ intent[j].target = target[e]
  /\ endpoint[e].trusted

\* The locks are taken and the Domain decides.  A denial returns the JobStep
\* to Pending and commits; an acceptance goes on to its statements.
revalidate(j) ==
  /\ step[j] = "PreconditionsSatisfied"
  /\ j \notin deciding
  /\ ~Locked(EndpointOf[j])
  /\ IF evaluate_final_destructive_dispatch(j)
     THEN deciding' = deciding \cup {j} /\ UNCHANGED step
     ELSE step' = [step EXCEPT ![j] = "Pending"] /\ UNCHANGED deciding
  /\ UNCHANGED <<facts, inventory, memory, call, intent>>

\* The step, the Attempt and the audit record commit, or the transaction
\* fails and rolls back.
commit_destructive_dispatch(j) ==
  /\ j \in deciding
  /\ deciding' = deciding \ {j}
  /\ step' \in {step, [step EXCEPT ![j] = "Dispatching"]}
  /\ UNCHANGED <<facts, inventory, memory, call, intent>>

\* The Server stops: transactions roll back, memory is lost.
restart ==
  /\ target' = [e \in Endpoint |-> None]
  /\ sessions' = {} /\ present' = {}
  /\ call' = [k \in Call |-> Idle]
  /\ deciding' = {}
  /\ UNCHANGED <<facts, durable>>

Next ==
  \/ \E e \in Endpoint : endpoint_transaction(e) \/ begin_session(e)
  \/ time_passes
  \/ \E e \in Endpoint, c \in Context : register(e, c) \/ unregister(e, c)
  \/ \E e \in Endpoint, s \in Snapshot : record_inventory(e, s)
  \/ \E e \in Endpoint, t \in Target \cup {None} : set_target(e, t)
  \/ \E k \in Call, j \in Job : find_current_inventory(k, j)
  \/ \E k \in Call : current_target_fingerprint(k) \/ authorize_destructive_intent(k)
  \/ \E j \in Job : \/ satisfy_current_step_preconditions(j)
                    \/ revalidate(j)
                    \/ commit_destructive_dispatch(j)
  \/ restart

GateSpec == Init /\ [][Next]_vars

-----------------------------------------------------------------------------
(* Every variable has its type, and one dispatch at a time holds an          *)
(* Endpoint's lock.                                                          *)
GateTypeOK ==
  /\ endpoint \in [Endpoint -> Facts \cup {None}]
  /\ used \subseteq Context
  /\ inventory \in [Endpoint -> [id : 0..MaxRevisions, snapshot : Snapshot \cup {None}]]
  /\ target \in [Endpoint -> Target \cup {None}]
  /\ sessions \subseteq Endpoint \X Context /\ present \subseteq Endpoint \X Context
  /\ call \in [Call -> [phase : {"Idle", "Target", "Record"}, job : Job \cup {None},
                        revision : (1..MaxRevisions) \cup {None},
                        target : Target \cup {None}, pair : {"Whole", "Torn"}]]
  /\ step \in [Job -> {"Pending", "PreconditionsSatisfied", "Dispatching"}]
  /\ intent \in [Job -> [revision : 1..MaxRevisions, target : Target,
                         pair : {"Whole", "Torn"}] \cup {None}]
  /\ deciding \subseteq Job
  /\ \A i, j \in deciding : EndpointOf[i] = EndpointOf[j] => i = j

(* What the Domain decided from the locked rows is still true when the       *)
(* dispatch commits: the Endpoint is Enrolled, not revoked, in a trusted     *)
(* boot, and its current inventory revision is the authorised one, although  *)
(* reboots, revocations and inventory reports arrive in between              *)
(* (commit_destructive_dispatch locks the Endpoint before it reads).         *)
CommitIsGated ==
  [][\A j \in Job : step[j] # "Dispatching" /\ step'[j] = "Dispatching" =>
       LET x == endpoint[EndpointOf[j]] IN
       /\ x # None /\ x.identity = "Enrolled" /\ ~x.revoked /\ x.trusted
       /\ intent[j] # None /\ intent[j].revision = inventory[EndpointOf[j]].id]_vars

(* An intent recorded from an inventory and a target that were never current *)
(* together, because the inventory changed between the two unlocked reads of *)
(* DestructiveIntentService::authorize, is never dispatched.                 *)
NoTornDispatch == \A j \in Job : step[j] = "Dispatching" => intent[j].pair = "Whole"

\* The authorised revision is no longer the Endpoint's.
Stale(j) == intent[j] # None /\ intent[j].revision # inventory[EndpointOf[j]].id

(* An intent is never refreshed and a revision never returns: a JobStep      *)
(* whose authorised inventory has changed before its dispatch is committed   *)
(* is never dispatched, even if the hardware goes back to what it was, and   *)
(* whatever authorisations are still under way.                              *)
StaleIntentIsDead ==
  [][\A j \in Job : Stale(j) /\ step[j] # "Dispatching" =>
       Stale(j)' /\ step'[j] # "Dispatching"]_vars

=============================================================================
