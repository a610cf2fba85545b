--------------------------- MODULE Authorization ---------------------------
(***************************************************************************)
(* Transfer authorization: capabilities issued to an Agent over its        *)
(* session, and the proofs that accompany each data-plane request          *)
(* (application/mod.rs TransferAuthorizationService and                    *)
(* ManifestSealService, domain/transfer_authorization.rs, runtime/         *)
(* capability_store.rs, runtime/replay_cache.rs).                          *)
(*                                                                         *)
(* One Transfer of one Endpoint and the Attempt it is bound to: a Transfer *)
(* is never bound to a second one (domain/transfer.rs), so that every      *)
(* capability of the Transfer names this Attempt.  A capability stands for *)
(* its token and its proof key, a proof for its id and its signature; the  *)
(* Agent signs every proof for the capability it presents with it, and the *)
(* network may deliver a request late or twice.  Time is counted in units  *)
(* of which the freshness window has PastWindow.                           *)
(***************************************************************************)
EXTENDS Integers, FiniteSets

CONSTANTS
  Capability, Proof, Request,
  Operation,                  \* the operations the Agent asks for
  MaxTime,                    \* bound on the clock
  PastWindow, FutureSkew,     \* PROOF_FRESHNESS_*_MILLIS
  Ttl,                        \* DEFAULT_CAPABILITY_TTL_MILLIS
  CapabilityCapacity, ReplayCapacity,
  Faults,                     \* the disturbances that can happen
  MaxFaults,                  \* bound on them
  None

ASSUME TimesAssumption ==
  /\ MaxTime \in Nat /\ MaxFaults \in Nat
  /\ PastWindow \in Nat /\ FutureSkew \in Nat /\ Ttl \in Nat
  /\ CapabilityCapacity \in Nat \ {0} /\ ReplayCapacity \in Nat \ {0}
ASSUME NoneAssumption == None \notin Int
ASSUME OperationAssumption ==
  Operation \subseteq {"ChunkUpload", "ResumeDiscovery", "SealManifest"}
ASSUME FaultsAssumption == Faults \subseteq {"Restart", "ClockBack", "Revoke"}

Time == 0..MaxTime

VARIABLES
  clock,      \* SystemClock
  attempt,    \* state of the Transfer's Attempt, "None" before the binding
  artifact,   \* state of the Artifact; a sealed manifest is PendingVerification
  active,     \* the Endpoint's credential is active
  issuing,    \* a TransferAuthorizationRequest whose loaded state allows it
  store,      \* CapabilityStore: the instant each capability expires
  seen,       \* ReplayCache: the instant each entry is valid until
  swept,      \* history: the largest clock reading that was taken to `seen'
  proof,      \* the proofs the Agent made
  req,        \* data-plane requests in progress
  approved,   \* history: the approvals
  faults      \* disturbances so far

durable == <<attempt, artifact, active>>
process == <<issuing, store, seen, swept, req>>
vars == <<clock, durable, process, proof, approved, faults>>

Idle == [at |-> "Idle"]

Init ==
  /\ clock = 0
  /\ attempt = "None" /\ artifact = "Incomplete" /\ active = TRUE
  /\ issuing = FALSE
  /\ store = [c \in Capability |-> None]
  /\ seen = [p \in Proof |-> None]
  /\ swept = 0
  /\ proof = [p \in Proof |-> None]
  /\ req = [r \in Request |-> Idle]
  /\ approved = {}
  /\ faults = 0

Live(f) == {x \in DOMAIN f : f[x] # None}
Fault(kind) == kind \in Faults /\ faults < MaxFaults /\ faults' = faults + 1

-----------------------------------------------------------------------------
\* The clock, and the Transfer as other services change it.

tick ==
  /\ clock < MaxTime /\ clock' = clock + 1
  /\ UNCHANGED <<durable, process, proof, approved, faults>>

\* The system clock is set back.
set_back ==
  /\ Fault("ClockBack") /\ clock > 0 /\ clock' = clock - 1
  /\ UNCHANGED <<durable, process, proof, approved>>

\* The dispatch binds the Transfer, once, to the Attempt it creates.
bind_attempt ==
  /\ attempt = "None" /\ attempt' = "Dispatched"
  /\ UNCHANGED <<clock, artifact, active, process, proof, approved, faults>>

\* The Attempt ends, for good; an Incomplete Artifact may fail with it.
EndAttempt ==
  /\ attempt' = "Ended"
  /\ \/ artifact' = artifact
     \/ artifact = "Incomplete" /\ artifact' = "Failed"

\* ActionAck and ActionResult of the Agent.
apply_action_evidence ==
  /\ \/ attempt = "Dispatched" /\ attempt' = "InProgress" /\ artifact' = artifact
     \/ attempt \in {"Dispatched", "InProgress"} /\ EndAttempt
  /\ UNCHANGED <<clock, active, process, proof, approved, faults>>

\* The session is lost, or bamepd starts again.
mark_awaiting_reconciliation ==
  /\ attempt \in {"Dispatched", "InProgress"}
  /\ attempt' = "AwaitingReconciliation"
  /\ UNCHANGED <<clock, artifact, active, process, proof, approved, faults>>

\* The StatusReport of a later session: the action still runs, or has ended.
apply_status_report ==
  /\ attempt = "AwaitingReconciliation"
  /\ \/ attempt' = "InProgress" /\ artifact' = artifact
     \/ EndAttempt
  /\ UNCHANGED <<clock, active, process, proof, approved, faults>>

verify_artifact ==
  /\ artifact = "PendingVerification" /\ artifact' \in {"Verified", "Failed"}
  /\ UNCHANGED <<clock, attempt, active, process, proof, approved, faults>>

revoke_credential ==
  /\ active /\ Fault("Revoke") /\ active' = FALSE
  /\ UNCHANGED <<clock, attempt, artifact, process, proof, approved>>

\* bamepd restarts with an empty store, an empty cache and no request.
restart ==
  /\ Fault("Restart")
  /\ issuing' = FALSE
  /\ store' = [c \in Capability |-> None]
  /\ seen' = [p \in Proof |-> None] /\ swept' = 0
  /\ req' = [r \in Request |-> Idle]
  /\ UNCHANGED <<clock, durable, proof, approved>>

-----------------------------------------------------------------------------
\* Issuing a capability.

\* TransferAuthorizationRequest: the durable state is loaded and tested ...
load_for_issue ==
  /\ ~issuing /\ issuing' = (attempt = "InProgress" /\ active)
  /\ UNCHANGED <<clock, durable, store, seen, swept, req, proof, approved, faults>>

\* ... and then, whatever has changed since, a fresh capability is stored,
\* unless the store is full of unexpired ones.
issue(c) ==
  /\ issuing /\ issuing' = FALSE
  /\ store[c] = None /\ (\A p \in Live(proof) : proof[p].cap # c)
  /\ LET kept == {d \in Live(store) : store[d] > clock}
     IN store' = [d \in Capability |->
                    IF d = c /\ Cardinality(kept) < CapabilityCapacity THEN clock + Ttl
                    ELSE IF d \in kept THEN store[d] ELSE None]
  /\ UNCHANGED <<clock, durable, seen, swept, req, proof, approved, faults>>

\* The Agent signs a proof with its capability; its clock may be ahead (one
\* that is behind is a proof that arrives later).
create_proof(p, c, op) ==
  /\ proof[p] = None /\ store[c] # None
  /\ \E issued \in clock..(clock + FutureSkew + 1) :
       proof' = [proof EXCEPT ![p] = [cap |-> c, op |-> op, issued |-> issued]]
  /\ UNCHANGED <<clock, durable, process, approved, faults>>

-----------------------------------------------------------------------------
\* Authorizing a request.

capability_is_current(c, now) == now < store[c]

proof_is_fresh(issued, now) ==
  now - issued <= PastWindow /\ now - issued >= -FutureSkew

proof_replay_valid_until(issued) == issued + PastWindow

data_plane_operation_is_current(op) ==
  \/ artifact = "Incomplete"
  \/ artifact = "PendingVerification" /\ op # "ChunkUpload"

\* The Transfer is over: its Attempt has a terminal outcome, the credential
\* is revoked, or the Artifact is terminal.
Over == attempt = "Ended" \/ ~active \/ artifact \in {"Verified", "Failed"}

\* authorize_request, up to the load: the capability is looked up, and the
\* clock read once for every later test.  (`over' is history.)
check_request(r, p) ==
  /\ req[r] = Idle /\ proof[p] # None
  /\ LET c == proof[p].cap
         ok == /\ store[c] # None
               /\ capability_is_current(c, clock)
               /\ proof_is_fresh(proof[p].issued, clock)
     IN req' = [req EXCEPT ![r] =
                  IF ok THEN [at |-> "Checked", proof |-> p, now |-> clock, over |-> Over]
                  ELSE Idle]
  /\ UNCHANGED <<clock, durable, issuing, store, seen, swept, proof, approved, faults>>

At(r, where) == req[r].at = where
ProofOf(r) == proof[req[r].proof]

\* Faulty variant: the capability is taken as evidence that the Attempt runs.
FaultyStateAllows(r) ==
  active /\ data_plane_operation_is_current(ProofOf(r).op)

\* The tests of the loaded state.
state_allows(r) ==
  /\ attempt = "InProgress"
  /\ active
  /\ data_plane_operation_is_current(ProofOf(r).op)

\* The state is loaded in one transaction; no lock outlives it.
load_authorization_state(r) ==
  /\ At(r, "Checked") /\ ProofOf(r).op # "SealManifest"
  /\ req' = [req EXCEPT ![r] =
                IF state_allows(r)
                THEN [at |-> "Loaded", proof |-> @.proof, now |-> @.now, over |-> @.over]
                ELSE Idle]
  /\ UNCHANGED <<clock, durable, issuing, store, seen, swept, proof, approved, faults>>

\* Faulty variant: entries are kept for a window from their acceptance.
FaultyRetained(r) == {q \in Live(seen) : req[r].now <= seen[q] - FutureSkew}

\* The entries that remain when a request that read the clock at `now'
\* enters the cache.
retained(r) == {q \in Live(seen) : req[r].now <= seen[q]}

\* The proof is new, and the cache has room for it.
fits(r) == req[r].proof \notin retained(r) /\ Cardinality(retained(r)) < ReplayCapacity

\* The cache after the request's turn.
check_and_insert(r) ==
  /\ seen' = [q \in Proof |->
                IF q = req[r].proof /\ fits(r)
                THEN proof_replay_valid_until(ProofOf(r).issued)
                ELSE IF q \in retained(r) THEN seen[q] ELSE None]
  /\ swept' = IF req[r].now > swept THEN req[r].now ELSE swept

Approval(r) ==
  [proof |-> req[r].proof, over |-> req[r].over,
   repeated |-> \E a \in approved : a.proof = req[r].proof,
   overtaken |-> swept > proof_replay_valid_until(ProofOf(r).issued)]

Decide(r) ==
  /\ check_and_insert(r)
  /\ approved' = IF fits(r) THEN approved \cup {Approval(r)} ELSE approved

\* The rest of authorize_request: the proof is spent last.
authorize_request(r) ==
  /\ At(r, "Loaded")
  /\ Decide(r)
  /\ req' = [req EXCEPT ![r] = Idle]
  /\ UNCHANGED <<clock, durable, issuing, store, proof, faults>>

\* A seal tests the state and spends the proof under the Transfer's locks.
commit_manifest_seal(r) ==
  /\ At(r, "Checked") /\ ProofOf(r).op = "SealManifest"
  /\ IF state_allows(r)
     THEN /\ Decide(r)
          /\ artifact' \in {artifact, IF fits(r) THEN "PendingVerification" ELSE artifact}
     ELSE UNCHANGED <<seen, swept, approved, artifact>>
  /\ req' = [req EXCEPT ![r] = Idle]
  /\ UNCHANGED <<clock, attempt, active, issuing, store, proof, faults>>

\* What the clock and the other services do.
WorldNext ==
  \/ tick \/ set_back
  \/ bind_attempt \/ apply_action_evidence
  \/ mark_awaiting_reconciliation \/ apply_status_report
  \/ verify_artifact \/ revoke_credential

Next ==
  \/ WorldNext
  \/ restart
  \/ load_for_issue
  \/ \E c \in Capability : issue(c)
  \/ \E p \in Proof, c \in Capability, op \in Operation : create_proof(p, c, op)
  \/ \E r \in Request, p \in Proof : check_request(r, p)
  \/ \E r \in Request :
       load_authorization_state(r) \/ authorize_request(r) \/ commit_manifest_seal(r)

Spec == Init /\ [][Next]_vars

-----------------------------------------------------------------------------
\* A request is delivered twice, slowly, with its clock read before the load
\* and its proof spent after it, and the process may restart or its clock be
\* set back in between: a proof is approved a second time only when, since the
\* last restart, another request that had read the clock past the end of the
\* proof's freshness window entered the replay cache first and removed it.
RepeatOnlyWhenOvertaken ==
  \A a \in approved : a.repeated => a.overtaken

\* A request that arrives after the Attempt's terminal outcome, the revocation
\* of the credential or the end of the Artifact is never approved, although
\* its capability is stored and unexpired, or was stored later by an issue that
\* had loaded the state before, and although an Attempt may go from InProgress
\* to AwaitingReconciliation and back (decide: "a newly terminal Attempt take
\* effect immediately, per-request").
OverIsNeverApproved ==
  \A a \in approved : ~a.over

=============================================================================
