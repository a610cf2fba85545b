------------------------------ MODULE Identity ------------------------------
(***************************************************************************)
(* Endpoint identity: boot-scoped enrolment credentials, the credential    *)
(* chain and its rotation, genuine reboots, revocation, operator approval  *)
(* and trusted-bootstrap evidence.                                         *)
(*                                                                         *)
(* A redemption (EnrollmentService::redeem) is modelled statement by       *)
(* statement, because its four statements see different database           *)
(* snapshots: an unlocked lookup, a FOR UPDATE of the BootContext, an      *)
(* advisory lock on the inventory signal, and a FOR UPDATE of the          *)
(* Endpoint.  The last one locks the endpoints and endpoint_credentials    *)
(* rows but also joins endpoint_credential_lookups, which it does not      *)
(* lock: after a wait, READ COMMITTED re-reads the locked rows only, so    *)
(* the lookup identifiers are those of the statement's snapshot.  Every    *)
(* other transaction takes one Endpoint lock and is one action.            *)
(*                                                                         *)
(* A credential is [boot, n]: n = 0 is the enrolment credential of the     *)
(* BootContext "boot", n > 0 a runtime credential.  The boot of a runtime  *)
(* credential is the one whose credential was redeemed for it; no decision *)
(* of the code reads it.  A boot's nonce is identified with its context.   *)
(***************************************************************************)
EXTENDS Naturals, FiniteSets

CONSTANTS Context, Signal, Endpoint, Request,
          EnrollmentTtl, CredentialTtl,
          MaxTime,    \* bound on the clock
          MaxMinted,  \* bound on the runtime credentials ever minted
          Faults,     \* a subset of {"Restart", "Abort", "LostAnswer"}
          MaxFaults,  \* bound on the faults that happen
          None        \* Option::None

ASSUME TtlAssumption == EnrollmentTtl \in Nat \ {0} /\ CredentialTtl \in Nat \ {0}
ASSUME MaxTimeAssumption == MaxTime \in Nat
ASSUME FaultsAssumption == Faults \subseteq {"Restart", "Abort", "LostAnswer"}

VARIABLES
  clock,
  context,   \* boot_contexts: None or [signal, expires, resolved]
  row,       \* endpoints and endpoint_credentials, one row per Endpoint
  lookups,   \* endpoint_credential_lookups, one pair per Endpoint
  minted,    \* the runtime credentials minted so far
  tx,        \* the redemption each connection is running
  boot,      \* the boot each machine is in
  known,     \* the credentials the Agent of that boot holds
  sessions,  \* the sessions that may still deliver messages: <<Endpoint, boot>>
  evidence,  \* the boots whose bootstrap evidence was ever delivered
  faults

vars == <<clock, context, row, lookups, minted, tx, boot, known, sessions, evidence, faults>>
durable == <<context, row, lookups, minted>>

Credential == [boot : Context, n : Nat]
BootContext == [signal : Signal, expires : Nat, resolved : Endpoint \cup {None}]
Slots == [pred : Credential, succ : Credential]
Row == [signal : Signal, identity : {"PendingEnrollment", "Enrolled"},
        pred : Credential, succ : Credential, predExpires : Nat, succExpires : Nat,
        revoked : BOOLEAN, boot : Context, trusted : BOOLEAN]

Redemption ==
  [phase : {"Idle", "Lookup", "Context", "Signal", "Candidate", "Load", "Lock", "Decide",
            "Established", "Rejected", "Backend"},
   cred : Credential \cup {None}, holdsContext : BOOLEAN, holdsSignal : BOOLEAN,
   endpoint : Endpoint \cup {None}, snapshot : Slots \cup {None},
   issued : Credential \cup {None}]

ASSUME NoneAssumption ==
  /\ None \notin Context \cup Endpoint
  /\ None \notin Credential
  /\ None \notin BootContext
  /\ None \notin Slots
  /\ None \notin Row

\* A redemption in its transaction, with the locks it holds and what it has read,
Working(phase, cred, holdsContext, holdsSignal, e, snapshot) ==
  [phase |-> phase, cred |-> cred, holdsContext |-> holdsContext, holdsSignal |-> holdsSignal,
   endpoint |-> e, snapshot |-> snapshot, issued |-> None]

\* and one whose transaction has ended, by commit or rollback, and its locks with it.
Ended(phase, cred, e, issued) ==
  [phase |-> phase, cred |-> cred, holdsContext |-> FALSE, holdsSignal |-> FALSE,
   endpoint |-> e, snapshot |-> None, issued |-> issued]

Idle == Ended("Idle", None, None, None)

Init ==
  /\ clock = 0
  /\ context = [c \in Context |-> None]
  /\ row = [e \in Endpoint |-> None]
  /\ lookups = [e \in Endpoint |-> None]
  /\ minted = 0
  /\ tx = [r \in Request |-> Idle]
  /\ boot = [s \in Signal |-> None]
  /\ known = [s \in Signal |-> {}]
  /\ sessions = {}
  /\ evidence = {}
  /\ faults = 0

Fault(kind) ==
  /\ kind \in Faults
  /\ faults < MaxFaults
  /\ faults' = faults + 1

tick ==
  /\ clock < MaxTime
  /\ clock' = clock + 1
  /\ UNCHANGED <<durable, tx, boot, known, sessions, evidence, faults>>

-----------------------------------------------------------------------------
(* The machine and its Agent. *)

\* BootOrchestrationService: the BootContext is inserted before the boot gets
\* its credential.  The Agent of the previous boot loses what it held; its
\* requests and sessions may still be under way at the Server.
issue_enrollment_credential(c, s) ==
  /\ context[c] = None
  /\ context' = [context EXCEPT ![c] =
       [signal |-> s, expires |-> clock + EnrollmentTtl, resolved |-> None]]
  /\ boot' = [boot EXCEPT ![s] = c]
  /\ known' = [known EXCEPT ![s] = {[boot |-> c, n |-> 0]}]
  /\ UNCHANGED <<clock, row, lookups, minted, tx, sessions, evidence, faults>>

Running == {r \in Request : tx[r].phase # "Idle"}

\* The Agent presents a credential it holds, on a new connection.
authenticate_request(r, s) ==
  /\ tx[r].phase = "Idle"
  /\ minted + Cardinality(Running) < MaxMinted
  /\ \E cred \in known[s] :
       tx' = [tx EXCEPT ![r] = Working("Lookup", cred, FALSE, FALSE, None, None)]
  /\ UNCHANGED <<clock, durable, boot, known, sessions, evidence, faults>>

-----------------------------------------------------------------------------
(* The Domain decisions. *)

\* CredentialSlot::matches: lookup identifier, secret and expiry.
matches(cred, lookup, secret, expires) ==
  lookup = cred /\ secret = cred /\ clock < expires

\* Faulty variant: the lookup identifier alone decides.
FaultyAuthenticate(x, l, cred) ==
  IF x.revoked THEN "Rejected"
  ELSE IF l.pred = cred /\ clock < x.predExpires THEN "Predecessor"
  ELSE IF l.succ = cred /\ clock < x.succExpires THEN "Successor"
  ELSE "Rejected"

authenticate(x, l, cred) ==
  IF x.revoked THEN "Rejected"
  ELSE IF matches(cred, l.pred, x.pred, x.predExpires) THEN "Predecessor"
  ELSE IF matches(cred, l.succ, x.succ, x.succExpires) THEN "Successor"
  ELSE "Rejected"

Fresh(cred) == [boot |-> cred.boot, n |-> minted + 1]

\* Faulty variant: the predecessor stops being valid when its successor is issued.
FaultyRedeemKnown(x, slot, cred) ==
  [x EXCEPT !.pred = Fresh(cred), !.predExpires = clock + CredentialTtl,
            !.succ = Fresh(cred), !.succExpires = clock + CredentialTtl]

\* Faulty variant: a reconnect starts the boot's trust over.
FaultyReconnect(x, slot, cred) ==
  [x EXCEPT !.pred = cred,
            !.predExpires = IF slot = "Successor" THEN x.succExpires ELSE x.predExpires,
            !.succ = Fresh(cred), !.succExpires = clock + CredentialTtl,
            !.trusted = FALSE]

redeem_known(x, slot, cred) ==
  [signal |-> x.signal, identity |-> x.identity, pred |-> cred, succ |-> Fresh(cred),
   predExpires |-> IF slot = "Successor" THEN x.succExpires ELSE x.predExpires,
   succExpires |-> clock + CredentialTtl,
   revoked |-> x.revoked, boot |-> x.boot, trusted |-> x.trusted]

boot_context_credential_is_valid(cred) ==
  /\ cred.n = 0
  /\ clock < context[cred.boot].expires

first_contact(cred) ==
  [signal |-> context[cred.boot].signal, identity |-> "PendingEnrollment",
   pred |-> cred, succ |-> Fresh(cred),
   predExpires |-> clock + CredentialTtl, succExpires |-> clock + CredentialTtl,
   revoked |-> FALSE, boot |-> cred.boot, trusted |-> FALSE]

\* Faulty variant: the reboot only replaces the successor of the old chain.
FaultyReboot(x, cred) ==
  [x EXCEPT !.succ = Fresh(cred), !.succExpires = clock + CredentialTtl,
            !.boot = cred.boot, !.trusted = FALSE]

genuine_reboot(x, cred) ==
  [signal |-> x.signal, identity |-> x.identity, pred |-> cred, succ |-> Fresh(cred),
   predExpires |-> clock + CredentialTtl, succExpires |-> clock + CredentialTtl,
   revoked |-> x.revoked, boot |-> cred.boot, trusted |-> FALSE]

MayReboot(x, cred) ==
  /\ context[cred.boot].resolved = None
  /\ boot_context_credential_is_valid(cred)
  /\ ~x.revoked

-----------------------------------------------------------------------------
(* The statements of PostgresCredentialRedemptionRepository::redeem. *)

EndpointLocked(e) == \E r \in Request : tx[r].phase = "Decide" /\ tx[r].endpoint = e

Owner(cred) == {e \in Endpoint : lookups[e] # None /\ cred \in {lookups[e].pred, lookups[e].succ}}

\* The transaction goes on to its next statement.
Continue(r, phase, holdsContext, holdsSignal, e, snapshot) ==
  tx' = [tx EXCEPT ![r] = Working(phase, tx[r].cred, holdsContext, holdsSignal, e, snapshot)]

End(r, phase, e, issued) == tx' = [tx EXCEPT ![r] = Ended(phase, tx[r].cred, e, issued)]

\* The unlocked SELECT of endpoint_credential_lookups.
route(r) ==
  /\ tx[r].phase = "Lookup"
  /\ \/ \E e \in Owner(tx[r].cred) : Continue(r, "Load", FALSE, FALSE, e, None)
     \/ /\ Owner(tx[r].cred) = {}
        /\ IF tx[r].cred.n > 0 THEN End(r, "Rejected", None, None)
           ELSE Continue(r, "Context", FALSE, FALSE, None, None)
  /\ UNCHANGED <<clock, durable, boot, known, sessions, evidence, faults>>

load_boot_context_for_update(r) ==
  LET c == tx[r].cred.boot IN
  /\ tx[r].phase = "Context"
  /\ \A q \in Request \ {r} : ~(tx[q].holdsContext /\ tx[q].cred.boot = c)
  /\ Continue(r, IF context[c].resolved = None THEN "Signal" ELSE "Load",
              TRUE, FALSE, context[c].resolved, None)
  /\ UNCHANGED <<clock, durable, boot, known, sessions, evidence, faults>>

SignalOf(r) == context[tx[r].cred.boot].signal

\* pg_advisory_xact_lock on the context's inventory signal.
lock_signal(r) ==
  /\ tx[r].phase = "Signal"
  /\ \A q \in Request \ {r} : ~(tx[q].holdsSignal /\ SignalOf(q) = SignalOf(r))
  /\ Continue(r, "Candidate", TRUE, TRUE, None, None)
  /\ UNCHANGED <<clock, durable, boot, known, sessions, evidence, faults>>

HasSignal(s) == {e \in Endpoint : row[e] # None /\ row[e].signal = s}

\* load_by_signal_for_update takes its snapshot: no row, or the row to lock.
load_by_signal(r) ==
  LET found == HasSignal(SignalOf(r)) IN
  /\ tx[r].phase = "Candidate"
  /\ \/ found = {} /\ Continue(r, "Decide", TRUE, TRUE, None, None)
     \/ \E e \in found : Continue(r, "Lock", TRUE, TRUE, e, lookups[e])
  /\ UNCHANGED <<clock, durable, boot, known, sessions, evidence, faults>>

\* load_by_id_for_update takes its snapshot.
load_by_id(r) ==
  /\ tx[r].phase = "Load"
  /\ Continue(r, "Lock", tx[r].holdsContext, FALSE, tx[r].endpoint, lookups[tx[r].endpoint])
  /\ UNCHANGED <<clock, durable, boot, known, sessions, evidence, faults>>

\* ... and gets the row locks, possibly after waiting for their holder.
lock_endpoint(r) ==
  /\ tx[r].phase = "Lock"
  /\ ~EndpointLocked(tx[r].endpoint)
  /\ Continue(r, "Decide", tx[r].holdsContext, tx[r].holdsSignal,
              tx[r].endpoint, tx[r].snapshot)
  /\ UNCHANGED <<clock, durable, boot, known, sessions, evidence, faults>>

\* Faulty variant: a chain keeps the predecessor mapping it was created with.
FaultyProjection(e, l) ==
  lookups' = [lookups EXCEPT ![e] =
    IF lookups[e] = None THEN l ELSE [pred |-> lookups[e].pred, succ |-> l.succ]]

persist_lookup_projection(e, l) ==
  lookups' = [lookups EXCEPT ![e] = l]

persist_transition(e, new) == row' = [row EXCEPT ![e] = new]

\* The context resolves in the transaction that promotes its credential.
persist_boot_context_resolution(r, e) ==
  LET c == tx[r].cred.boot IN
  context' = IF ~tx[r].holdsSignal THEN context
             ELSE [context EXCEPT ![c] = [signal |-> context[c].signal,
                                          expires |-> context[c].expires, resolved |-> e]]

Establish(r, e, new) ==
  /\ persist_transition(e, new)
  /\ persist_lookup_projection(e, [pred |-> new.pred, succ |-> new.succ])
  /\ persist_boot_context_resolution(r, e)
  /\ minted' = minted + 1
  /\ End(r, "Established", e, new.succ)

\* A UNIQUE constraint of endpoints or endpoint_credential_lookups fails the
\* transaction.
Conflict(r) == tx[r].endpoint = None /\ HasSignal(SignalOf(r)) \cup Owner(tx[r].cred) # {}

Rollback(r, to) ==
  /\ End(r, to, None, None)
  /\ UNCHANGED durable

\* Faulty variant: a rejected decision returns without ending its transaction.
FaultyRejected(r) == UNCHANGED <<tx, context, row, lookups, minted>>

Rejected(r) == Rollback(r, "Rejected")

\* The decision closure, reading the clock under the locks, and its commit.
redeem(r) ==
  LET e == tx[r].endpoint
      cred == tx[r].cred IN
  /\ tx[r].phase = "Decide"
  /\ \/ /\ e # None /\ ~tx[r].holdsSignal
        /\ LET slot == authenticate(row[e], tx[r].snapshot, cred) IN
           IF slot = "Rejected" THEN Rejected(r)
           ELSE Establish(r, e, redeem_known(row[e], slot, cred))
     \/ /\ e # None /\ tx[r].holdsSignal
        /\ IF MayReboot(row[e], cred)
           THEN Establish(r, e, genuine_reboot(row[e], cred))
           ELSE Rejected(r)
     \/ /\ e = None
        /\ IF Conflict(r) THEN Rollback(r, "Backend")
           ELSE IF ~boot_context_credential_is_valid(cred) THEN Rejected(r)
           ELSE LET free == {x \in Endpoint : row[x] = None}   \* EndpointId::new
                IN  /\ free # {}
                    /\ Establish(r, CHOOSE x \in free : TRUE, first_contact(cred))
  /\ UNCHANGED <<clock, boot, known, sessions, evidence, faults>>

\* handle_auth_request sends the answer after the commit and, once it is
\* sent, the session starts.
answer(r) ==
  LET cred == tx[r].cred IN
  /\ tx[r].phase \in {"Established", "Rejected", "Backend"}
  /\ IF tx[r].phase = "Established"
     THEN /\ known' = [s \in Signal |->
                         IF boot[s] = cred.boot THEN known[s] \cup {tx[r].issued} ELSE known[s]]
          /\ sessions' = sessions \cup {<<tx[r].endpoint, cred.boot>>}
     ELSE UNCHANGED <<known, sessions>>
  /\ tx' = [tx EXCEPT ![r] = Idle]
  /\ UNCHANGED <<clock, durable, boot, evidence, faults>>

\* The connection is lost between the commit and the answer.
lose_answer(r) ==
  /\ tx[r].phase \in {"Established", "Rejected"}
  /\ Fault("LostAnswer")
  /\ tx' = [tx EXCEPT ![r] = Idle]
  /\ UNCHANGED <<clock, durable, boot, known, sessions, evidence>>

\* A statement or the commit fails: the transaction rolls back.
abort(r) ==
  /\ tx[r].phase \notin {"Idle", "Established", "Rejected", "Backend"}
  /\ Fault("Abort")
  /\ tx' = [tx EXCEPT ![r] = Idle]
  /\ UNCHANGED <<clock, durable, boot, known, sessions, evidence>>

restart ==
  /\ Fault("Restart")
  /\ tx' = [r \in Request |-> Idle]
  /\ sessions' = {}
  /\ UNCHANGED <<clock, durable, boot, known, evidence>>

-----------------------------------------------------------------------------
(* Transactions that lock one Endpoint and end: update_endpoint and          *)
(* establish_trusted_bootstrap of the Endpoint repository.                   *)

update_endpoint(e, new) ==
  /\ row[e] # None
  /\ ~EndpointLocked(e)
  /\ persist_transition(e, new)
  /\ UNCHANGED <<clock, context, lookups, minted, tx, boot, known, sessions, faults>>

\* The same chain, with these facts about its Endpoint.
WithFacts(x, identity, revoked, trusted) ==
  [signal |-> x.signal, identity |-> identity, pred |-> x.pred, succ |-> x.succ,
   predExpires |-> x.predExpires, succExpires |-> x.succExpires,
   revoked |-> revoked, boot |-> x.boot, trusted |-> trusted]

approve_enrollment(e) ==
  /\ row[e] # None /\ row[e].identity = "PendingEnrollment"
  /\ update_endpoint(e, WithFacts(row[e], "Enrolled", row[e].revoked, row[e].trusted))
  /\ UNCHANGED evidence

revoke_credential(e) ==
  /\ row[e] # None
  /\ update_endpoint(e, WithFacts(row[e], row[e].identity, TRUE, row[e].trusted))
  /\ UNCHANGED evidence

establish_trusted_bootstrap(x, c) ==
  WithFacts(x, x.identity, x.revoked, x.trusted \/ x.boot = c)

\* BootstrapEvidence of the session's boot, signed for this Server.
verify_and_establish(e, c) ==
  /\ <<e, c>> \in sessions
  /\ row[e] # None
  /\ update_endpoint(e, establish_trusted_bootstrap(row[e], c))
  /\ evidence' = evidence \cup {c}

Statement(r) ==
  \/ route(r)
  \/ load_boot_context_for_update(r)
  \/ lock_signal(r)
  \/ load_by_signal(r)
  \/ load_by_id(r)
  \/ lock_endpoint(r)
  \/ redeem(r)
  \/ answer(r)

Next ==
  \/ tick
  \/ \E c \in Context, s \in Signal : issue_enrollment_credential(c, s)
  \/ \E r \in Request, s \in Signal : authenticate_request(r, s)
  \/ \E r \in Request : Statement(r) \/ lose_answer(r) \/ abort(r)
  \/ restart
  \/ \E e \in Endpoint : approve_enrollment(e) \/ revoke_credential(e)
  \/ \E e \in Endpoint, c \in Context : verify_and_establish(e, c)

Acquire(r) == load_boot_context_for_update(r) \/ lock_signal(r) \/ lock_endpoint(r)

\* A started redemption is a task that the runtime polls until it is done, and
\* PostgreSQL grants a lock to its waiters in the order they came.
Fairness == \A r \in Request : WF_vars(Statement(r)) /\ SF_vars(Acquire(r))

Spec == Init /\ [][Next]_vars /\ Fairness

-----------------------------------------------------------------------------
\* The row locks a redemption holds.
RowLocks(r) ==
  (IF tx[r].holdsContext THEN {<<"context", tx[r].cred.boot>>} ELSE {}) \cup
  (IF tx[r].phase = "Decide" /\ tx[r].endpoint # None
   THEN {<<"endpoint", tx[r].endpoint>>} ELSE {})

(* Every variable has its type, and no row lock has two holders.  The lookup  *)
(* projection of an Endpoint names exactly the credentials whose verifiers    *)
(* its chain holds, although redemptions replace both from a read of the      *)
(* projection that may be stale (persist_lookup_projection).  Redemptions     *)
(* that race on first contact meet no uniqueness conflict: the BootContext    *)
(* lock and the signal's advisory lock make the second one find what the      *)
(* first one committed (route).                                               *)
TypeOK ==
  /\ clock \in 0..MaxTime
  /\ context \in [Context -> BootContext \cup {None}]
  /\ row \in [Endpoint -> Row \cup {None}]
  /\ lookups \in [Endpoint -> Slots \cup {None}]
  /\ minted \in Nat
  /\ tx \in [Request -> Redemption]
  /\ boot \in [Signal -> Context \cup {None}]
  /\ known \in [Signal -> SUBSET Credential]
  /\ sessions \subseteq Endpoint \X Context
  /\ evidence \subseteq Context
  /\ \A r, q \in Request : r # q => RowLocks(r) \cap RowLocks(q) = {}
  /\ \A r \in Request : tx[r].phase # "Backend"
  /\ \A e \in Endpoint :
       /\ row[e] = None <=> lookups[e] = None
       /\ row[e] # None => lookups[e] = [pred |-> row[e].pred, succ |-> row[e].succ]

\* A redemption that is about to decide on an Endpoint's chain.
Deciding(r) == tx[r].phase = "Decide" /\ tx[r].endpoint # None /\ ~tx[r].holdsSignal

Decision(r, l) == authenticate(row[tx[r].endpoint], l, tx[r].cred)

(* A credential is accepted only if the chain and the projection as they     *)
(* are when the locks are held accept it, in the same slot: a stale join of  *)
(* endpoint_credential_lookups never lets a superseded credential in.        *)
AcceptedIsCurrent ==
  \A r \in Request : Deciding(r) /\ Decision(r, tx[r].snapshot) # "Rejected" =>
    Decision(r, lookups[tx[r].endpoint]) = Decision(r, tx[r].snapshot)

(* Both slots of a chain descend from the enrolment credential of the boot   *)
(* the Endpoint records as current, whatever redemptions of older boots are  *)
(* still under way (genuine_reboot supersedes the whole chain); that boot's  *)
(* context is resolved to this Endpoint; and trusted bootstrap rests on      *)
(* evidence of that very boot, also when evidence of an older one arrives on *)
(* a session that outlived it (establish_trusted_bootstrap).                 *)
ChainIsOfBoot ==
  \A e \in Endpoint : row[e] # None =>
    /\ row[e].pred.boot = row[e].boot
    /\ row[e].succ.boot = row[e].boot
    /\ context[row[e].boot].resolved = e
    /\ row[e].trusted => row[e].boot \in evidence

(* While an Endpoint's current boot is the one its machine is in, the        *)
(* predecessor of its chain is a credential the Agent holds, however many    *)
(* SessionEstablished messages are lost: the Agent is never stranded by an   *)
(* issued successor it has not received (authenticate keeps the              *)
(* predecessor until the successor is presented).                            *)
NeverStranded ==
  \A e \in Endpoint, s \in Signal :
    row[e] # None /\ row[e].boot = boot[s] => row[e].pred \in known[s]

(* Every redemption ends: the row locks and the advisory lock are always     *)
(* taken in an order that cannot deadlock, and released by every outcome.    *)
RedemptionEnds ==
  \A r \in Request : tx[r].phase # "Idle" ~> tx[r].phase = "Idle"

(* The Endpoint as the gates see it.                                         *)
FactsOf(e) ==
  IF row[e] = None THEN None
  ELSE [identity |-> row[e].identity, revoked |-> row[e].revoked,
        live |-> clock < row[e].predExpires \/ clock < row[e].succExpires,
        boot |-> row[e].boot, trusted |-> row[e].trusted]

Promise == INSTANCE EndpointFacts WITH
  endpoint <- [e \in Endpoint |-> FactsOf(e)],
  used <- {c \in Context : context[c] # None /\ context[c].resolved # None}

ASSUME NoFactsAssumption == None \notin Promise!Facts

(* What the gates rely on: a reconnect changes no fact of the Endpoint and   *)
(* never renews an expired chain, a boot becomes current once and starts     *)
(* untrusted, whatever overlapping redemptions, lost answers, aborts and     *)
(* restarts do.                                                              *)
RefinesEndpointFacts == Promise!FactsSpec

=============================================================================
