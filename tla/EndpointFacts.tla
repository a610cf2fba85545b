---------------------------- MODULE EndpointFacts ----------------------------
(***************************************************************************)
(* What endpoint identity promises the rest of the Server: the facts of an *)
(* Endpoint that the dispatch gates read under its row lock, and the only  *)
(* ways they change.  Credentials, lookups, redemptions and their faults   *)
(* are the business of Identity, which implements this specification.      *)
(***************************************************************************)

CONSTANTS Endpoint, Context, None

VARIABLES
  endpoint,  \* None, or the facts of a durable Endpoint
  used       \* the boots whose enrolment credential was redeemed

facts == <<endpoint, used>>

Facts == [identity : {"PendingEnrollment", "Enrolled"}, revoked : BOOLEAN,
          live : BOOLEAN, boot : Context, trusted : BOOLEAN]

ASSUME NoFactsAssumption == None \notin Facts

FactsRecord(identity, revoked, live, boot, trusted) ==
  [identity |-> identity, revoked |-> revoked, live |-> live, boot |-> boot,
   trusted |-> trusted]

FactsInit == endpoint = [e \in Endpoint |-> None] /\ used = {}

Change(e, new) == endpoint' = [endpoint EXCEPT ![e] = new]

first_contact(e, c) ==
  /\ endpoint[e] = None
  /\ c \notin used
  /\ Change(e, FactsRecord("PendingEnrollment", FALSE, TRUE, c, FALSE))
  /\ used' = used \cup {c}

\* A boot is redeemed once, never on a revoked chain, and its trust starts
\* over.
genuine_reboot(e, c) ==
  /\ endpoint[e] # None /\ ~endpoint[e].revoked
  /\ c \notin used
  /\ Change(e, FactsRecord(endpoint[e].identity, FALSE, TRUE, c, FALSE))
  /\ used' = used \cup {c}

approve_enrollment(e) ==
  /\ endpoint[e] # None /\ endpoint[e].identity = "PendingEnrollment"
  /\ LET x == endpoint[e]
     IN  Change(e, FactsRecord("Enrolled", x.revoked, x.live, x.boot, x.trusted))
  /\ UNCHANGED used

revoke_credential(e) ==
  /\ endpoint[e] # None
  /\ LET x == endpoint[e]
     IN  Change(e, FactsRecord(x.identity, TRUE, x.live, x.boot, x.trusted))
  /\ UNCHANGED used

establish_trusted_bootstrap(e) ==
  /\ endpoint[e] # None
  /\ LET x == endpoint[e]
     IN  Change(e, FactsRecord(x.identity, x.revoked, x.live, x.boot, TRUE))
  /\ UNCHANGED used

Expired(x) == FactsRecord(x.identity, x.revoked, FALSE, x.boot, x.trusted)

\* Time passes: the last valid slot of some chains expires.
expire(S) ==
  /\ \A e \in S : endpoint[e] # None
  /\ endpoint' = [e \in Endpoint |->
                    IF e \in S THEN Expired(endpoint[e]) ELSE endpoint[e]]
  /\ UNCHANGED used

\* The transactions that lock the Endpoint.
Transaction(e) ==
  \/ \E c \in Context : first_contact(e, c) \/ genuine_reboot(e, c)
  \/ approve_enrollment(e)
  \/ revoke_credential(e)
  \/ establish_trusted_bootstrap(e)

FactsNext == (\E e \in Endpoint : Transaction(e)) \/ (\E S \in SUBSET Endpoint : expire(S))

FactsSpec == FactsInit /\ [][FactsNext]_facts

=============================================================================
