---------------------------- MODULE IdentityProofs ----------------------------
(***************************************************************************)
(* Proofs about Identity, for any number of machines, boots, Endpoints and *)
(* connections.                                                            *)
(*                                                                         *)
(* The inductive invariant has one conjunct per kind of object.  TxOK says *)
(* what a redemption knows at each of its statements; RowOK, what a chain  *)
(* is made of; ContextOK, what a resolved BootContext names; BootOK, what  *)
(* the Agent of a machine's current boot holds; LocksOK, that a lock has   *)
(* one holder.  A credential is fresh because its number is above every    *)
(* number minted before it, and a boot is new because its context does not *)
(* exist yet, so every conjunct also bounds the credentials and boots its  *)
(* object mentions.                                                        *)
(***************************************************************************)
EXTENDS Identity, TLAPS

\* The time limit of the solver, in seconds, for every leaf that names no other
\* prover.
USE SMTT(60)

-----------------------------------------------------------------------------
\* A credential that was issued: its boot has a context, and its number was
\* minted.
Issued(cred) ==
  /\ cred \in Credential
  /\ context[cred.boot] # None
  /\ cred.n <= minted

\* The transaction has not begun, or has ended.
Outside == {"Idle", "Lookup", "Context", "Established", "Rejected"}

\* What a redemption knows: the credential it presents was issued, and is one
\* the Agent holds if the boot of the credential is still the machine's boot;
\* the locks it holds go with its statement; and the BootContext it has locked
\* stays unresolved until it resolves it.
TxOK(r) ==
  LET t == tx[r] IN
  /\ t.phase # "Backend"
  /\ t.phase # "Idle" => Issued(t.cred)
  /\ t.phase # "Idle" => \A s \in Signal : boot[s] = t.cred.boot => t.cred \in known[s]
  /\ t.phase \in Outside => ~t.holdsContext /\ ~t.holdsSignal
  /\ t.phase \in {"Signal", "Candidate"} => t.holdsContext
  /\ t.phase = "Signal" => context[t.cred.boot].resolved = None
  /\ t.phase \in {"Signal", "Load"} => ~t.holdsSignal
  /\ t.phase = "Candidate" => t.holdsSignal
  /\ t.holdsSignal => t.holdsContext /\ context[t.cred.boot].resolved = None
  /\ t.phase \in {"Load", "Lock"} => t.endpoint \in Endpoint
  /\ t.phase \in {"Load", "Lock", "Decide"} /\ t.endpoint # None => row[t.endpoint] # None
  /\ t.phase \in {"Lock", "Decide"} /\ t.endpoint # None => t.snapshot \in Slots
  /\ t.phase = "Decide" /\ t.endpoint = None => t.holdsSignal /\ HasSignal(SignalOf(r)) = {}
  /\ t.phase = "Established" =>
       Issued(t.issued) /\ t.issued.boot = t.cred.boot /\ t.endpoint \in Endpoint

\* What a chain is made of.
RowOK(e) ==
  LET x == row[e] IN
  /\ x = None <=> lookups[e] = None
  /\ x # None =>
       /\ lookups[e] = [pred |-> x.pred, succ |-> x.succ]
       /\ Issued(x.pred) /\ Issued(x.succ)
       /\ x.pred # x.succ
       /\ x.pred.boot = x.boot /\ x.succ.boot = x.boot
       /\ context[x.boot] # None /\ context[x.boot].resolved = e
       /\ x.trusted => x.boot \in evidence
       /\ \A s \in Signal : x.boot = boot[s] => x.pred \in known[s]

\* A BootContext is resolved to an Endpoint that exists.
ContextOK(c) ==
  context[c] # None /\ context[c].resolved # None => row[context[c].resolved] # None

\* What the Agent of the machine's current boot holds.
BootOK(s) ==
  /\ boot[s] # None => context[boot[s]] # None /\ context[boot[s]].signal = s
  /\ \A cred \in known[s] : Issued(cred) /\ cred.boot = boot[s]

\* A lock has one holder.
LocksOK(r, q) ==
  /\ tx[r].holdsContext /\ tx[q].holdsContext => tx[r].cred.boot # tx[q].cred.boot
  /\ tx[r].holdsSignal /\ tx[q].holdsSignal => SignalOf(r) # SignalOf(q)
  /\ tx[r].phase = "Decide" /\ tx[q].phase = "Decide" /\ tx[r].endpoint # None =>
       tx[r].endpoint # tx[q].endpoint

Types ==
  /\ clock \in 0..MaxTime
  /\ context \in [Context -> BootContext \cup {None}]
  /\ row \in [Endpoint -> Row \cup {None}]
  /\ lookups \in [Endpoint -> Slots \cup {None}]
  /\ minted \in Nat
  /\ tx \in [Request -> Redemption]
  /\ boot \in [Signal -> Context \cup {None}]
  /\ known \in [Signal -> SUBSET Credential]
  /\ sessions \subseteq Endpoint \X Context
  /\ evidence \subseteq Context

IdentityInv ==
  /\ Types
  /\ \A r \in Request : TxOK(r)
  /\ \A e \in Endpoint : RowOK(e)
  /\ \A c \in Context : ContextOK(c)
  /\ \A s \in Signal : BootOK(s)
  /\ \A r, q \in Request : r # q => LocksOK(r, q)


-----------------------------------------------------------------------------
(* How the invariant is kept. *)

\* A step of one redemption that changes nothing else keeps the invariant if the
\* redemption knows what it must know at its next statement and takes no lock
\* that another one holds.
LEMMA TxStep ==
  ASSUME IdentityInv, NEW r \in Request, tx' \in [Request -> Redemption],
         \A q \in Request \ {r} : tx'[q] = tx[q],
         UNCHANGED <<clock, durable, boot, known, sessions, evidence>>,
         TxOK(r)',
         \A q \in Request \ {r} : LocksOK(r, q)'
  PROVE  IdentityInv'
<1>1. /\ context' = context /\ row' = row /\ lookups' = lookups /\ minted' = minted
      /\ boot' = boot /\ known' = known /\ evidence' = evidence
  BY DEF durable
<1>3. Types'
  BY Zenon, <1>1 DEF IdentityInv, Types
<1>4. ASSUME NEW q \in Request \ {r} PROVE TxOK(q)'
  <2>1. TxOK(q) /\ tx'[q] = tx[q]
    BY Zenon DEF IdentityInv
  <2>2. HasSignal(SignalOf(q))' = HasSignal(SignalOf(q))
    BY <1>1, <2>1 DEF HasSignal, SignalOf
  <2> QED
    BY ZenonT(40), <1>1, <2>1, <2>2 DEF TxOK, Issued
<1>5. \A e \in Endpoint : RowOK(e)'
  BY ZenonT(40), <1>1 DEF IdentityInv, RowOK, Issued
<1>6. \A s \in Signal : BootOK(s)'
  BY <1>1 DEF IdentityInv, BootOK, Issued
<1>7. \A c \in Context : ContextOK(c)'
  BY Zenon, <1>1 DEF IdentityInv, ContextOK
<1>8. ASSUME NEW p \in Request \ {r}, NEW q \in Request \ {r}, p # q PROVE LocksOK(p, q)'
  <2>1. LocksOK(p, q) /\ tx'[p] = tx[p] /\ tx'[q] = tx[q]
    BY Zenon, <1>8 DEF IdentityInv
  <2> QED
    BY Zenon, <1>1, <2>1 DEF LocksOK, SignalOf
<1>9. \A q \in Request \ {r} : LocksOK(q, r)'
  BY Zenon DEF LocksOK
<1> QED
  BY Zenon, <1>3, <1>4, <1>5, <1>6, <1>7, <1>8, <1>9 DEF IdentityInv

\* A redemption that is over, or whose transaction ended without effect.
LEMMA EndedStep ==
  ASSUME IdentityInv, NEW r \in Request, NEW t, tx' = [tx EXCEPT ![r] = t],
         \/ t = Idle
         \/ tx[r].phase # "Idle" /\ t = Ended("Rejected", tx[r].cred, None, None),
         UNCHANGED <<clock, durable, boot, known, sessions, evidence>>
  PROVE  IdentityInv'
<1>1. TxOK(r) /\ tx \in [Request -> Redemption]
  BY Zenon DEF IdentityInv, Types
<1>2. /\ t \in Redemption /\ ~t.holdsContext /\ ~t.holdsSignal
      /\ \/ t.phase = "Idle"
         \/ t.phase = "Rejected" /\ tx[r].phase # "Idle" /\ t.cred = tx[r].cred
  <2>1. CASE t = Idle
    BY Zenon, <2>1 DEF Idle, Ended, Redemption
  <2>2. CASE tx[r].phase # "Idle" /\ t = Ended("Rejected", tx[r].cred, None, None)
    <3>1. tx[r].cred \in Credential
      BY Zenon, <1>1, <2>2 DEF TxOK, Issued
    <3> QED
      BY Zenon, <2>2, <3>1 DEF Ended, Redemption
  <2> QED
    BY Zenon, <2>1, <2>2
<1>3. tx' \in [Request -> Redemption] /\ tx'[r] = t /\ \A q \in Request \ {r} : tx'[q] = tx[q]
  BY Zenon, <1>1, <1>2
<1>4. TxOK(r)'
  BY Zenon, <1>1, <1>2, <1>3 DEF TxOK, Issued, Outside, durable
<1>5. \A q \in Request \ {r} : LocksOK(r, q)'
  BY Zenon, <1>2, <1>3 DEF LocksOK
<1> QED
  BY Zenon, <1>3, <1>4, <1>5, TxStep

LEMMA AuthenticateStep ==
  ASSUME IdentityInv, NEW r \in Request, NEW s \in Signal, authenticate_request(r, s)
  PROVE  IdentityInv'
<1>1. PICK cred \in known[s] :
        tx' = [tx EXCEPT ![r] = Working("Lookup", cred, FALSE, FALSE, None, None)]
  BY Zenon DEF authenticate_request
<1>2. /\ BootOK(s) /\ tx \in [Request -> Redemption]
      /\ \A q \in Signal : BootOK(q)
  BY Zenon DEF IdentityInv, Types
<1>3. Issued(cred) /\ cred.boot = boot[s]
  BY Zenon, <1>2 DEF BootOK
<1>4. tx' \in [Request -> Redemption] /\ \A q \in Request \ {r} : tx'[q] = tx[q]
  BY Zenon, <1>1, <1>2, <1>3 DEF Working, Redemption, Issued
<1>5. /\ tx'[r].phase = "Lookup" /\ tx'[r].cred = cred
      /\ ~tx'[r].holdsContext /\ ~tx'[r].holdsSignal
  BY Zenon, <1>1, <1>2 DEF Working
<1>6. UNCHANGED <<clock, durable, boot, known, sessions, evidence>>
  BY DEF authenticate_request
<1>7. \A q \in Signal : boot[q] = cred.boot => cred \in known[q]
  <2>1. ASSUME NEW q \in Signal, boot[q] = cred.boot PROVE q = s
    BY <2>1, <1>2, <1>3, NoneAssumption DEF BootOK, Issued, Credential
  <2> QED
    BY <2>1
<1>8. TxOK(r)'
  BY Zenon, <1>3, <1>5, <1>6, <1>7 DEF TxOK, Issued, Outside, durable
<1>9. \A q \in Request \ {r} : LocksOK(r, q)'
  BY Zenon, <1>5 DEF LocksOK
<1> QED
  BY Zenon, <1>4, <1>6, <1>8, <1>9, TxStep

LEMMA RouteStep ==
  ASSUME IdentityInv, NEW r \in Request, route(r)
  PROVE  IdentityInv'
<1>1. TxOK(r) /\ tx \in [Request -> Redemption] /\ \A e \in Endpoint : RowOK(e)
  BY Zenon DEF IdentityInv, Types
<1>2. tx[r].phase = "Lookup" /\ Issued(tx[r].cred) /\ tx[r].cred \in Credential
  BY Zenon, <1>1 DEF route, TxOK, Issued
<1>3. UNCHANGED <<clock, durable, boot, known, sessions, evidence>>
  BY Zenon DEF route
<1>4. ASSUME NEW e \in Owner(tx[r].cred), Continue(r, "Load", FALSE, FALSE, e, None)
      PROVE  IdentityInv'
  <2>1. e \in Endpoint /\ row[e] # None
    <3>1. e \in Endpoint /\ lookups[e] # None
      BY Zenon, <1>4 DEF Owner
    <3> QED
      BY Zenon, <1>1, <3>1 DEF RowOK
  <2>2. tx' \in [Request -> Redemption] /\ \A q \in Request \ {r} : tx'[q] = tx[q]
    BY Zenon, <1>1, <1>2, <1>4, <2>1 DEF Continue, Working, Redemption
  <2>3. /\ tx'[r].phase = "Load" /\ tx'[r].cred = tx[r].cred /\ tx'[r].endpoint = e
        /\ ~tx'[r].holdsContext /\ ~tx'[r].holdsSignal
    BY Zenon, <1>1, <1>4 DEF Continue, Working
  <2>4. TxOK(r)'
    BY Zenon, <1>1, <1>2, <1>3, <2>1, <2>3 DEF TxOK, Issued, Outside, durable
  <2>5. \A q \in Request \ {r} : LocksOK(r, q)'
    BY Zenon, <2>3 DEF LocksOK
  <2> QED
    BY Zenon, <1>3, <2>2, <2>4, <2>5, TxStep
<1>5. ASSUME End(r, "Rejected", None, None) PROVE IdentityInv'
  BY Zenon, <1>2, <1>3, <1>5, EndedStep DEF End
<1>6. ASSUME Continue(r, "Context", FALSE, FALSE, None, None) PROVE IdentityInv'
  <2>1. tx' \in [Request -> Redemption] /\ \A q \in Request \ {r} : tx'[q] = tx[q]
    BY Zenon, <1>1, <1>2, <1>6 DEF Continue, Working, Redemption
  <2>2. /\ tx'[r].phase = "Context" /\ tx'[r].cred = tx[r].cred
        /\ ~tx'[r].holdsContext /\ ~tx'[r].holdsSignal
    BY Zenon, <1>1, <1>6 DEF Continue, Working
  <2>3. TxOK(r)'
    BY Zenon, <1>1, <1>2, <1>3, <2>2 DEF TxOK, Issued, Outside, durable
  <2>4. \A q \in Request \ {r} : LocksOK(r, q)'
    BY Zenon, <2>2 DEF LocksOK
  <2> QED
    BY Zenon, <1>3, <2>1, <2>3, <2>4, TxStep
<1> QED
  BY Zenon, <1>4, <1>5, <1>6 DEF route

LEMMA LoadContextStep ==
  ASSUME IdentityInv, NEW r \in Request, load_boot_context_for_update(r)
  PROVE  IdentityInv'
<1>1. /\ TxOK(r) /\ tx \in [Request -> Redemption]
      /\ context \in [Context -> BootContext \cup {None}]
      /\ \A c \in Context : ContextOK(c)
  BY Zenon DEF IdentityInv, Types
<1>2. tx[r].phase = "Context" /\ Issued(tx[r].cred) /\ tx[r].cred \in Credential
  BY Zenon, <1>1 DEF load_boot_context_for_update, TxOK, Issued
<1>3. UNCHANGED <<clock, durable, boot, known, sessions, evidence>>
  BY Zenon DEF load_boot_context_for_update
<1> DEFINE x == context[tx[r].cred.boot].resolved
<1>4. x \in Endpoint \cup {None}
  BY Zenon, <1>1, <1>2 DEF Issued, Credential, BootContext
<1>5. Continue(r, IF x = None THEN "Signal" ELSE "Load", TRUE, FALSE, x, None)
  BY Zenon DEF load_boot_context_for_update
<1> HIDE DEF x
<1>6. tx' \in [Request -> Redemption] /\ \A q \in Request \ {r} : tx'[q] = tx[q]
  BY Zenon, <1>1, <1>2, <1>4, <1>5 DEF Continue, Working, Redemption
<1>7. /\ tx'[r].phase = IF x = None THEN "Signal" ELSE "Load"
      /\ tx'[r].cred = tx[r].cred /\ tx'[r].endpoint = x
      /\ tx'[r].holdsContext /\ ~tx'[r].holdsSignal
  BY Zenon, <1>1, <1>5 DEF Continue, Working
<1>8. x # None => row[x] # None
  BY Zenon, <1>1, <1>2 DEF ContextOK, Issued, Credential, x
<1>9. TxOK(r)'
  BY Zenon, <1>1, <1>2, <1>3, <1>4, <1>7, <1>8 DEF TxOK, Issued, Outside, durable, x
<1>10. \A q \in Request \ {r} : ~(tx[q].holdsContext /\ tx[q].cred.boot = tx[r].cred.boot)
  BY Zenon DEF load_boot_context_for_update
<1>11. \A q \in Request \ {r} : LocksOK(r, q)'
  BY Zenon, <1>6, <1>7, <1>10 DEF LocksOK
<1> QED
  BY Zenon, <1>3, <1>6, <1>9, <1>11, TxStep

LEMMA LockSignalStep ==
  ASSUME IdentityInv, NEW r \in Request, lock_signal(r)
  PROVE  IdentityInv'
<1>1. TxOK(r) /\ tx \in [Request -> Redemption] /\ \A q \in Request \ {r} : LocksOK(r, q)
  BY Zenon DEF IdentityInv, Types
<1>2. /\ tx[r].phase = "Signal" /\ Issued(tx[r].cred) /\ tx[r].cred \in Credential
      /\ Continue(r, "Candidate", TRUE, TRUE, None, None)
      /\ \A q \in Request \ {r} : ~(tx[q].holdsSignal /\ SignalOf(q) = SignalOf(r))
  <2>1. /\ tx[r].phase = "Signal"
        /\ Continue(r, "Candidate", TRUE, TRUE, None, None)
        /\ \A q \in Request \ {r} : ~(tx[q].holdsSignal /\ SignalOf(q) = SignalOf(r))
    BY Zenon DEF lock_signal
  <2>2. Issued(tx[r].cred) /\ tx[r].cred \in Credential
    BY Zenon, <1>1, <2>1 DEF TxOK, Issued
  <2> QED
    BY Zenon, <2>1, <2>2
<1>3. UNCHANGED <<clock, durable, boot, known, sessions, evidence>>
  BY Zenon DEF lock_signal
<1>4. tx' \in [Request -> Redemption] /\ \A q \in Request \ {r} : tx'[q] = tx[q]
  BY Zenon, <1>1, <1>2 DEF Continue, Working, Redemption
<1>5. /\ tx'[r].phase = "Candidate" /\ tx'[r].cred = tx[r].cred
      /\ tx'[r].holdsContext /\ tx'[r].holdsSignal
  BY Zenon, <1>1, <1>2 DEF Continue, Working
<1>6. TxOK(r)'
  BY Zenon, <1>1, <1>2, <1>3, <1>5 DEF TxOK, Issued, Outside, durable
<1>7. \A q \in Request \ {r} : LocksOK(r, q)'
  BY Zenon, <1>1, <1>2, <1>3, <1>4, <1>5 DEF LocksOK, SignalOf, TxOK, durable
<1> QED
  BY Zenon, <1>3, <1>4, <1>6, <1>7, TxStep

LEMMA LoadBySignalStep ==
  ASSUME IdentityInv, NEW r \in Request, load_by_signal(r)
  PROVE  IdentityInv'
<1>1. /\ TxOK(r) /\ tx \in [Request -> Redemption] /\ \A q \in Request \ {r} : LocksOK(r, q)
      /\ lookups \in [Endpoint -> Slots \cup {None}] /\ \A e \in Endpoint : RowOK(e)
  BY Zenon DEF IdentityInv, Types
<1>2. tx[r].phase = "Candidate" /\ Issued(tx[r].cred) /\ tx[r].cred \in Credential
  BY Zenon, <1>1 DEF load_by_signal, TxOK, Issued
<1>3. UNCHANGED <<clock, durable, boot, known, sessions, evidence>>
  BY Zenon DEF load_by_signal
<1>4. ASSUME HasSignal(SignalOf(r)) = {}, Continue(r, "Decide", TRUE, TRUE, None, None)
      PROVE  IdentityInv'
  <2>1. tx' \in [Request -> Redemption] /\ \A q \in Request \ {r} : tx'[q] = tx[q]
    BY Zenon, <1>1, <1>2, <1>4 DEF Continue, Working, Redemption
  <2>2. /\ tx'[r].phase = "Decide" /\ tx'[r].cred = tx[r].cred /\ tx'[r].endpoint = None
        /\ tx'[r].holdsContext /\ tx'[r].holdsSignal
    BY Zenon, <1>1, <1>4 DEF Continue, Working
  <2>3. HasSignal(SignalOf(r))' = {}
    BY Zenon, <1>3, <1>4, <2>2 DEF HasSignal, SignalOf, durable
  <2>4. TxOK(r)'
    BY Zenon, <1>1, <1>2, <1>3, <2>2, <2>3 DEF TxOK, Issued, Outside, durable
  <2>5. \A q \in Request \ {r} : LocksOK(r, q)'
    BY ZenonT(40), <1>1, <1>2, <1>3, <2>1, <2>2 DEF LocksOK, SignalOf, TxOK, durable
  <2> QED
    BY Zenon, <1>3, <2>1, <2>4, <2>5, TxStep
<1>5. ASSUME NEW e \in HasSignal(SignalOf(r)), Continue(r, "Lock", TRUE, TRUE, e, lookups[e])
      PROVE  IdentityInv'
  <2>1. e \in Endpoint /\ row[e] # None /\ lookups[e] \in Slots
    BY <1>1, <1>5 DEF HasSignal, RowOK
  <2>2. tx' \in [Request -> Redemption] /\ \A q \in Request \ {r} : tx'[q] = tx[q]
    BY Zenon, <1>1, <1>2, <1>5, <2>1 DEF Continue, Working, Redemption
  <2>3. /\ tx'[r].phase = "Lock" /\ tx'[r].cred = tx[r].cred /\ tx'[r].endpoint = e
        /\ tx'[r].snapshot = lookups[e] /\ tx'[r].holdsContext /\ tx'[r].holdsSignal
    BY Zenon, <1>1, <1>5 DEF Continue, Working
  <2>4. TxOK(r)'
    BY Zenon, <1>1, <1>2, <1>3, <2>1, <2>3 DEF TxOK, Issued, Outside, durable
  <2>5. \A q \in Request \ {r} : LocksOK(r, q)'
    BY ZenonT(40), <1>1, <1>2, <1>3, <2>2, <2>3 DEF LocksOK, SignalOf, TxOK, durable
  <2> QED
    BY Zenon, <1>3, <2>2, <2>4, <2>5, TxStep
<1> QED
  BY Zenon, <1>4, <1>5 DEF load_by_signal

LEMMA LoadByIdStep ==
  ASSUME IdentityInv, NEW r \in Request, load_by_id(r)
  PROVE  IdentityInv'
<1>1. /\ TxOK(r) /\ tx \in [Request -> Redemption] /\ \A q \in Request \ {r} : LocksOK(r, q)
      /\ lookups \in [Endpoint -> Slots \cup {None}] /\ \A e \in Endpoint : RowOK(e)
  BY Zenon DEF IdentityInv, Types
<1> DEFINE e == tx[r].endpoint
           hc == tx[r].holdsContext
<1>2. /\ tx[r].phase = "Load" /\ Issued(tx[r].cred) /\ tx[r].cred \in Credential
      /\ hc \in BOOLEAN /\ ~tx[r].holdsSignal
  BY Zenon, <1>1 DEF load_by_id, TxOK, Issued, Redemption
<1>3. UNCHANGED <<clock, durable, boot, known, sessions, evidence>>
  BY Zenon DEF load_by_id
<1>4. e \in Endpoint /\ row[e] # None /\ lookups[e] \in Slots
  BY Zenon, <1>1, <1>2, NoneAssumption DEF TxOK, RowOK
<1>5. Continue(r, "Lock", hc, FALSE, e, lookups[e])
  BY Zenon DEF load_by_id
<1> HIDE DEF e, hc
<1>6. tx' \in [Request -> Redemption] /\ \A q \in Request \ {r} : tx'[q] = tx[q]
  BY Zenon, <1>1, <1>2, <1>4, <1>5 DEF Continue, Working, Redemption
<1>7. /\ tx'[r].phase = "Lock" /\ tx'[r].cred = tx[r].cred /\ tx'[r].endpoint = e
      /\ tx'[r].snapshot = lookups[e] /\ tx'[r].holdsContext = tx[r].holdsContext
      /\ ~tx'[r].holdsSignal
  BY Zenon, <1>1, <1>5 DEF Continue, Working, hc
<1>8. TxOK(r)'
  BY Zenon, <1>1, <1>2, <1>3, <1>4, <1>7 DEF TxOK, Issued, Outside, durable
<1>9. \A q \in Request \ {r} : LocksOK(r, q)'
  BY Zenon, <1>1, <1>6, <1>7 DEF LocksOK
<1> QED
  BY Zenon, <1>3, <1>6, <1>8, <1>9, TxStep

LEMMA LockEndpointStep ==
  ASSUME IdentityInv, NEW r \in Request, lock_endpoint(r)
  PROVE  IdentityInv'
<1>1. TxOK(r) /\ tx \in [Request -> Redemption] /\ \A q \in Request \ {r} : LocksOK(r, q)
  BY Zenon DEF IdentityInv, Types
<1> DEFINE e == tx[r].endpoint
           hc == tx[r].holdsContext
           hs == tx[r].holdsSignal
           l == tx[r].snapshot
<1>2. /\ tx[r].phase = "Lock" /\ Issued(tx[r].cred) /\ tx[r].cred \in Credential
      /\ hc \in BOOLEAN /\ hs \in BOOLEAN
  BY Zenon, <1>1 DEF lock_endpoint, TxOK, Issued, Redemption
<1>3. UNCHANGED <<clock, durable, boot, known, sessions, evidence>>
  BY Zenon DEF lock_endpoint
<1>4. e \in Endpoint /\ row[e] # None /\ l \in Slots
  BY Zenon, <1>1, <1>2, NoneAssumption DEF TxOK
<1>5. Continue(r, "Decide", hc, hs, e, l) /\ ~EndpointLocked(e)
  BY Zenon DEF lock_endpoint
<1> HIDE DEF e, hc, hs, l
<1>6. tx' \in [Request -> Redemption] /\ \A q \in Request \ {r} : tx'[q] = tx[q]
  BY Zenon, <1>1, <1>2, <1>4, <1>5 DEF Continue, Working, Redemption
<1>7. /\ tx'[r].phase = "Decide" /\ tx'[r].cred = tx[r].cred /\ tx'[r].endpoint = e
      /\ tx'[r].snapshot = l /\ tx'[r].holdsContext = tx[r].holdsContext
      /\ tx'[r].holdsSignal = tx[r].holdsSignal
  BY Zenon, <1>1, <1>5 DEF Continue, Working, hc, hs
<1>8. TxOK(r)'
  BY Zenon, <1>1, <1>2, <1>3, <1>4, <1>7, NoneAssumption
     DEF TxOK, Issued, Outside, durable
<1>9. \A q \in Request \ {r} : LocksOK(r, q)'
  BY ZenonT(40), <1>1, <1>3, <1>5, <1>6, <1>7
     DEF LocksOK, EndpointLocked, SignalOf, durable
<1> QED
  BY Zenon, <1>3, <1>6, <1>8, <1>9, TxStep

\* The commit of a redemption, whatever it decided: the chain it writes starts
\* with the credential it was presented and goes on with a fresh one.
LEMMA EstablishStep ==
  ASSUME IdentityInv, NEW r \in Request, NEW e \in Endpoint, NEW new \in Row,
         tx[r].phase = "Decide", Establish(r, e, new),
         UNCHANGED <<clock, boot, known, sessions, evidence>>,
         new.pred = tx[r].cred, new.succ = Fresh(tx[r].cred), new.boot = tx[r].cred.boot,
         new.trusted => new.boot \in evidence,
         \/ row[e] # None /\ new.signal = row[e].signal
         \/ row[e] = None /\ new.signal = SignalOf(r) /\ tx[r].holdsSignal,
         ~tx[r].holdsSignal => context[tx[r].cred.boot].resolved = e
  PROVE  IdentityInv'
<1>1. Types /\ TxOK(r)
  BY Zenon DEF IdentityInv
<1>2. PICK cred : cred = tx[r].cred
  BY Zenon
<1>3. PICK fresh : fresh = Fresh(cred)
  BY Zenon
<1>4. PICK c : c = cred.boot
  BY Zenon
<1>5. Issued(cred) /\ cred \in Credential /\ c \in Context /\ context[c] \in BootContext
  BY Zenon, <1>1, <1>2, <1>4 DEF TxOK, Issued, Credential, Types
<1>6. fresh \in Credential /\ fresh.boot = c /\ fresh.n = minted + 1
  BY <1>1, <1>3, <1>4, <1>5 DEF Fresh, Credential, Types
<1>7. new.pred = cred /\ new.succ = fresh /\ new.boot = c
  BY Zenon, <1>2, <1>3, <1>4
<1>8. /\ row'[e] = new /\ row' \in [Endpoint -> Row \cup {None}]
      /\ \A f \in Endpoint \ {e} : row'[f] = row[f]
  BY Zenon, <1>1 DEF Establish, persist_transition, Types
<1>9. /\ lookups'[e] = [pred |-> new.pred, succ |-> new.succ]
      /\ lookups' \in [Endpoint -> Slots \cup {None}]
      /\ \A f \in Endpoint \ {e} : lookups'[f] = lookups[f]
  BY Zenon, <1>1, <1>5, <1>6, <1>7 DEF Establish, persist_lookup_projection, Types, Slots
<1>10. /\ context' \in [Context -> BootContext \cup {None}]
       /\ \A d \in Context \ {c} : context'[d] = context[d]
       /\ context'[c] # None /\ context'[c].signal = context[c].signal
       /\ context'[c].resolved = e
       /\ ~tx[r].holdsSignal => context' = context
  <2>1. CASE tx[r].holdsSignal
    <3>1. PICK b : b = [signal |-> context[c].signal, expires |-> context[c].expires,
                        resolved |-> e]
      BY Zenon
    <3>2. b \in BootContext /\ b # None /\ b.signal = context[c].signal /\ b.resolved = e
      BY <1>5, <3>1, NoneAssumption DEF BootContext
    <3>3. context' = [context EXCEPT ![c] = b]
      BY Zenon, <2>1, <1>2, <1>4, <3>1 DEF Establish, persist_boot_context_resolution
    <3> QED
      BY Zenon, <2>1, <1>1, <1>5, <3>2, <3>3 DEF Types
  <2>2. CASE ~tx[r].holdsSignal
    BY Zenon, <2>2, <1>1, <1>2, <1>4, <1>5, NoneAssumption
       DEF Establish, persist_boot_context_resolution, Types, Issued
  <2> QED
    BY Zenon, <2>1, <2>2
<1>11. minted' = minted + 1 /\ minted \in Nat
  BY Zenon, <1>1 DEF Establish, Types
<1>12. /\ tx' \in [Request -> Redemption]
       /\ \A q \in Request \ {r} : tx'[q] = tx[q]
       /\ tx'[r].phase = "Established" /\ tx'[r].cred = cred /\ tx'[r].endpoint = e
       /\ tx'[r].issued = fresh /\ ~tx'[r].holdsContext /\ ~tx'[r].holdsSignal
  BY Zenon, <1>1, <1>2, <1>5, <1>6, <1>7 DEF Establish, End, Ended, Types, Redemption
<1>13. \A x : Issued(x) => Issued(x)'
  BY <1>5, <1>10, <1>11 DEF Issued, Credential
<1>14. Issued(fresh)' /\ cred # fresh
  BY <1>5, <1>6, <1>10, <1>11 DEF Issued, Credential
<1>15. Types'
  BY <1>1, <1>8, <1>9, <1>10, <1>11, <1>12 DEF Types
<1>16. \A q \in Request : TxOK(q)'
  <2>1. TxOK(r)'
    BY Zenon, <1>1, <1>2, <1>4, <1>5, <1>6, <1>12, <1>13, <1>14 DEF TxOK, Outside
  <2>2. ASSUME NEW q \in Request \ {r} PROVE TxOK(q)'
    <3>1. TxOK(q) /\ LocksOK(r, q) /\ LocksOK(q, r) /\ tx'[q] = tx[q]
      BY Zenon, <1>12 DEF IdentityInv
    <3>2. tx[q].holdsContext /\ tx[r].holdsSignal => tx[q].cred.boot # c
      BY Zenon, <1>1, <1>2, <1>4, <3>1 DEF LocksOK, TxOK
    <3>3. tx[q].endpoint # None /\ row[tx[q].endpoint] # None => row'[tx[q].endpoint] # None
      BY Zenon, <1>1, <1>8, NoneAssumption DEF Types, Redemption
    <3>4. ASSUME tx[q].phase = "Decide", tx[q].endpoint = None
          PROVE  HasSignal(SignalOf(q))' = {}
      <4>1. tx[q].holdsSignal /\ HasSignal(SignalOf(q)) = {} /\ tx[q].cred \in Credential
        BY Zenon, <3>1, <3>4 DEF TxOK, Issued
      <4>2. tx[q].cred.boot \in Context
        BY Zenon, <4>1 DEF Credential
      <4>3. SignalOf(q)' = SignalOf(q)
        BY Zenon, <1>10, <3>1, <4>2 DEF SignalOf
      <4>4. row'[e].signal # SignalOf(q)
        <5>1. CASE row[e] # None /\ new.signal = row[e].signal
          BY Zenon, <5>1, <1>8, <4>1 DEF HasSignal
        <5>2. CASE row[e] = None /\ new.signal = SignalOf(r) /\ tx[r].holdsSignal
          BY Zenon, <5>2, <1>8, <3>1, <4>1 DEF LocksOK
        <5> QED
          BY Zenon, <5>1, <5>2
      <4> QED
        BY Zenon, <1>8, <4>1, <4>3, <4>4 DEF HasSignal
    <3>5. ASSUME tx[q].holdsContext
          PROVE  context'[tx[q].cred.boot].resolved = context[tx[q].cred.boot].resolved
      <4>1. tx[q].cred \in Credential
        BY Zenon, <3>1, <3>5 DEF TxOK, Outside, Issued
      <4>2. tx[q].cred.boot \in Context
        BY Zenon, <4>1 DEF Credential
      <4> QED
        BY Zenon, <1>10, <3>2, <3>5, <4>2
    <3>6. PICK k : k = tx[q].cred
      BY Zenon
    <3>7. PICK i : i = tx[q].issued
      BY Zenon
    <3>8. (tx[q].phase # "Idle" => Issued(k)') /\ (tx[q].phase = "Established" => Issued(i)')
      BY Zenon, <1>13, <3>1, <3>6, <3>7 DEF TxOK
    <3> QED
      BY Zenon, <3>1, <3>3, <3>4, <3>5, <3>6, <3>7, <3>8 DEF TxOK, Outside, Issued
  <2> QED
    BY Zenon, <2>1, <2>2
<1>17. \A f \in Endpoint : RowOK(f)'
  <2>1. RowOK(e)'
    <3>1. new # None /\ lookups'[e] # None
      BY <1>5, <1>6, <1>7, <1>9, NoneAssumption DEF Slots
    <3>2. \A s \in Signal : boot'[s] = c => cred \in known'[s]
      BY Zenon, <1>1, <1>2, <1>4 DEF TxOK
    <3> QED
      BY Zenon, <1>5, <1>6, <1>7, <1>8, <1>9, <1>10, <1>13, <1>14, <3>1, <3>2 DEF RowOK
  <2>2. ASSUME NEW f \in Endpoint \ {e} PROVE RowOK(f)'
    <3>1. RowOK(f) /\ row'[f] = row[f] /\ lookups'[f] = lookups[f]
      BY Zenon, <1>8, <1>9 DEF IdentityInv
    <3>2. CASE row[f] = None
      BY Zenon, <3>1, <3>2 DEF RowOK
    <3>3. CASE row[f] # None
      <4>1. PICK x : x = row[f]
        BY Zenon
      <4>2. /\ x \in Row /\ x.boot \in Context
            /\ context[x.boot].resolved = f /\ context[x.boot] # None
        BY Zenon, <1>1, <3>1, <3>3, <4>1 DEF Types, Row, RowOK
      <4>3. x.boot # c
        BY Zenon, <1>1, <1>2, <1>4, <4>2, NoneAssumption DEF TxOK
      <4>4. context'[x.boot] = context[x.boot]
        BY Zenon, <1>10, <4>2, <4>3
      <4>5. Issued(x.pred)' /\ Issued(x.succ)'
        BY Zenon, <1>13, <3>1, <3>3, <4>1 DEF RowOK
      <4> QED
        BY ZenonT(40), <3>1, <3>3, <4>1, <4>2, <4>4, <4>5 DEF RowOK
    <3> QED
      BY Zenon, <3>2, <3>3
  <2> QED
    BY Zenon, <2>1, <2>2
<1>18. \A d \in Context : ContextOK(d)'
  <2>1. ASSUME NEW d \in Context, d # c, context[d] # None, context[d].resolved # None
        PROVE  row'[context[d].resolved] # None
    BY ZenonT(40), <1>1, <1>8, <2>1, NoneAssumption
       DEF IdentityInv, ContextOK, Types, BootContext
  <2> QED
    BY ZenonT(40), <1>8, <1>10, <2>1, NoneAssumption DEF ContextOK
<1>19. \A s \in Signal : BootOK(s)'
  <2>1. ASSUME NEW s \in Signal PROVE BootOK(s)'
    <3>1. BootOK(s) /\ boot' = boot /\ known' = known
      BY Zenon DEF IdentityInv
    <3>2. \A d \in Context : context[d] # None =>
            context'[d] # None /\ context'[d].signal = context[d].signal
      BY Zenon, <1>10
    <3>3. boot[s] = None \/ boot[s] \in Context
      BY Zenon, <1>1 DEF Types
    <3> QED
      BY Zenon, <1>13, <3>1, <3>2, <3>3 DEF BootOK
  <2> QED
    BY Zenon, <2>1
<1>20. \A p, q \in Request : p # q => LocksOK(p, q)'
  <2>1. \A q \in Request : tx[q].holdsSignal => tx[q].cred.boot \in Context
    BY Zenon DEF IdentityInv, TxOK, Outside, Issued, Credential
  <2>2. ASSUME NEW p \in Request \ {r}, NEW q \in Request \ {r}, p # q
        PROVE  LocksOK(p, q)'
    <3>1. LocksOK(p, q) /\ tx'[p] = tx[p] /\ tx'[q] = tx[q]
      BY Zenon, <1>12, <2>2 DEF IdentityInv
    <3>2. tx[p].holdsSignal /\ tx[q].holdsSignal =>
            SignalOf(p)' = SignalOf(p) /\ SignalOf(q)' = SignalOf(q)
      BY ZenonT(40), <1>10, <2>1, <3>1 DEF SignalOf
    <3> QED
      BY Zenon, <3>1, <3>2 DEF LocksOK
  <2>3. \A q \in Request \ {r} : LocksOK(r, q)' /\ LocksOK(q, r)'
    BY Zenon, <1>12 DEF LocksOK
  <2> QED
    BY Zenon, <2>2, <2>3
<1> QED
  BY Zenon, <1>15, <1>16, <1>17, <1>18, <1>19, <1>20 DEF IdentityInv

\* What a redemption presents is one of the two credentials of a chain that
\* accepts it.
LEMMA AcceptedIsOfChain ==
  ASSUME NEW x, NEW l, NEW cred, authenticate(x, l, cred) # "Rejected"
  PROVE  ~x.revoked /\ cred \in {x.pred, x.succ}
  BY DEF authenticate, matches

LEMMA ReconnectStep ==
  ASSUME IdentityInv, NEW r \in Request, NEW e \in Endpoint, e = tx[r].endpoint,
         tx[r].phase = "Decide", ~tx[r].holdsSignal, NEW slot,
         slot = authenticate(row[e], tx[r].snapshot, tx[r].cred), slot # "Rejected",
         Establish(r, e, redeem_known(row[e], slot, tx[r].cred)),
         UNCHANGED <<clock, boot, known, sessions, evidence>>
  PROVE  IdentityInv'
<1>1. Types /\ TxOK(r) /\ RowOK(e)
  BY Zenon DEF IdentityInv
<1>2. row[e] # None /\ row[e] \in Row /\ tx[r].cred \in Credential
  BY Zenon, <1>1, NoneAssumption DEF TxOK, Types, Issued
<1>3. tx[r].cred \in {row[e].pred, row[e].succ}
  BY Zenon, AcceptedIsOfChain
<1>4. row[e].boot = tx[r].cred.boot /\ context[tx[r].cred.boot].resolved = e
  BY Zenon, <1>1, <1>2, <1>3 DEF RowOK
<1> DEFINE new == redeem_known(row[e], slot, tx[r].cred)
<1>5. Fresh(tx[r].cred) \in Credential /\ clock + CredentialTtl \in Nat
  BY <1>1, <1>2, TtlAssumption DEF Types, Fresh, Credential
<1>6. new \in Row
  BY Zenon, <1>2, <1>5 DEF redeem_known, Row
<1>7. /\ new.pred = tx[r].cred /\ new.succ = Fresh(tx[r].cred) /\ new.boot = row[e].boot
      /\ new.signal = row[e].signal /\ new.trusted = row[e].trusted
  BY Zenon DEF redeem_known
<1>8. new.trusted => new.boot \in evidence
  BY Zenon, <1>1, <1>2, <1>7 DEF RowOK
<1> HIDE DEF new
<1> QED
  BY Zenon, <1>2, <1>4, <1>6, <1>7, <1>8, EstablishStep DEF new

LEMMA RebootStep ==
  ASSUME IdentityInv, NEW r \in Request, NEW e \in Endpoint, e = tx[r].endpoint,
         tx[r].phase = "Decide", tx[r].holdsSignal,
         Establish(r, e, genuine_reboot(row[e], tx[r].cred)),
         UNCHANGED <<clock, boot, known, sessions, evidence>>
  PROVE  IdentityInv'
<1>1. Types /\ TxOK(r)
  BY Zenon DEF IdentityInv
<1>2. row[e] # None /\ row[e] \in Row /\ tx[r].cred \in Credential
  BY Zenon, <1>1, NoneAssumption DEF TxOK, Types, Issued
<1> DEFINE new == genuine_reboot(row[e], tx[r].cred)
<1>3. /\ Fresh(tx[r].cred) \in Credential /\ clock + CredentialTtl \in Nat
      /\ tx[r].cred.boot \in Context
  BY <1>1, <1>2, TtlAssumption DEF Types, Fresh, Credential
<1>4. new \in Row
  BY Zenon, <1>2, <1>3 DEF genuine_reboot, Row
<1>5. /\ new.pred = tx[r].cred /\ new.succ = Fresh(tx[r].cred) /\ new.boot = tx[r].cred.boot
      /\ new.signal = row[e].signal /\ ~new.trusted
  BY Zenon DEF genuine_reboot
<1> HIDE DEF new
<1> QED
  BY Zenon, <1>2, <1>4, <1>5, EstablishStep DEF new

LEMMA FirstContactStep ==
  ASSUME IdentityInv, NEW r \in Request, NEW e \in Endpoint, row[e] = None,
         tx[r].phase = "Decide", tx[r].holdsSignal,
         Establish(r, e, first_contact(tx[r].cred)),
         UNCHANGED <<clock, boot, known, sessions, evidence>>
  PROVE  IdentityInv'
<1>1. Types /\ TxOK(r)
  BY Zenon DEF IdentityInv
<1>2. tx[r].cred \in Credential /\ context[tx[r].cred.boot] # None
  BY Zenon, <1>1 DEF TxOK, Issued
<1> DEFINE new == first_contact(tx[r].cred)
<1>3. /\ Fresh(tx[r].cred) \in Credential /\ clock + CredentialTtl \in Nat
      /\ tx[r].cred.boot \in Context
  BY <1>1, <1>2, TtlAssumption DEF Types, Fresh, Credential
<1>4. context[tx[r].cred.boot].signal \in Signal
  BY Zenon, <1>1, <1>2, <1>3 DEF Types, BootContext
<1>5. new \in Row
  BY Zenon, <1>2, <1>3, <1>4 DEF first_contact, Row
<1>6. /\ new.pred = tx[r].cred /\ new.succ = Fresh(tx[r].cred) /\ new.boot = tx[r].cred.boot
      /\ new.signal = SignalOf(r) /\ ~new.trusted
  BY Zenon DEF first_contact, SignalOf
<1> HIDE DEF new
<1> QED
  BY Zenon, <1>5, <1>6, EstablishStep DEF new

\* Redemptions that race on first contact meet no uniqueness conflict.
LEMMA NoConflict ==
  ASSUME IdentityInv, NEW r \in Request, tx[r].phase = "Decide", tx[r].endpoint = None
  PROVE  ~Conflict(r) /\ tx[r].holdsSignal
<1>1. TxOK(r) /\ Types /\ \A e \in Endpoint : RowOK(e)
  BY Zenon DEF IdentityInv
<1>2. /\ tx[r].holdsSignal /\ HasSignal(SignalOf(r)) = {}
      /\ context[tx[r].cred.boot].resolved = None
  BY Zenon, <1>1 DEF TxOK
<1>3. ASSUME NEW e \in Endpoint, lookups[e] # None,
             tx[r].cred \in {lookups[e].pred, lookups[e].succ}
      PROVE  FALSE
  <2>1. row[e] # None
    BY Zenon, <1>1, <1>3 DEF RowOK
  <2>2. /\ lookups[e].pred = row[e].pred /\ lookups[e].succ = row[e].succ
        /\ row[e].pred.boot = row[e].boot /\ row[e].succ.boot = row[e].boot
        /\ context[row[e].boot].resolved = e
    <3>1. RowOK(e)
      BY Zenon, <1>1
    <3> QED
      BY <2>1, <3>1 DEF RowOK
  <2>3. tx[r].cred.boot = row[e].boot
    BY Zenon, <1>3, <2>2
  <2> QED
    BY Zenon, <1>2, <2>2, <2>3, NoneAssumption
<1>4. Owner(tx[r].cred) = {}
  BY Zenon, <1>3 DEF Owner
<1> QED
  BY Zenon, <1>2, <1>4 DEF Conflict

LEMMA RedeemStep ==
  ASSUME IdentityInv, NEW r \in Request, redeem(r)
  PROVE  IdentityInv'
<1>1. tx[r].phase = "Decide" /\ UNCHANGED <<clock, boot, known, sessions, evidence>>
  BY Zenon DEF redeem
<1>2. tx[r].endpoint \in Endpoint \cup {None}
  BY Zenon DEF IdentityInv, Types, Redemption
<1>3. ASSUME Rejected(r) PROVE IdentityInv'
  <2>1. tx[r].phase # "Idle"
    BY <1>1
  <2>2. UNCHANGED <<clock, durable, boot, known, sessions, evidence>>
    BY Zenon, <1>1, <1>3 DEF Rejected, Rollback
  <2> QED
    BY Zenon, <1>3, <2>1, <2>2, EndedStep DEF Rejected, Rollback, End
<1>4. CASE tx[r].endpoint # None /\ ~tx[r].holdsSignal
  <2>1. PICK e : e = tx[r].endpoint
    OBVIOUS
  <2>2. PICK slot : slot = authenticate(row[e], tx[r].snapshot, tx[r].cred)
    BY Zenon
  <2>3. e \in Endpoint
    BY Zenon, <1>2, <1>4, <2>1
  <2>4. \/ Rejected(r)
        \/ slot # "Rejected" /\ Establish(r, e, redeem_known(row[e], slot, tx[r].cred))
    BY Zenon, <1>4, <2>1, <2>2 DEF redeem
  <2> QED
    BY Zenon, <1>1, <1>3, <1>4, <2>1, <2>2, <2>3, <2>4, ReconnectStep
<1>5. CASE tx[r].endpoint # None /\ tx[r].holdsSignal
  <2>1. PICK e : e = tx[r].endpoint
    OBVIOUS
  <2>2. e \in Endpoint
    BY Zenon, <1>2, <1>5, <2>1
  <2>3. Rejected(r) \/ Establish(r, e, genuine_reboot(row[e], tx[r].cred))
    BY Zenon, <1>5, <2>1 DEF redeem
  <2> QED
    BY Zenon, <1>1, <1>3, <1>5, <2>1, <2>2, <2>3, RebootStep
<1>6. CASE tx[r].endpoint = None
  <2>1. ~Conflict(r) /\ tx[r].holdsSignal
    BY Zenon, <1>1, <1>6, NoConflict
  <2>2. PICK e : e = CHOOSE x \in {x \in Endpoint : row[x] = None} : TRUE
    BY Zenon
  <2>3. \/ Rejected(r)
        \/ {x \in Endpoint : row[x] = None} # {} /\ Establish(r, e, first_contact(tx[r].cred))
    BY Zenon, <1>6, <2>1, <2>2 DEF redeem
  <2>4. {x \in Endpoint : row[x] = None} # {} => e \in Endpoint /\ row[e] = None
    BY Zenon, <2>2
  <2> QED
    BY Zenon, <1>1, <1>3, <2>1, <2>3, <2>4, FirstContactStep
<1> QED
  BY Zenon, <1>4, <1>5, <1>6

LEMMA AnswerStep ==
  ASSUME IdentityInv, NEW r \in Request, answer(r)
  PROVE  IdentityInv'
<1>1. TxOK(r) /\ Types
  BY Zenon DEF IdentityInv
<1>2. CASE tx[r].phase # "Established"
  <2>1. /\ UNCHANGED <<clock, durable, boot, known, sessions, evidence>>
        /\ tx' = [tx EXCEPT ![r] = Idle]
    BY Zenon, <1>2 DEF answer
  <2> QED
    BY Zenon, <2>1, EndedStep
<1>3. CASE tx[r].phase = "Established"
  <2>1. PICK cred : cred = tx[r].cred
    BY Zenon
  <2>2. PICK issued : issued = tx[r].issued
    OBVIOUS
  <2>3. /\ Issued(issued) /\ issued.boot = cred.boot /\ tx[r].endpoint \in Endpoint
        /\ issued \in Credential /\ cred \in Credential /\ cred.boot \in Context
    BY Zenon, <1>1, <1>3, <2>1, <2>2 DEF TxOK, Issued, Credential
  <2>4. known' = [s \in Signal |->
                    IF boot[s] = cred.boot THEN known[s] \cup {issued} ELSE known[s]]
    BY Zenon, <1>3, <2>1, <2>2 DEF answer
  <2>5. sessions' = sessions \cup {<<tx[r].endpoint, cred.boot>>}
    BY Zenon, <1>3, <2>1 DEF answer
  <2>6. /\ context' = context /\ row' = row /\ lookups' = lookups /\ minted' = minted
        /\ clock' = clock /\ boot' = boot /\ evidence' = evidence
    BY Zenon DEF answer, durable
  <2>7. tx' = [tx EXCEPT ![r] = Idle]
    BY Zenon DEF answer
  <2>8. /\ tx' \in [Request -> Redemption] /\ tx'[r].phase = "Idle"
        /\ ~tx'[r].holdsContext /\ ~tx'[r].holdsSignal
        /\ \A q \in Request \ {r} : tx'[q] = tx[q]
    BY Zenon, <1>1, <2>7 DEF Types, Redemption, Idle, Ended
  <2>9. /\ known' \in [Signal -> SUBSET Credential]
        /\ \A s \in Signal : known[s] \subseteq known'[s]
        /\ \A s \in Signal : \A k \in known'[s] :
             k \in known[s] \/ (k = issued /\ boot[s] = cred.boot)
    BY Zenon, <1>1, <2>3, <2>4 DEF Types
  <2>10. Types'
    BY <1>1, <2>3, <2>5, <2>6, <2>8, <2>9 DEF Types
  <2>11. TxOK(r)'
    BY Zenon, <2>8 DEF TxOK, Outside
  <2>12. ASSUME NEW q \in Request \ {r} PROVE TxOK(q)'
    <3>1. TxOK(q) /\ tx'[q] = tx[q]
      BY Zenon, <2>8 DEF IdentityInv
    <3>2. HasSignal(SignalOf(q))' = HasSignal(SignalOf(q))
      BY <2>6, <3>1 DEF HasSignal, SignalOf
    <3> QED
      BY Zenon, <2>6, <2>9, <3>1, <3>2 DEF TxOK, Issued
  <2>13. \A e \in Endpoint : RowOK(e)'
    BY Zenon, <2>6, <2>9 DEF IdentityInv, RowOK, Issued
  <2>14. \A c \in Context : ContextOK(c)'
    BY Zenon, <2>6 DEF IdentityInv, ContextOK
  <2>15. \A s \in Signal : BootOK(s)'
    BY ZenonT(40), <2>3, <2>6, <2>9 DEF IdentityInv, BootOK, Issued
  <2>16. \A p, q \in Request : p # q => LocksOK(p, q)'
    <3>1. ASSUME NEW p \in Request, NEW q \in Request, p # q PROVE LocksOK(p, q)'
      <4>1. LocksOK(p, q) /\ (p # r => tx'[p] = tx[p]) /\ (q # r => tx'[q] = tx[q])
        BY Zenon, <2>8, <3>1 DEF IdentityInv
      <4> QED
        BY Zenon, <2>6, <2>8, <4>1 DEF LocksOK, SignalOf
    <3> QED
      BY Zenon, <3>1
  <2> QED
    BY Zenon, <2>10, <2>11, <2>12, <2>13, <2>14, <2>15, <2>16 DEF IdentityInv
<1> QED
  BY <1>2, <1>3

LEMMA IssueStep ==
  ASSUME IdentityInv, NEW c \in Context, NEW s \in Signal, issue_enrollment_credential(c, s)
  PROVE  IdentityInv'
<1>1. Types /\ context[c] = None
  BY Zenon DEF IdentityInv, issue_enrollment_credential
<1>2. PICK zero : zero = [boot |-> c, n |-> 0]
  BY Zenon
<1>3. zero \in Credential /\ zero.boot = c /\ zero.n = 0
  BY Zenon, <1>2 DEF Credential
<1>4. /\ row' = row /\ lookups' = lookups /\ minted' = minted /\ tx' = tx
      /\ clock' = clock /\ sessions' = sessions /\ evidence' = evidence
  BY Zenon DEF issue_enrollment_credential
<1>5. /\ context' \in [Context -> BootContext \cup {None}]
      /\ context'[c] # None /\ context'[c].signal = s /\ context'[c].resolved = None
      /\ \A d \in Context \ {c} : context'[d] = context[d]
  BY <1>1, NoneAssumption, TtlAssumption
     DEF issue_enrollment_credential, Types, BootContext
<1>6. /\ boot' \in [Signal -> Context \cup {None}] /\ boot'[s] = c
      /\ \A u \in Signal \ {s} : boot'[u] = boot[u]
  BY Zenon, <1>1 DEF issue_enrollment_credential, Types
<1>7. /\ known' \in [Signal -> SUBSET Credential] /\ known'[s] = {zero}
      /\ \A u \in Signal \ {s} : known'[u] = known[u]
  BY Zenon, <1>1, <1>2, <1>3 DEF issue_enrollment_credential, Types
<1>8. ASSUME NEW x, Issued(x)
      PROVE  Issued(x)' /\ x.boot # c /\ context'[x.boot] = context[x.boot]
  BY Zenon, <1>1, <1>4, <1>5, <1>8 DEF Issued, Credential
<1>9. Types'
  BY Zenon, <1>1, <1>4, <1>5, <1>6, <1>7 DEF Types
<1>10. ASSUME NEW r \in Request PROVE TxOK(r)'
  <2>1. TxOK(r)
    BY Zenon DEF IdentityInv
  <2>2. CASE tx[r].phase = "Idle"
    BY Zenon, <1>4, <2>1, <2>2 DEF TxOK, Outside
  <2>3. CASE tx[r].phase # "Idle"
    <3>1. PICK cred : cred = tx[r].cred
      BY Zenon
    <3>2. Issued(cred)' /\ cred.boot # c /\ context'[cred.boot] = context[cred.boot]
      BY Zenon, <1>8, <2>1, <2>3, <3>1 DEF TxOK
    <3>3. PICK issued : issued = tx[r].issued
      BY Zenon
    <3>4. tx[r].phase = "Established" => Issued(issued)'
      BY Zenon, <1>8, <2>1, <3>3 DEF TxOK
    <3>5. \A u \in Signal : boot'[u] = cred.boot => cred \in known'[u]
      BY Zenon, <1>6, <1>7, <2>1, <2>3, <3>1, <3>2 DEF TxOK
    <3>6. HasSignal(SignalOf(r))' = HasSignal(SignalOf(r))
      BY Zenon, <1>4, <3>1, <3>2 DEF HasSignal, SignalOf
    <3> QED
      BY Zenon, <1>4, <2>1, <3>1, <3>2, <3>3, <3>4, <3>5, <3>6 DEF TxOK, Issued, Outside
  <2> QED
    BY Zenon, <2>2, <2>3
<1>11. ASSUME NEW e \in Endpoint PROVE RowOK(e)'
  <2>1. RowOK(e)
    BY Zenon DEF IdentityInv
  <2>2. CASE row[e] = None
    BY Zenon, <1>4, <2>1, <2>2 DEF RowOK
  <2>3. CASE row[e] # None
    <3>1. PICK x : x = row[e]
      BY Zenon
    <3>2. /\ Issued(x.pred) /\ Issued(x.succ) /\ x.pred.boot = x.boot
      BY Zenon, <2>1, <2>3, <3>1 DEF RowOK
    <3>3. /\ Issued(x.pred)' /\ Issued(x.succ)' /\ x.boot # c
          /\ context'[x.boot] = context[x.boot]
      BY Zenon, <1>8, <3>2
    <3>4. \A u \in Signal : x.boot = boot'[u] => x.pred \in known'[u]
      BY Zenon, <1>6, <1>7, <2>1, <2>3, <3>1, <3>3 DEF RowOK
    <3> QED
      BY Zenon, <1>4, <2>1, <2>3, <3>1, <3>3, <3>4 DEF RowOK
  <2> QED
    BY Zenon, <2>2, <2>3
<1>12. \A d \in Context : ContextOK(d)'
  BY Zenon, <1>4, <1>5 DEF IdentityInv, ContextOK
<1>13. ASSUME NEW u \in Signal PROVE BootOK(u)'
  <2>1. CASE u = s
    <3>1. Issued(zero)'
      BY <1>1, <1>3, <1>4, <1>5 DEF Issued, Types
    <3> QED
      BY Zenon, <1>3, <1>5, <1>6, <1>7, <2>1, <3>1 DEF BootOK
  <2>2. CASE u # s
    <3>1. BootOK(u) /\ boot'[u] = boot[u] /\ known'[u] = known[u]
      BY Zenon, <1>6, <1>7, <2>2 DEF IdentityInv
    <3>2. boot[u] # None => context'[boot[u]] = context[boot[u]]
      BY Zenon, <1>1, <1>5, <3>1 DEF BootOK, Types
    <3> QED
      BY Zenon, <1>8, <3>1, <3>2 DEF BootOK
  <2> QED
    BY Zenon, <2>1, <2>2
<1>14. ASSUME NEW p \in Request, NEW q \in Request, p # q PROVE LocksOK(p, q)'
  <2>1. LocksOK(p, q) /\ TxOK(p) /\ TxOK(q)
    BY Zenon, <1>14 DEF IdentityInv
  <2>2. tx[p].holdsSignal /\ tx[q].holdsSignal =>
          SignalOf(p)' = SignalOf(p) /\ SignalOf(q)' = SignalOf(q)
    BY Zenon, <1>4, <1>8, <2>1 DEF TxOK, Outside, SignalOf
  <2> QED
    BY Zenon, <1>4, <2>1, <2>2 DEF LocksOK
<1> QED
  BY Zenon, <1>9, <1>10, <1>11, <1>12, <1>13, <1>14 DEF IdentityInv

LEMMA RestartStep ==
  ASSUME IdentityInv, restart
  PROVE  IdentityInv'
<1>1. /\ context' = context /\ row' = row /\ lookups' = lookups /\ minted' = minted
      /\ clock' = clock /\ boot' = boot /\ known' = known /\ evidence' = evidence
      /\ sessions' = {}
  BY Zenon DEF restart, durable
<1>2. tx' = [r \in Request |-> Idle]
  BY DEF restart
<1>3. Idle \in Redemption /\ Idle.phase = "Idle" /\ ~Idle.holdsContext /\ ~Idle.holdsSignal
  BY Zenon DEF Idle, Ended, Redemption
<1>4. Types'
  BY Zenon, <1>1, <1>2, <1>3 DEF IdentityInv, Types
<1>5. \A r \in Request : TxOK(r)'
  BY Zenon, <1>2, <1>3 DEF TxOK, Outside
<1>6. \A e \in Endpoint : RowOK(e)'
  BY Zenon, <1>1 DEF IdentityInv, RowOK, Issued
<1>7. \A c \in Context : ContextOK(c)'
  BY Zenon, <1>1 DEF IdentityInv, ContextOK
<1>8. \A s \in Signal : BootOK(s)'
  BY Zenon, <1>1 DEF IdentityInv, BootOK, Issued
<1>9. \A r, q \in Request : r # q => LocksOK(r, q)'
  BY Zenon, <1>2, <1>3 DEF LocksOK
<1> QED
  BY Zenon, <1>4, <1>5, <1>6, <1>7, <1>8, <1>9 DEF IdentityInv

\* Only the facts of one Endpoint change, and evidence is only added.
LEMMA UpdateStep ==
  ASSUME IdentityInv, NEW e \in Endpoint, NEW new \in Row, update_endpoint(e, new),
         evidence \subseteq evidence', evidence' \subseteq Context,
         new.signal = row[e].signal, new.pred = row[e].pred, new.succ = row[e].succ,
         new.boot = row[e].boot,
         new.trusted => row[e].trusted \/ new.boot \in evidence'
  PROVE  IdentityInv'
<1>1. /\ context' = context /\ lookups' = lookups /\ minted' = minted /\ tx' = tx
      /\ clock' = clock /\ boot' = boot /\ known' = known /\ sessions' = sessions
      /\ row[e] # None
  BY Zenon DEF update_endpoint
<1>2. Types
  BY Zenon DEF IdentityInv
<1>3. /\ row'[e] = new /\ row' \in [Endpoint -> Row \cup {None}] /\ new # None
      /\ \A f \in Endpoint \ {e} : row'[f] = row[f]
  BY Zenon, <1>2, NoneAssumption DEF update_endpoint, persist_transition, Types
<1>4. \A f \in Endpoint : row'[f] = None <=> row[f] = None
  BY Zenon, <1>1, <1>3
<1>5. Types'
  BY Zenon, <1>1, <1>2, <1>3 DEF Types
<1>6. ASSUME NEW r \in Request PROVE TxOK(r)'
  <2>1. TxOK(r) /\ tx[r].endpoint \in Endpoint \cup {None}
    BY Zenon, <1>2 DEF IdentityInv, Types, Redemption
  <2>2. HasSignal(SignalOf(r))' = HasSignal(SignalOf(r))
    <3>1. SignalOf(r)' = SignalOf(r)
      BY Zenon, <1>1 DEF SignalOf
    <3>2. \A f \in Endpoint : row'[f] # None => row'[f].signal = row[f].signal
      BY Zenon, <1>3
    <3> QED
      BY Zenon, <1>4, <3>1, <3>2 DEF HasSignal
  <2> QED
    BY Zenon, <1>1, <1>4, <2>1, <2>2 DEF TxOK, Issued
<1>7. ASSUME NEW f \in Endpoint PROVE RowOK(f)'
  <2>1. RowOK(f) /\ RowOK(e)
    BY Zenon DEF IdentityInv
  <2>2. CASE f = e
    BY Zenon, <1>1, <1>3, <2>1, <2>2 DEF RowOK, Issued
  <2>3. CASE f # e
    BY Zenon, <1>1, <1>3, <2>1, <2>3 DEF RowOK, Issued
  <2> QED
    BY Zenon, <2>2, <2>3
<1>8. ASSUME NEW c \in Context PROVE ContextOK(c)'
  BY Zenon, <1>1, <1>2, <1>4 DEF IdentityInv, ContextOK, Types, BootContext
<1>9. \A s \in Signal : BootOK(s)'
  BY Zenon, <1>1 DEF IdentityInv, BootOK, Issued
<1>10. \A r, q \in Request : r # q => LocksOK(r, q)'
  BY Zenon, <1>1 DEF IdentityInv, LocksOK, SignalOf
<1> QED
  BY Zenon, <1>5, <1>6, <1>7, <1>8, <1>9, <1>10 DEF IdentityInv

LEMMA FactsStep ==
  ASSUME IdentityInv, NEW e \in Endpoint,
         \/ approve_enrollment(e) \/ revoke_credential(e)
         \/ \E c \in Context : verify_and_establish(e, c)
  PROVE  IdentityInv'
<1>1. Types
  BY Zenon DEF IdentityInv
<1>2. row[e] # None /\ row[e] \in Row
  <2>1. row[e] # None
    BY Zenon DEF approve_enrollment, revoke_credential, verify_and_establish
  <2> QED
    BY Zenon, <1>1, <2>1 DEF Types
<1>3. PICK x : x = row[e]
  BY Zenon
<1>4. /\ x \in Row /\ x.identity \in {"PendingEnrollment", "Enrolled"}
      /\ x.revoked \in BOOLEAN /\ x.trusted \in BOOLEAN
  BY Zenon, <1>2, <1>3 DEF Row
<1>5. CASE approve_enrollment(e)
  <2>1. PICK new : new = WithFacts(x, "Enrolled", x.revoked, x.trusted)
    OBVIOUS
  <2>2. update_endpoint(e, new) /\ evidence' = evidence
    BY Zenon, <1>3, <1>5, <2>1 DEF approve_enrollment
  <2>3. /\ new \in Row /\ new.signal = x.signal /\ new.pred = x.pred /\ new.succ = x.succ
        /\ new.boot = x.boot /\ new.trusted = x.trusted
    BY Zenon, <1>4, <2>1 DEF WithFacts, Row
  <2> QED
    BY Zenon, <1>1, <1>3, <2>2, <2>3, UpdateStep DEF Types
<1>6. CASE revoke_credential(e)
  <2>1. PICK new : new = WithFacts(x, x.identity, TRUE, x.trusted)
    BY Zenon
  <2>2. update_endpoint(e, new) /\ evidence' = evidence
    BY Zenon, <1>3, <1>6, <2>1 DEF revoke_credential
  <2>3. /\ new \in Row /\ new.signal = x.signal /\ new.pred = x.pred /\ new.succ = x.succ
        /\ new.boot = x.boot /\ new.trusted = x.trusted
    BY Zenon, <1>4, <2>1 DEF WithFacts, Row
  <2> QED
    BY Zenon, <1>1, <1>3, <2>2, <2>3, UpdateStep DEF Types
<1>7. ASSUME NEW c \in Context, verify_and_establish(e, c) PROVE IdentityInv'
  <2>1. PICK new : new = establish_trusted_bootstrap(x, c)
    BY Zenon
  <2>2. update_endpoint(e, new) /\ evidence' = evidence \cup {c}
    BY Zenon, <1>3, <1>7, <2>1 DEF verify_and_establish
  <2>3. /\ new \in Row /\ new.signal = x.signal /\ new.pred = x.pred /\ new.succ = x.succ
        /\ new.boot = x.boot
        /\ new.trusted => x.trusted \/ x.boot = c
    BY Zenon, <1>4, <2>1 DEF establish_trusted_bootstrap, WithFacts, Row
  <2> QED
    BY Zenon, <1>1, <1>3, <2>2, <2>3, UpdateStep DEF Types
<1> QED
  BY Zenon, <1>5, <1>6, <1>7

LEMMA TickStep ==
  ASSUME IdentityInv, tick
  PROVE  IdentityInv'
<1>1. /\ context' = context /\ row' = row /\ lookups' = lookups /\ minted' = minted
      /\ tx' = tx /\ boot' = boot /\ known' = known /\ evidence' = evidence
      /\ sessions' = sessions
  BY DEF tick, durable
<1>2. Types'
  BY <1>1, MaxTimeAssumption DEF IdentityInv, Types, tick
<1>3. \A r \in Request : TxOK(r)'
  BY ZenonT(40), <1>1 DEF IdentityInv, TxOK, Issued, HasSignal, SignalOf
<1>4. \A e \in Endpoint : RowOK(e)'
  BY Zenon, <1>1 DEF IdentityInv, RowOK, Issued
<1>5. \A c \in Context : ContextOK(c)'
  BY Zenon, <1>1 DEF IdentityInv, ContextOK
<1>6. \A s \in Signal : BootOK(s)'
  BY Zenon, <1>1 DEF IdentityInv, BootOK, Issued
<1>7. \A r, q \in Request : r # q => LocksOK(r, q)'
  BY Zenon, <1>1 DEF IdentityInv, LocksOK, SignalOf
<1> QED
  BY Zenon, <1>2, <1>3, <1>4, <1>5, <1>6, <1>7 DEF IdentityInv

LEMMA IdentityInitial == Init => IdentityInv
<1> SUFFICES ASSUME Init PROVE IdentityInv
  OBVIOUS
<1>1. Idle \in Redemption /\ Idle.phase = "Idle" /\ ~Idle.holdsContext /\ ~Idle.holdsSignal
  BY Zenon DEF Idle, Ended, Redemption
<1>2. Types
  BY <1>1, MaxTimeAssumption DEF Init, Types
<1>3. \A r \in Request : TxOK(r)
  BY Zenon, <1>1 DEF Init, TxOK, Outside
<1>4. \A e \in Endpoint : RowOK(e)
  BY Zenon DEF Init, RowOK
<1>5. \A c \in Context : ContextOK(c)
  BY Zenon DEF Init, ContextOK
<1>6. \A s \in Signal : BootOK(s)
  BY Zenon DEF Init, BootOK
<1>7. \A r, q \in Request : r # q => LocksOK(r, q)
  BY Zenon, <1>1 DEF Init, LocksOK
<1> QED
  BY Zenon, <1>2, <1>3, <1>4, <1>5, <1>6, <1>7 DEF IdentityInv

LEMMA IdentityStep == IdentityInv /\ [Next]_vars => IdentityInv'
<1> SUFFICES ASSUME IdentityInv, [Next]_vars PROVE IdentityInv'
  BY Zenon
<1>1. CASE tick
  BY <1>1, TickStep
<1>2. ASSUME NEW c \in Context, NEW s \in Signal, issue_enrollment_credential(c, s)
      PROVE  IdentityInv'
  BY Zenon, <1>2, IssueStep
<1>3. ASSUME NEW r \in Request, NEW s \in Signal, authenticate_request(r, s)
      PROVE  IdentityInv'
  BY Zenon, <1>3, AuthenticateStep
<1>4. ASSUME NEW r \in Request, Statement(r) PROVE IdentityInv'
  BY Zenon, <1>4, RouteStep, LoadContextStep, LockSignalStep, LoadBySignalStep,
     LoadByIdStep,
     LockEndpointStep, RedeemStep, AnswerStep DEF Statement
<1>5. ASSUME NEW r \in Request, lose_answer(r) \/ abort(r) PROVE IdentityInv'
  <2>1. /\ UNCHANGED <<clock, durable, boot, known, sessions, evidence>>
        /\ tx' = [tx EXCEPT ![r] = Idle]
    BY Zenon, <1>5 DEF lose_answer, abort
  <2> QED
    BY Zenon, <2>1, EndedStep
<1>6. CASE restart
  BY <1>6, RestartStep
<1>7. ASSUME NEW e \in Endpoint,
             \/ approve_enrollment(e) \/ revoke_credential(e)
             \/ \E c \in Context : verify_and_establish(e, c)
      PROVE  IdentityInv'
  BY <1>7, FactsStep
<1>8. CASE UNCHANGED vars
  <2>1. /\ context' = context /\ row' = row /\ lookups' = lookups /\ minted' = minted
        /\ tx' = tx /\ boot' = boot /\ known' = known /\ evidence' = evidence
        /\ sessions' = sessions /\ clock' = clock
    BY Zenon, <1>8 DEF vars
  <2>2. Types'
    BY Zenon, <2>1 DEF IdentityInv, Types
  <2>3. \A r \in Request : TxOK(r)'
    BY ZenonT(40), <2>1 DEF IdentityInv, TxOK, Issued, HasSignal, SignalOf
  <2>4. \A e \in Endpoint : RowOK(e)'
    BY Zenon, <2>1 DEF IdentityInv, RowOK, Issued
  <2>5. \A c \in Context : ContextOK(c)'
    BY Zenon, <2>1 DEF IdentityInv, ContextOK
  <2>6. \A s \in Signal : BootOK(s)'
    BY Zenon, <2>1 DEF IdentityInv, BootOK, Issued
  <2>7. \A r, q \in Request : r # q => LocksOK(r, q)'
    BY Zenon, <2>1 DEF IdentityInv, LocksOK, SignalOf
  <2> QED
    BY Zenon, <2>2, <2>3, <2>4, <2>5, <2>6, <2>7 DEF IdentityInv
<1> QED
  BY Zenon, <1>1, <1>2, <1>3, <1>4, <1>5, <1>6, <1>7, <1>8 DEF Next

-----------------------------------------------------------------------------
(* The inductive invariant: what redemptions, chains, BootContexts and Agents  *)
(* know of each other, through every interleaving of the statements of         *)
(* PostgresCredentialRedemptionRepository::redeem, and every fault.            *)
THEOREM IdentityInvariance == Spec => []IdentityInv
  BY IdentityInitial, IdentityStep, PTL DEF Spec

(* Every variable has its type, no row lock has two holders, the lookup         *)
(* projection of an Endpoint names the two credentials of its chain             *)
(* (persist_lookup_projection), and a redemption meets no uniqueness conflict,  *)
(* for every number of machines, boots and connections.                         *)
THEOREM IdentityTypeCorrect == Spec => []TypeOK
<1>1. IdentityInv => TypeOK
  <2> SUFFICES ASSUME IdentityInv PROVE TypeOK
    BY Zenon
  <2>1. \A r, q \in Request : r # q => RowLocks(r) \cap RowLocks(q) = {}
    BY DEF IdentityInv, LocksOK, RowLocks
  <2>2. \A r \in Request : tx[r].phase # "Backend"
    BY Zenon DEF IdentityInv, TxOK
  <2>3. \A e \in Endpoint :
          /\ row[e] = None <=> lookups[e] = None
          /\ row[e] # None => lookups[e] = [pred |-> row[e].pred, succ |-> row[e].succ]
    BY Zenon DEF IdentityInv, RowOK
  <2> QED
    BY Zenon, <2>1, <2>2, <2>3 DEF IdentityInv, Types, TypeOK
<1> QED
  BY <1>1, IdentityInvariance, PTL

(* A stale join of endpoint_credential_lookups never lets a superseded          *)
(* credential in, nor accepts it in the other slot (load_by_id_for_update).     *)
THEOREM StaleJoinIsHarmless == Spec => []AcceptedIsCurrent
<1>1. IdentityInv => AcceptedIsCurrent
  <2> SUFFICES ASSUME IdentityInv, NEW r \in Request, Deciding(r),
                      Decision(r, tx[r].snapshot) # "Rejected"
               PROVE  Decision(r, lookups[tx[r].endpoint]) = Decision(r, tx[r].snapshot)
    BY Zenon DEF AcceptedIsCurrent
  <2>1. PICK e : e = tx[r].endpoint
    BY Zenon
  <2>2. e \in Endpoint /\ row[e] # None /\ RowOK(e)
    BY Zenon, <2>1 DEF IdentityInv, TxOK, Types, Redemption, Deciding
  <2>3. /\ row[e].pred # row[e].succ
        /\ lookups[e].pred = row[e].pred /\ lookups[e].succ = row[e].succ
    BY <2>2 DEF RowOK
  <2> QED
    BY Zenon, <2>1, <2>3 DEF Decision, authenticate, matches
<1> QED
  BY <1>1, IdentityInvariance, PTL

(* Both slots of a chain descend from the enrolment credential of the boot the   *)
(* Endpoint records as current, whose context is resolved to this Endpoint, and  *)
(* trust rests on evidence of that very boot (genuine_reboot,                    *)
(* establish_trusted_bootstrap).                                                 *)
THEOREM ChainsAreOfTheirBoot == Spec => []ChainIsOfBoot
<1>1. IdentityInv => ChainIsOfBoot
  <2> SUFFICES ASSUME IdentityInv, NEW e \in Endpoint, row[e] # None, RowOK(e)
               PROVE  /\ row[e].pred.boot = row[e].boot /\ row[e].succ.boot = row[e].boot
                      /\ context[row[e].boot].resolved = e
                      /\ row[e].trusted => row[e].boot \in evidence
    BY Zenon DEF ChainIsOfBoot, IdentityInv
  <2> QED
    BY Zenon DEF RowOK
<1> QED
  BY <1>1, IdentityInvariance, PTL

(* The Agent always holds a credential that the chain of its boot keeps valid,    *)
(* however many answers are lost (redeem_known keeps the presented one).          *)
THEOREM AgentsAreNeverStranded == Spec => []NeverStranded
<1>1. IdentityInv => NeverStranded
  <2> SUFFICES ASSUME IdentityInv, NEW e \in Endpoint, row[e] # None, RowOK(e),
                      NEW s \in Signal, row[e].boot = boot[s]
               PROVE  row[e].pred \in known[s]
    BY Zenon DEF NeverStranded, IdentityInv
  <2> QED
    BY Zenon DEF RowOK
<1> QED
  BY <1>1, IdentityInvariance, PTL

-----------------------------------------------------------------------------
(* Identity implements EndpointFacts. *)

FactsMap == [e \in Endpoint |-> FactsOf(e)]
UsedMap == {c \in Context : context[c] # None /\ context[c].resolved # None}

LEMMA FactsInitial == Init => Promise!FactsInit
<1> SUFFICES ASSUME Init PROVE Promise!FactsInit
  BY Zenon
<1>1. \A e \in Endpoint : FactsOf(e) = None
  BY Zenon DEF Init, FactsOf
<1>2. UsedMap = {}
  BY Zenon DEF Init, UsedMap
<1> QED
  BY Zenon, <1>1, <1>2 DEF Promise!FactsInit, UsedMap

\* Steps of which the gates see nothing.
LEMMA UnseenStep ==
  ASSUME clock' = clock, row' = row, UsedMap' = UsedMap
  PROVE  UNCHANGED Promise!facts
  BY Zenon DEF Promise!facts, FactsOf, UsedMap

\* The facts of an Endpoint that exists.
LEMMA FactsOfRow ==
  ASSUME NEW e \in Endpoint, row[e] \in Row
  PROVE  /\ FactsOf(e) \in Promise!Facts
         /\ FactsOf(e) # None
         /\ FactsOf(e) = Promise!FactsRecord(row[e].identity, row[e].revoked,
                           clock < row[e].predExpires \/ clock < row[e].succExpires,
                           row[e].boot, row[e].trusted)
<1>1. row[e] # None
  BY Zenon, NoneAssumption
<1>2. FactsOf(e) = Promise!FactsRecord(row[e].identity, row[e].revoked,
                     clock < row[e].predExpires \/ clock < row[e].succExpires,
                     row[e].boot, row[e].trusted)
  BY Zenon, <1>1 DEF FactsOf, Promise!FactsRecord
<1>3. /\ row[e].identity \in {"PendingEnrollment", "Enrolled"} /\ row[e].revoked \in BOOLEAN
      /\ row[e].boot \in Context /\ row[e].trusted \in BOOLEAN
  BY Zenon DEF Row
<1>4. (clock < row[e].predExpires \/ clock < row[e].succExpires) \in BOOLEAN
  OBVIOUS
<1>5. FactsOf(e) \in Promise!Facts
  BY <1>2, <1>3, <1>4 DEF Promise!Facts, Promise!FactsRecord
<1> QED
  BY Zenon, <1>2, <1>5, NoFactsAssumption

LEMMA ChangeMapped ==
  ASSUME NEW e \in Endpoint, NEW x, row \in [Endpoint -> Row \cup {None}],
         row' = [row EXCEPT ![e] = x], clock' = clock
  PROVE  FactsMap' = [FactsMap EXCEPT ![e] = FactsOf(e)']
<1>1. ASSUME NEW f \in Endpoint, f # e PROVE FactsOf(f)' = FactsOf(f)
  BY Zenon, <1>1 DEF FactsOf
<1>2. FactsMap' = [f \in Endpoint |-> FactsOf(f)']
  BY Zenon DEF FactsMap
<1> QED
  BY Zenon, <1>1, <1>2 DEF FactsMap

LEMMA WithFactsIsRow ==
  ASSUME NEW x \in Row, NEW i \in {"PendingEnrollment", "Enrolled"},
         NEW v \in BOOLEAN, NEW t \in BOOLEAN
  PROVE  WithFacts(x, i, v, t) \in Row
  BY Zenon DEF WithFacts, Row

\* Approval, revocation and trusted bootstrap.
LEMMA UpdateRefines ==
  ASSUME IdentityInv, NEW e \in Endpoint,
         \/ approve_enrollment(e) \/ revoke_credential(e)
         \/ \E c \in Context : verify_and_establish(e, c)
  PROVE  Promise!FactsNext \/ UNCHANGED Promise!facts
<1>1. Types
  BY DEF IdentityInv
<1>2. row[e] # None /\ row[e] \in Row
  <2>1. row[e] # None
    BY Zenon DEF approve_enrollment, revoke_credential, verify_and_establish
  <2> QED
    BY Zenon, <1>1, <2>1 DEF Types
<1>3. PICK x : x = row[e]
  BY Zenon
<1>4. PICK y : y = FactsOf(e)
  BY Zenon
<1> DEFINE live == clock < x.predExpires \/ clock < x.succExpires
<1>5. /\ x \in Row /\ y # None
      /\ y = Promise!FactsRecord(x.identity, x.revoked, live, x.boot, x.trusted)
  BY Zenon, <1>2, <1>3, <1>4, FactsOfRow
<1>6. /\ y.identity = x.identity /\ y.revoked = x.revoked /\ y.live = live
      /\ y.boot = x.boot /\ y.trusted = x.trusted
  BY Zenon, <1>5 DEF Promise!FactsRecord
<1>7. y = FactsMap[e]
  BY Zenon, <1>4 DEF FactsMap
<1>8. ASSUME NEW new, update_endpoint(e, new), new # None,
             new.predExpires = x.predExpires, new.succExpires = x.succExpires
      PROVE  /\ UsedMap' = UsedMap
             /\ FactsMap' = [FactsMap EXCEPT ![e] =
                  Promise!FactsRecord(new.identity, new.revoked, live, new.boot, new.trusted)]
  <2>1. row' = [row EXCEPT ![e] = new] /\ clock' = clock /\ context' = context
    BY Zenon, <1>8 DEF update_endpoint, persist_transition
  <2>2. row'[e] = new
    BY Zenon, <1>1, <2>1 DEF Types
  <2>3. FactsMap' = [FactsMap EXCEPT ![e] = FactsOf(e)']
    BY Zenon, <1>1, <2>1, ChangeMapped DEF Types
  <2>4. FactsOf(e)' = Promise!FactsRecord(new.identity, new.revoked, live, new.boot, new.trusted)
    BY Zenon, <1>8, <2>1, <2>2 DEF FactsOf, Promise!FactsRecord
  <2>5. UsedMap' = UsedMap
    BY Zenon, <2>1 DEF UsedMap
  <2> QED
    BY Zenon, <2>3, <2>4, <2>5
<1> HIDE DEF live
<1>9. /\ x.identity \in {"PendingEnrollment", "Enrolled"}
      /\ x.revoked \in BOOLEAN /\ x.trusted \in BOOLEAN
  BY Zenon, <1>5 DEF Row
<1>10. /\ WithFacts(x, "Enrolled", x.revoked, x.trusted) # None
       /\ WithFacts(x, x.identity, TRUE, x.trusted) # None
       /\ \A c \in Context : WithFacts(x, x.identity, x.revoked, x.trusted \/ x.boot = c) # None
  BY Zenon, <1>5, <1>9, WithFactsIsRow, NoneAssumption
<1>11. CASE approve_enrollment(e)
  <2>1. PICK new : new = WithFacts(x, "Enrolled", x.revoked, x.trusted)
    BY Zenon
  <2>2. update_endpoint(e, new) /\ x.identity = "PendingEnrollment"
    BY Zenon, <1>3, <1>11, <2>1 DEF approve_enrollment
  <2>3. /\ new # None /\ new.predExpires = x.predExpires /\ new.succExpires = x.succExpires
        /\ new.identity = "Enrolled" /\ new.revoked = x.revoked /\ new.boot = x.boot
        /\ new.trusted = x.trusted
    BY Zenon, <1>10, <2>1 DEF WithFacts
  <2>4. /\ UsedMap' = UsedMap
        /\ FactsMap' = [FactsMap EXCEPT ![e] =
             Promise!FactsRecord("Enrolled", y.revoked, y.live, y.boot, y.trusted)]
    <3>1. /\ UsedMap' = UsedMap
          /\ FactsMap' = [FactsMap EXCEPT ![e] =
               Promise!FactsRecord(new.identity, new.revoked, live, new.boot, new.trusted)]
      BY Zenon, <1>8, <2>2, <2>3
    <3> QED
      BY Zenon, <1>6, <2>3, <3>1
  <2>5. Promise!approve_enrollment(e)
    BY Zenon, <1>5, <1>6, <1>7, <2>2, <2>4
       DEF Promise!approve_enrollment, Promise!Change, FactsMap, UsedMap
  <2> QED
    BY Zenon, <2>5 DEF Promise!FactsNext, Promise!Transaction
<1>12. CASE revoke_credential(e)
  <2>1. PICK new : new = WithFacts(x, x.identity, TRUE, x.trusted)
    BY Zenon
  <2>2. update_endpoint(e, new)
    BY Zenon, <1>3, <1>12, <2>1 DEF revoke_credential
  <2>3. /\ new # None /\ new.predExpires = x.predExpires /\ new.succExpires = x.succExpires
        /\ new.identity = x.identity /\ new.revoked = TRUE /\ new.boot = x.boot
        /\ new.trusted = x.trusted
    BY Zenon, <1>10, <2>1 DEF WithFacts
  <2>4. /\ UsedMap' = UsedMap
        /\ FactsMap' = [FactsMap EXCEPT ![e] =
             Promise!FactsRecord(y.identity, TRUE, y.live, y.boot, y.trusted)]
    <3>1. /\ UsedMap' = UsedMap
          /\ FactsMap' = [FactsMap EXCEPT ![e] =
               Promise!FactsRecord(new.identity, new.revoked, live, new.boot, new.trusted)]
      BY Zenon, <1>8, <2>2, <2>3
    <3> QED
      BY Zenon, <1>6, <2>3, <3>1
  <2>5. Promise!revoke_credential(e)
    BY Zenon, <1>5, <1>7, <2>4
       DEF Promise!revoke_credential, Promise!Change, FactsMap, UsedMap
  <2> QED
    BY Zenon, <2>5 DEF Promise!FactsNext, Promise!Transaction
<1>13. ASSUME NEW c \in Context, verify_and_establish(e, c)
       PROVE  Promise!FactsNext \/ UNCHANGED Promise!facts
  <2>1. PICK new : new = establish_trusted_bootstrap(x, c)
    BY Zenon
  <2>2. update_endpoint(e, new)
    BY Zenon, <1>3, <1>13, <2>1 DEF verify_and_establish
  <2>3. /\ new # None /\ new.predExpires = x.predExpires /\ new.succExpires = x.succExpires
        /\ new.identity = x.identity /\ new.revoked = x.revoked /\ new.boot = x.boot
        /\ new.trusted = (x.trusted \/ x.boot = c)
    BY Zenon, <1>10, <2>1 DEF establish_trusted_bootstrap, WithFacts
  <2>4. CASE new.trusted = x.trusted
    <3>1. /\ UsedMap' = UsedMap
          /\ FactsMap' = [FactsMap EXCEPT ![e] =
               Promise!FactsRecord(new.identity, new.revoked, live, new.boot, new.trusted)]
      BY Zenon, <1>8, <2>2, <2>3
    <3>2. Promise!FactsRecord(new.identity, new.revoked, live, new.boot, new.trusted) = FactsMap[e]
      BY Zenon, <1>5, <1>7, <2>3, <2>4
    <3>3. FactsMap' = FactsMap
      BY Zenon, <3>1, <3>2 DEF FactsMap
    <3> QED
      BY Zenon, <3>1, <3>3 DEF Promise!facts, FactsMap, UsedMap
  <2>5. CASE new.trusted = TRUE
    <3>1. /\ UsedMap' = UsedMap
          /\ FactsMap' = [FactsMap EXCEPT ![e] =
               Promise!FactsRecord(y.identity, y.revoked, y.live, y.boot, TRUE)]
      <4>1. /\ UsedMap' = UsedMap
            /\ FactsMap' = [FactsMap EXCEPT ![e] =
                 Promise!FactsRecord(new.identity, new.revoked, live, new.boot, new.trusted)]
        BY Zenon, <1>8, <2>2, <2>3
      <4> QED
        BY Zenon, <1>6, <2>3, <2>5, <4>1
    <3>2. Promise!establish_trusted_bootstrap(e)
      BY Zenon, <1>5, <1>7, <3>1
         DEF Promise!establish_trusted_bootstrap, Promise!Change, FactsMap, UsedMap
    <3> QED
      BY Zenon, <3>2 DEF Promise!FactsNext, Promise!Transaction
  <2>6. new.trusted = x.trusted \/ new.trusted = TRUE
    <3>1. CASE x.trusted = TRUE
      BY Zenon, <2>3, <3>1
    <3>2. CASE x.trusted = FALSE
      BY Zenon, <2>3, <3>2
    <3> QED
      BY Zenon, <1>9, <3>1, <3>2
  <2> QED
    BY Zenon, <2>4, <2>5, <2>6
<1> QED
  BY Zenon, <1>11, <1>12, <1>13

\* Time passes: exactly the chains whose last slot runs out now expire.
LEMMA TickRefines ==
  ASSUME IdentityInv, tick
  PROVE  Promise!FactsNext
<1>1. Types /\ row' = row /\ context' = context /\ clock' = clock + 1 /\ clock \in Nat
  BY DEF IdentityInv, Types, tick, durable
<1> DEFINE liveAt(x, t) == t < x.predExpires \/ t < x.succExpires
           S == {e \in Endpoint :
                   row[e] # None /\ liveAt(row[e], clock) /\ ~liveAt(row[e], clock + 1)}
<1>2. UsedMap' = UsedMap
  BY <1>1 DEF UsedMap
<1>3. ASSUME NEW e \in Endpoint, row[e] # None
      PROVE  /\ row[e] \in Row /\ FactsOf(e) # None
             /\ FactsOf(e).identity = row[e].identity /\ FactsOf(e).revoked = row[e].revoked
             /\ FactsOf(e).live = liveAt(row[e], clock)
             /\ FactsOf(e).boot = row[e].boot /\ FactsOf(e).trusted = row[e].trusted
             /\ FactsOf(e) = Promise!FactsRecord(row[e].identity, row[e].revoked,
                               liveAt(row[e], clock), row[e].boot, row[e].trusted)
             /\ FactsOf(e)' = Promise!FactsRecord(row[e].identity, row[e].revoked,
                               liveAt(row[e], clock + 1), row[e].boot, row[e].trusted)
  <2>1. row[e] \in Row
    BY Zenon, <1>1, <1>3 DEF Types
  <2>2. /\ FactsOf(e) # None
        /\ FactsOf(e) = Promise!FactsRecord(row[e].identity, row[e].revoked,
                               liveAt(row[e], clock), row[e].boot, row[e].trusted)
    BY Zenon, <2>1, FactsOfRow
  <2>3. FactsOf(e)' = Promise!FactsRecord(row[e].identity, row[e].revoked,
                               liveAt(row[e], clock + 1), row[e].boot, row[e].trusted)
    BY Zenon, <1>1, <1>3 DEF FactsOf, Promise!FactsRecord
  <2>4. /\ FactsOf(e).identity = row[e].identity /\ FactsOf(e).revoked = row[e].revoked
        /\ FactsOf(e).live = liveAt(row[e], clock)
        /\ FactsOf(e).boot = row[e].boot /\ FactsOf(e).trusted = row[e].trusted
    BY <2>2 DEF Promise!FactsRecord
  <2> QED
    BY Zenon, <2>1, <2>2, <2>3, <2>4
<1>4. ASSUME NEW e \in S PROVE FactsOf(e) # None /\ FactsOf(e)' = Promise!Expired(FactsOf(e))
  <2>1. e \in Endpoint /\ row[e] # None /\ liveAt(row[e], clock + 1) = FALSE
    BY Zenon, <1>4
  <2> QED
    BY Zenon, <1>3, <2>1 DEF Promise!Expired
<1>5. ASSUME NEW e \in Endpoint \ S PROVE FactsOf(e)' = FactsOf(e)
  <2>1. CASE row[e] = None
    BY Zenon, <1>1, <2>1 DEF FactsOf
  <2>2. CASE row[e] # None
    <3>1. liveAt(row[e], clock + 1) = liveAt(row[e], clock)
      <4>1. row[e].predExpires \in Nat /\ row[e].succExpires \in Nat
        BY Zenon, <1>3, <2>2 DEF Row
      <4>2. liveAt(row[e], clock + 1) => liveAt(row[e], clock)
        BY <1>1, <4>1
      <4>3. liveAt(row[e], clock) => liveAt(row[e], clock + 1)
        BY Zenon, <1>5, <2>2
      <4> QED
        BY Zenon, <4>2, <4>3
    <3> QED
      BY Zenon, <1>3, <2>2, <3>1
  <2> QED
    BY Zenon, <2>1, <2>2
<1> HIDE DEF S
<1>6. FactsMap' = [e \in Endpoint |->
                     IF e \in S THEN Promise!Expired(FactsMap[e]) ELSE FactsMap[e]]
  <2>1. FactsMap' = [e \in Endpoint |-> FactsOf(e)']
    BY Zenon DEF FactsMap
  <2>2. \A e \in Endpoint : FactsMap[e] = FactsOf(e)
    BY Zenon DEF FactsMap
  <2> QED
    BY Zenon, <1>4, <1>5, <2>1, <2>2
<1>7. S \in SUBSET Endpoint /\ \A e \in S : FactsMap[e] # None
  BY Zenon, <1>4 DEF S, FactsMap
<1>8. Promise!expire(S)
  BY Zenon, <1>2, <1>6, <1>7 DEF Promise!expire, FactsMap, UsedMap
<1> QED
  BY Zenon, <1>7, <1>8 DEF Promise!FactsNext

\* The commit of a redemption, as the gates see it.
LEMMA EstablishMapped ==
  ASSUME IdentityInv, NEW r \in Request, NEW e \in Endpoint, NEW new \in Row,
         Establish(r, e, new), clock' = clock, tx[r].phase = "Decide"
  PROVE  /\ FactsMap' = [FactsMap EXCEPT ![e] =
              Promise!FactsRecord(new.identity, new.revoked,
                clock < new.predExpires \/ clock < new.succExpires, new.boot, new.trusted)]
         /\ ~tx[r].holdsSignal => UsedMap' = UsedMap
         /\ tx[r].holdsSignal => /\ tx[r].cred.boot \in Context
                                 /\ tx[r].cred.boot \notin UsedMap
                                 /\ UsedMap' = UsedMap \cup {tx[r].cred.boot}
<1>1. Types /\ TxOK(r)
  BY Zenon DEF IdentityInv
<1>2. row' = [row EXCEPT ![e] = new] /\ row'[e] = new /\ new # None
  BY Zenon, <1>1, NoneAssumption DEF Establish, persist_transition, Types
<1>3. FactsMap' = [FactsMap EXCEPT ![e] = FactsOf(e)']
  BY Zenon, <1>1, <1>2, ChangeMapped DEF Types
<1>4. FactsOf(e)' = Promise!FactsRecord(new.identity, new.revoked,
                      clock < new.predExpires \/ clock < new.succExpires, new.boot, new.trusted)
  BY Zenon, <1>2 DEF FactsOf, Promise!FactsRecord
<1>5. PICK c : c = tx[r].cred.boot
  BY Zenon
<1>6. c \in Context /\ context[c] # None /\ (tx[r].holdsSignal => context[c].resolved = None)
  BY Zenon, <1>1, <1>5 DEF TxOK, Issued, Credential
<1>7. CASE ~tx[r].holdsSignal
  <2>1. context' = context
    BY Zenon, <1>7 DEF Establish, persist_boot_context_resolution
  <2>2. UsedMap' = UsedMap
    BY Zenon, <2>1 DEF UsedMap
  <2> QED
    BY Zenon, <1>3, <1>4, <1>7, <2>2
<1>8. CASE tx[r].holdsSignal
  <2>1. /\ context'[c] # None /\ context'[c].resolved = e
        /\ \A d \in Context \ {c} : context'[d] = context[d]
    <3>1. PICK b : b = [signal |-> context[c].signal, expires |-> context[c].expires,
                        resolved |-> e]
      BY Zenon
    <3>2. b # None /\ b.resolved = e
      BY <1>1, <1>5, <1>6, <3>1, NoneAssumption DEF Types, BootContext
    <3>3. context' = [context EXCEPT ![c] = b]
      BY Zenon, <1>5, <1>8, <3>1 DEF Establish, persist_boot_context_resolution
    <3> QED
      BY Zenon, <1>1, <1>6, <3>2, <3>3 DEF Types
  <2>2. c \notin UsedMap
    BY Zenon, <1>6, <1>8 DEF UsedMap
  <2>3. UsedMap' = UsedMap \cup {c}
    BY Zenon, <1>6, <2>1, NoneAssumption DEF UsedMap
  <2> QED
    BY Zenon, <1>3, <1>4, <1>5, <1>6, <1>8, <2>2, <2>3
<1> QED
  BY Zenon, <1>7, <1>8

LEMMA ReconnectRefines ==
  ASSUME IdentityInv, NEW r \in Request, NEW e \in Endpoint, e = tx[r].endpoint,
         tx[r].phase = "Decide", ~tx[r].holdsSignal, NEW slot,
         slot = authenticate(row[e], tx[r].snapshot, tx[r].cred), slot # "Rejected",
         Establish(r, e, redeem_known(row[e], slot, tx[r].cred)), clock' = clock
  PROVE  UNCHANGED Promise!facts
<1>1. Types /\ TxOK(r) /\ RowOK(e)
  BY Zenon DEF IdentityInv
<1>2. row[e] # None /\ row[e] \in Row /\ tx[r].cred \in Credential
  BY Zenon, <1>1, NoneAssumption DEF TxOK, Types, Issued
<1>3. PICK x : x = row[e]
  BY Zenon
<1>4. clock < x.predExpires \/ clock < x.succExpires
  BY Zenon, <1>3 DEF authenticate, matches
<1>5. PICK new : new = redeem_known(x, slot, tx[r].cred)
  BY Zenon
<1>6. /\ new.identity = x.identity /\ new.revoked = x.revoked /\ new.boot = x.boot
      /\ new.trusted = x.trusted /\ new.succExpires = clock + CredentialTtl
  BY Zenon, <1>5 DEF redeem_known
<1>7. /\ Fresh(tx[r].cred) \in Credential /\ clock + CredentialTtl \in Nat
      /\ clock < clock + CredentialTtl
  BY <1>1, <1>2, TtlAssumption DEF Types, Fresh, Credential
<1>8. new \in Row
  BY Zenon, <1>2, <1>3, <1>5, <1>7 DEF redeem_known, Row
<1>9. Establish(r, e, new)
  BY Zenon, <1>3, <1>5
<1>10. /\ UsedMap' = UsedMap
       /\ FactsMap' = [FactsMap EXCEPT ![e] =
            Promise!FactsRecord(new.identity, new.revoked,
              clock < new.predExpires \/ clock < new.succExpires, new.boot, new.trusted)]
  <2>1. FactsMap' = [FactsMap EXCEPT ![e] =
          Promise!FactsRecord(new.identity, new.revoked,
            clock < new.predExpires \/ clock < new.succExpires, new.boot, new.trusted)]
    BY <1>8, <1>9, EstablishMapped
  <2>2. UsedMap' = UsedMap
    BY Zenon, <1>8, <1>9, EstablishMapped
  <2> QED
    BY Zenon, <2>1, <2>2
<1>11. (clock < new.predExpires \/ clock < new.succExpires) = TRUE
  BY Zenon, <1>6, <1>7
<1>12. (clock < x.predExpires \/ clock < x.succExpires) = TRUE
  BY Zenon, <1>4
<1>13. FactsOf(e) = Promise!FactsRecord(x.identity, x.revoked,
                      clock < x.predExpires \/ clock < x.succExpires, x.boot, x.trusted)
  BY Zenon, <1>2, <1>3, FactsOfRow
<1>14. FactsMap' = [FactsMap EXCEPT ![e] = FactsOf(e)]
  BY Zenon, <1>6, <1>10, <1>11, <1>12, <1>13
<1>15. FactsMap' = FactsMap
  BY Zenon, <1>14 DEF FactsMap
<1> QED
  BY Zenon, <1>10, <1>15 DEF Promise!facts, FactsMap, UsedMap

LEMMA RebootRefines ==
  ASSUME IdentityInv, NEW r \in Request, NEW e \in Endpoint, e = tx[r].endpoint,
         tx[r].phase = "Decide", tx[r].holdsSignal, ~row[e].revoked,
         Establish(r, e, genuine_reboot(row[e], tx[r].cred)), clock' = clock
  PROVE  Promise!FactsNext
<1>1. Types /\ TxOK(r)
  BY Zenon DEF IdentityInv
<1>2. row[e] # None /\ row[e] \in Row /\ tx[r].cred \in Credential
  BY Zenon, <1>1, NoneAssumption DEF TxOK, Types, Issued
<1>3. PICK x : x = row[e]
  BY Zenon
<1>4. PICK new : new = genuine_reboot(x, tx[r].cred)
  BY Zenon
<1>5. PICK c : c = tx[r].cred.boot
  BY Zenon
<1>6. /\ Fresh(tx[r].cred) \in Credential /\ clock + CredentialTtl \in Nat
      /\ c \in Context /\ clock < clock + CredentialTtl
  BY <1>1, <1>2, <1>5, TtlAssumption DEF Types, Fresh, Credential
<1>7. new \in Row
  BY Zenon, <1>2, <1>3, <1>4, <1>5, <1>6 DEF genuine_reboot, Row
<1>8. /\ new.identity = x.identity /\ new.revoked = x.revoked /\ new.boot = c
      /\ new.succExpires = clock + CredentialTtl /\ ~new.trusted
  BY Zenon, <1>4, <1>5 DEF genuine_reboot
<1>9. x.revoked = FALSE /\ new.trusted = FALSE
  <2>1. x.revoked \in BOOLEAN /\ new.trusted \in BOOLEAN
    BY Zenon, <1>2, <1>3, <1>7 DEF Row
  <2> QED
    BY Zenon, <1>3, <1>8, <2>1
<1>10. Establish(r, e, new)
  BY Zenon, <1>3, <1>4
<1>11. /\ c \notin UsedMap /\ UsedMap' = UsedMap \cup {c}
       /\ FactsMap' = [FactsMap EXCEPT ![e] =
            Promise!FactsRecord(new.identity, new.revoked,
              clock < new.predExpires \/ clock < new.succExpires, new.boot, new.trusted)]
  BY Zenon, <1>5, <1>7, <1>10, EstablishMapped
<1>12. (clock < new.predExpires \/ clock < new.succExpires) = TRUE
  BY Zenon, <1>6, <1>8
<1>13. FactsMap[e] # None /\ FactsMap[e].identity = x.identity /\ ~FactsMap[e].revoked
  <2>1. /\ FactsOf(e) # None
        /\ FactsOf(e) = Promise!FactsRecord(x.identity, x.revoked,
                          clock < x.predExpires \/ clock < x.succExpires, x.boot, x.trusted)
    BY Zenon, <1>2, <1>3, FactsOfRow
  <2>2. FactsMap[e] = FactsOf(e)
    BY Zenon DEF FactsMap
  <2> QED
    BY <1>3, <2>1, <2>2 DEF Promise!FactsRecord
<1>14. FactsMap' = [FactsMap EXCEPT ![e] =
                      Promise!FactsRecord(FactsMap[e].identity, FALSE, TRUE, c, FALSE)]
  BY Zenon, <1>8, <1>9, <1>11, <1>12, <1>13
<1>15. Promise!genuine_reboot(e, c)
  BY Zenon, <1>11, <1>13, <1>14
     DEF Promise!genuine_reboot, Promise!Change, FactsMap, UsedMap
<1> QED
  BY Zenon, <1>6, <1>15 DEF Promise!FactsNext, Promise!Transaction

LEMMA FirstContactRefines ==
  ASSUME IdentityInv, NEW r \in Request, NEW e \in Endpoint, row[e] = None,
         tx[r].phase = "Decide", tx[r].holdsSignal,
         Establish(r, e, first_contact(tx[r].cred)), clock' = clock
  PROVE  Promise!FactsNext
<1>1. Types /\ TxOK(r)
  BY Zenon DEF IdentityInv
<1>2. tx[r].cred \in Credential /\ context[tx[r].cred.boot] # None
  BY Zenon, <1>1 DEF TxOK, Issued
<1>3. PICK new : new = first_contact(tx[r].cred)
  BY Zenon
<1>4. PICK c : c = tx[r].cred.boot
  BY Zenon
<1>5. /\ Fresh(tx[r].cred) \in Credential /\ clock + CredentialTtl \in Nat
      /\ c \in Context /\ clock < clock + CredentialTtl
  BY <1>1, <1>2, <1>4, TtlAssumption DEF Types, Fresh, Credential
<1>6. context[c].signal \in Signal
  BY Zenon, <1>1, <1>2, <1>4, <1>5 DEF Types, BootContext
<1>7. new \in Row
  BY Zenon, <1>2, <1>3, <1>4, <1>5, <1>6 DEF first_contact, Row
<1>8. /\ new.identity = "PendingEnrollment" /\ new.revoked = FALSE /\ new.boot = c
      /\ new.succExpires = clock + CredentialTtl /\ new.trusted = FALSE
  BY Zenon, <1>3, <1>4 DEF first_contact
<1>9. Establish(r, e, new)
  BY Zenon, <1>3
<1>10. /\ c \notin UsedMap /\ UsedMap' = UsedMap \cup {c}
       /\ FactsMap' = [FactsMap EXCEPT ![e] =
            Promise!FactsRecord(new.identity, new.revoked,
              clock < new.predExpires \/ clock < new.succExpires, new.boot, new.trusted)]
  BY Zenon, <1>4, <1>7, <1>9, EstablishMapped
<1>11. (clock < new.predExpires \/ clock < new.succExpires) = TRUE
  BY Zenon, <1>5, <1>8
<1>12. FactsMap[e] = None
  BY Zenon DEF FactsMap, FactsOf
<1>13. FactsMap' = [FactsMap EXCEPT ![e] =
                      Promise!FactsRecord("PendingEnrollment", FALSE, TRUE, c, FALSE)]
  BY Zenon, <1>8, <1>10, <1>11
<1>14. Promise!first_contact(e, c)
  BY Zenon, <1>10, <1>12, <1>13
     DEF Promise!first_contact, Promise!Change, FactsMap, UsedMap
<1> QED
  BY Zenon, <1>5, <1>14 DEF Promise!FactsNext, Promise!Transaction

LEMMA RedeemRefines ==
  ASSUME IdentityInv, NEW r \in Request, redeem(r)
  PROVE  Promise!FactsNext \/ UNCHANGED Promise!facts
<1>1. tx[r].phase = "Decide" /\ clock' = clock
  BY Zenon DEF redeem
<1>2. tx[r].endpoint \in Endpoint \cup {None}
  BY Zenon DEF IdentityInv, Types, Redemption
<1>3. ASSUME Rejected(r) PROVE UNCHANGED Promise!facts
  <2>1. row' = row /\ context' = context
    BY Zenon, <1>3 DEF Rejected, Rollback, durable
  <2>2. UsedMap' = UsedMap
    BY Zenon, <2>1 DEF UsedMap
  <2> QED
    BY Zenon, <1>1, <2>1, <2>2, UnseenStep
<1>4. CASE tx[r].endpoint # None /\ ~tx[r].holdsSignal
  <2>1. PICK e : e = tx[r].endpoint
    BY Zenon
  <2>2. PICK slot : slot = authenticate(row[e], tx[r].snapshot, tx[r].cred)
    BY Zenon
  <2>3. e \in Endpoint
    BY Zenon, <1>2, <1>4, <2>1
  <2>4. \/ Rejected(r)
        \/ slot # "Rejected" /\ Establish(r, e, redeem_known(row[e], slot, tx[r].cred))
    BY Zenon, <1>4, <2>1, <2>2 DEF redeem
  <2> QED
    BY Zenon, <1>1, <1>3, <1>4, <2>1, <2>2, <2>3, <2>4, ReconnectRefines
<1>5. CASE tx[r].endpoint # None /\ tx[r].holdsSignal
  <2>1. PICK e : e = tx[r].endpoint
    BY Zenon
  <2>2. e \in Endpoint
    BY Zenon, <1>2, <1>5, <2>1
  <2>3. \/ Rejected(r)
        \/ ~row[e].revoked /\ Establish(r, e, genuine_reboot(row[e], tx[r].cred))
    BY Zenon, <1>5, <2>1 DEF redeem, MayReboot
  <2> QED
    BY Zenon, <1>1, <1>3, <1>5, <2>1, <2>2, <2>3, RebootRefines
<1>6. CASE tx[r].endpoint = None
  <2>1. ~Conflict(r) /\ tx[r].holdsSignal
    BY Zenon, <1>1, <1>6, NoConflict
  <2>2. PICK e : e = CHOOSE x \in {x \in Endpoint : row[x] = None} : TRUE
    BY Zenon
  <2>3. \/ Rejected(r)
        \/ {x \in Endpoint : row[x] = None} # {} /\ Establish(r, e, first_contact(tx[r].cred))
    BY Zenon, <1>6, <2>1, <2>2 DEF redeem
  <2>4. {x \in Endpoint : row[x] = None} # {} => e \in Endpoint /\ row[e] = None
    BY Zenon, <2>2
  <2> QED
    BY Zenon, <1>1, <1>3, <2>1, <2>3, <2>4, FirstContactRefines
<1> QED
  BY Zenon, <1>4, <1>5, <1>6

LEMMA FactsRefine ==
  IdentityInv /\ [Next]_vars => [Promise!FactsNext]_(Promise!facts)
<1> SUFFICES ASSUME IdentityInv, [Next]_vars
             PROVE  Promise!FactsNext \/ UNCHANGED Promise!facts
  BY Zenon
<1>1. CASE tick
  BY Zenon, <1>1, TickRefines
<1>2. ASSUME NEW c \in Context, NEW s \in Signal, issue_enrollment_credential(c, s)
      PROVE  UNCHANGED Promise!facts
  <2>1. /\ context[c] = None /\ clock' = clock /\ row' = row
        /\ context'[c].resolved = None /\ \A d \in Context \ {c} : context'[d] = context[d]
    BY Zenon, <1>2 DEF issue_enrollment_credential, IdentityInv, Types
  <2>2. UsedMap' = UsedMap
    BY Zenon, <2>1 DEF UsedMap
  <2> QED
    BY Zenon, <2>1, <2>2, UnseenStep
<1>3. ASSUME NEW r \in Request, Statement(r), ~redeem(r) PROVE UNCHANGED Promise!facts
  <2>1. clock' = clock /\ UNCHANGED durable
    BY Zenon, <1>3 DEF Statement, route, load_boot_context_for_update, lock_signal,
       load_by_signal, load_by_id, lock_endpoint, answer
  <2>2. row' = row /\ UsedMap' = UsedMap
    BY Zenon, <2>1 DEF durable, UsedMap
  <2> QED
    BY Zenon, <2>1, <2>2, UnseenStep
<1>4. ASSUME \/ \E r \in Request, s \in Signal : authenticate_request(r, s)
             \/ \E r \in Request : lose_answer(r) \/ abort(r)
             \/ restart
             \/ UNCHANGED vars
      PROVE  UNCHANGED Promise!facts
  <2>1. clock' = clock /\ row' = row /\ context' = context
    <3>1. clock' = clock /\ UNCHANGED durable
      BY Zenon, <1>4 DEF authenticate_request, lose_answer, abort, restart, vars, durable
    <3> QED
      BY Zenon, <3>1 DEF durable
  <2>2. UsedMap' = UsedMap
    BY Zenon, <2>1 DEF UsedMap
  <2> QED
    BY Zenon, <2>1, <2>2, UnseenStep
<1>5. ASSUME NEW r \in Request, redeem(r)
      PROVE  Promise!FactsNext \/ UNCHANGED Promise!facts
  BY Zenon, <1>5, RedeemRefines
<1>6. ASSUME NEW e \in Endpoint,
             \/ approve_enrollment(e) \/ revoke_credential(e)
             \/ \E c \in Context : verify_and_establish(e, c)
      PROVE  Promise!FactsNext \/ UNCHANGED Promise!facts
  BY Zenon, <1>6, UpdateRefines
<1> QED
  BY Zenon, <1>1, <1>2, <1>3, <1>4, <1>5, <1>6 DEF Next

(* What the dispatch gates rely on: redemptions, their faults and their races,   *)
(* seen through the facts that the gates read, are the steps of EndpointFacts:   *)
(* a reconnect (redeem_known) changes no fact and renews no expired chain, a     *)
(* boot becomes current once, and starts untrusted (genuine_reboot).             *)
THEOREM IdentityRefines == Spec => RefinesEndpointFacts
  BY FactsInitial, FactsRefine, IdentityInvariance, PTL
     DEF Spec, RefinesEndpointFacts, Promise!FactsSpec

=============================================================================
