------------------------ MODULE AuthorizationProofs ------------------------
(***************************************************************************)
(* Proofs about Authorization, for any number of capabilities, proofs and  *)
(* concurrent requests, any window, time to live, capacity and clock, and  *)
(* any number of restarts and clock changes.                               *)
(*                                                                         *)
(* A terminal outcome, a revocation and the end of the Artifact are final, *)
(* so a request that came when the Transfer was over stays without effect. *)
(* A spent proof stays in the replay cache until a request that has read   *)
(* the clock past its window enters it, or its capability went with the    *)
(* cache and never comes back (Spent).                                     *)
(***************************************************************************)
EXTENDS Authorization, TLAPS

\* The time limit of the solver, in seconds, for every leaf that names no other
\* prover.
USE SMTT(60)

\* The end of the freshness window of a proof.
ValidUntil(p) == proof[p].issued + PastWindow

ProofEntry == [cap : Capability, op : Operation, issued : Int]
Pending == [at : {"Checked", "Loaded"}, proof : Proof, now : Int, over : BOOLEAN]
ApprovalEntry == [proof : Proof, over : BOOLEAN, repeated : BOOLEAN, overtaken : BOOLEAN]

Types ==
  /\ clock \in Int /\ swept \in Int /\ active \in BOOLEAN
  /\ store \in [Capability -> {None} \cup Int]
  /\ seen \in [Proof -> {None} \cup Int]
  /\ proof \in [Proof -> {None} \cup ProofEntry]
  /\ req \in [Request -> {Idle} \cup Pending]
  /\ approved \subseteq ApprovalEntry

\* What is known of a request between its tests and its decision.
RequestsAreSound ==
  \A r \in Request : req[r] # Idle =>
    /\ proof[req[r].proof] # None
    /\ req[r].now <= ValidUntil(req[r].proof)
    /\ req[r].over => req[r].at = "Checked" /\ Over

CacheIsSound ==
  \A p \in Proof : seen[p] # None => proof[p] # None /\ seen[p] = ValidUntil(p)

\* An approved proof cannot be approved again before it is overtaken.
Spent(p) ==
  \/ swept > ValidUntil(p)
  \/ seen[p] # None
  \/ store[proof[p].cap] = None /\ \A r \in Request : req[r] # Idle => req[r].proof # p

ApprovalsAreSpent ==
  \A a \in approved : proof[a.proof] # None /\ Spent(a.proof)

AInv ==
  /\ Types
  /\ RequestsAreSound /\ CacheIsSound /\ ApprovalsAreSpent
  /\ RepeatOnlyWhenOvertaken /\ OverIsNeverApproved

-----------------------------------------------------------------------------
\* Nothing has been issued, asked or approved initially.
LEMMA InitAInv == Init => AInv
<1> SUFFICES ASSUME Init PROVE AInv
  OBVIOUS
<1>1. active \in BOOLEAN
  BY Zenon DEF Init
<1>2. /\ clock \in Int /\ swept \in Int /\ approved = {}
      /\ store = [c \in Capability |-> None] /\ req = [r \in Request |-> Idle]
      /\ seen = [p \in Proof |-> None] /\ proof = [p \in Proof |-> None]
  BY DEF Init
<1>3. Types
  BY <1>1, <1>2 DEF Types
<1>4. QED
  BY <1>2, <1>3
     DEF AInv, RequestsAreSound, CacheIsSound, ApprovalsAreSpent,
         RepeatOnlyWhenOvertaken, OverIsNeverApproved

\* The clock and the durable state change; nobody looks.
World ==
  /\ UNCHANGED <<store, seen, swept, req, proof, approved>>
  /\ clock' \in Int /\ active' \in BOOLEAN
  /\ Over => Over'

\* Ticks, a clock set back, the binding, evidence, verdicts and revocations
\* touch no capability, proof or request, and what is over stays so: also when
\* an Attempt returns from AwaitingReconciliation.
LEMMA WorldSteps == AInv /\ WorldNext => World
<1> SUFFICES ASSUME AInv, WorldNext PROVE World
  OBVIOUS
<1>1. UNCHANGED <<store, seen, swept, req, proof, approved>>
  BY Zenon DEF WorldNext, tick, set_back, bind_attempt, apply_action_evidence,
     mark_awaiting_reconciliation, apply_status_report, verify_artifact,
     revoke_credential, process
<1>2. clock' \in Int
  BY DEF AInv, Types, WorldNext, tick, set_back, bind_attempt, apply_action_evidence,
     mark_awaiting_reconciliation, apply_status_report, verify_artifact,
     revoke_credential
<1>3. active' = active \/ active' = FALSE
  BY Zenon DEF WorldNext, tick, set_back, bind_attempt, apply_action_evidence,
     mark_awaiting_reconciliation, apply_status_report, verify_artifact,
     revoke_credential, durable
<1>4. active' \in BOOLEAN
  BY Zenon, <1>3 DEF AInv, Types
<1>5. ~active => ~active'
  BY Zenon, <1>3
<1>6. attempt = "Ended" => attempt' = "Ended"
  BY DEF WorldNext, tick, set_back, bind_attempt, apply_action_evidence,
     mark_awaiting_reconciliation, apply_status_report, verify_artifact,
     revoke_credential, durable
<1>7. artifact \in {"Verified", "Failed"} => artifact' \in {"Verified", "Failed"}
  BY DEF WorldNext, tick, set_back, bind_attempt, apply_action_evidence, EndAttempt,
     mark_awaiting_reconciliation, apply_status_report, verify_artifact,
     revoke_credential, durable
<1>8. Over => Over'
  BY Zenon, <1>5, <1>6, <1>7 DEF Over
<1>9. QED  BY Zenon, <1>1, <1>2, <1>4, <1>8 DEF World

LEMMA WorldPreserves == AInv /\ World => AInv'
<1> SUFFICES ASSUME AInv, World PROVE AInv'
  OBVIOUS
<1>1. Types'
  BY Zenon DEF AInv, Types, World
<1>2. RequestsAreSound'
  BY Zenon DEF AInv, RequestsAreSound, World, ValidUntil
<1>3. CacheIsSound'
  BY Zenon DEF AInv, CacheIsSound, World, ValidUntil
<1>4. ApprovalsAreSpent'
  BY Zenon DEF AInv, ApprovalsAreSpent, Spent, World, ValidUntil
<1>5. RepeatOnlyWhenOvertaken' /\ OverIsNeverApproved'
  BY Zenon DEF AInv, World, RepeatOnlyWhenOvertaken, OverIsNeverApproved
<1>6. QED  BY <1>1, <1>2, <1>3, <1>4, <1>5 DEF AInv

-----------------------------------------------------------------------------
\* A restart takes the capabilities with the cache, so that nothing that was
\* approved before can be presented after it.
LEMMA RestartPreserves == AInv /\ restart => AInv'
<1> SUFFICES ASSUME AInv, restart PROVE AInv'
  OBVIOUS
<1>1. /\ UNCHANGED <<clock, active, proof, approved>>
      /\ store' = [c \in Capability |-> None] /\ swept' = 0
      /\ seen' = [p \in Proof |-> None] /\ req' = [r \in Request |-> Idle]
  BY DEF restart, durable
<1>2. Types'
  BY <1>1 DEF AInv, Types
<1>3. RequestsAreSound' /\ CacheIsSound'
  BY <1>1 DEF RequestsAreSound, CacheIsSound
<1>4. ApprovalsAreSpent'
  <2> SUFFICES ASSUME NEW a \in approved PROVE proof[a.proof] # None /\ Spent(a.proof)'
    BY <1>1 DEF ApprovalsAreSpent
  <2>1. a.proof \in Proof /\ proof[a.proof] # None
    BY DEF AInv, Types, ApprovalEntry, ApprovalsAreSpent
  <2>2. proof[a.proof].cap \in Capability
    BY <2>1 DEF AInv, Types, ProofEntry
  <2>3. QED  BY <1>1, <2>1, <2>2 DEF Spent
<1>5. RepeatOnlyWhenOvertaken' /\ OverIsNeverApproved'
  BY <1>1 DEF AInv, RepeatOnlyWhenOvertaken, OverIsNeverApproved
<1>6. QED  BY <1>2, <1>3, <1>4, <1>5 DEF AInv

\* A capability is fresh: no proof was ever made with it.
LEMMA IssuePreserves ==
  ASSUME AInv, NEW c \in Capability, issue(c)
  PROVE  AInv'
<1>1. /\ UNCHANGED <<clock, durable, seen, swept, req, proof, approved>>
      /\ \A p \in Proof : proof[p] # None => proof[p].cap # c
  BY Zenon DEF issue, Live, AInv, Types
<1>2. \A d \in Capability :
        \/ store'[d] \in {None, store[d]}
        \/ d = c /\ store'[d] = clock + Ttl
  BY Zenon DEF issue
<1>3. store' \in [Capability -> {None} \cup Int]
  <2>1. \E f : store' = [d \in Capability |-> f[d]]
    BY DEF issue
  <2>2. clock + Ttl \in Int
    BY TimesAssumption DEF AInv, Types
  <2>3. QED  BY Zenon, <1>2, <2>1, <2>2 DEF AInv, Types
<1>4. Types'
  BY Zenon, <1>1, <1>3 DEF AInv, Types, durable
<1>5. RequestsAreSound' /\ CacheIsSound'
  BY Zenon, <1>1 DEF AInv, RequestsAreSound, Over, ValidUntil, CacheIsSound, durable
<1>6. ApprovalsAreSpent'
  <2> SUFFICES ASSUME NEW a \in approved PROVE Spent(a.proof)'
    BY Zenon, <1>1 DEF AInv, ApprovalsAreSpent
  <2>1. a.proof \in Proof /\ proof[a.proof] # None /\ Spent(a.proof)
    BY Zenon DEF AInv, Types, ApprovalEntry, ApprovalsAreSpent
  <2>2. proof[a.proof].cap \in Capability /\ proof[a.proof].cap # c
    BY Zenon, <1>1, <2>1 DEF AInv, Types, ProofEntry
  <2>3. store[proof[a.proof].cap] = None => store'[proof[a.proof].cap] = None
    BY Zenon, <1>2, <2>2
  <2>4. QED  BY Zenon, <1>1, <2>1, <2>3 DEF Spent, ValidUntil
<1>7. RepeatOnlyWhenOvertaken' /\ OverIsNeverApproved'
  BY Zenon, <1>1 DEF AInv, RepeatOnlyWhenOvertaken, OverIsNeverApproved
<1>8. QED  BY <1>4, <1>5, <1>6, <1>7 DEF AInv

\* A proof is new when it is made.
LEMMA CreateProofPreserves ==
  ASSUME AInv, NEW p \in Proof, NEW c \in Capability, NEW op \in Operation,
         create_proof(p, c, op)
  PROVE  AInv'
<1>1. PICK issued \in Int :
        proof' = [proof EXCEPT ![p] = [cap |-> c, op |-> op, issued |-> issued]]
  <2>1. clock..(clock + FutureSkew + 1) \subseteq Int
    BY TimesAssumption DEF AInv, Types
  <2>2. \E issued \in clock..(clock + FutureSkew + 1) :
          proof' = [proof EXCEPT ![p] = [cap |-> c, op |-> op, issued |-> issued]]
    BY Zenon DEF create_proof
  <2>3. QED  BY Zenon, <2>1, <2>2
<1>2. /\ UNCHANGED <<clock, durable, store, seen, swept, req, approved>>
      /\ proof[p] = None
  BY DEF create_proof, process
<1>3. proof' \in [Proof -> {None} \cup ProofEntry]
  BY Zenon, <1>1 DEF AInv, Types, ProofEntry
<1>4. \A q \in Proof : proof[q] # None => proof'[q] = proof[q]
  BY Zenon, <1>1, <1>2 DEF AInv, Types
<1>5. Types'
  BY Zenon, <1>2, <1>3 DEF AInv, Types, durable
<1>6. RequestsAreSound'
  BY Zenon, <1>2, <1>4 DEF AInv, Types, Pending, RequestsAreSound, Over, ValidUntil, durable
<1>7. CacheIsSound'
  BY <1>2, <1>4 DEF AInv, CacheIsSound, ValidUntil
<1>8. ApprovalsAreSpent'
  BY Zenon, <1>2, <1>4
     DEF AInv, Types, ApprovalEntry, ApprovalsAreSpent, Spent, ValidUntil
<1>9. RepeatOnlyWhenOvertaken' /\ OverIsNeverApproved'
  BY Zenon, <1>2 DEF AInv, RepeatOnlyWhenOvertaken, OverIsNeverApproved
<1>10. QED  BY <1>5, <1>6, <1>7, <1>8, <1>9 DEF AInv

-----------------------------------------------------------------------------
(* Requests.                                                               *)

\* A request that passes the first tests is within its proof's window.
LEMMA CheckPreserves ==
  ASSUME AInv, NEW r \in Request, NEW p \in Proof, check_request(r, p)
  PROVE  AInv'
<1> DEFINE c == proof[p].cap
           new == [at |-> "Checked", proof |-> p, now |-> clock, over |-> Over]
<1>1. /\ UNCHANGED <<clock, durable, store, seen, swept, proof, approved>>
      /\ req[r] = Idle /\ proof[p] # None
  BY Zenon DEF check_request
<1>2. proof[p] \in ProofEntry
  BY <1>1 DEF AInv, Types
<1>3. \/ req' = [req EXCEPT ![r] = Idle]
      \/ /\ req' = [req EXCEPT ![r] = new]
         /\ store[c] # None /\ proof_is_fresh(proof[p].issued, clock)
  BY Zenon DEF check_request
<1>4. CASE req' = [req EXCEPT ![r] = Idle]
  <2>1. req' = req
    BY <1>1, <1>4 DEF AInv, Types
  <2>2. World
    BY Zenon, <1>1, <2>1 DEF World, AInv, Types, Over, durable
  <2>3. QED  BY <2>2, WorldPreserves
<1>5. CASE /\ req' = [req EXCEPT ![r] = new]
           /\ store[c] # None /\ proof_is_fresh(proof[p].issued, clock)
  <2>1. Over \in BOOLEAN
    BY Zenon DEF Over
  <2>2. new \in Pending
    BY Zenon, <2>1 DEF Pending, AInv, Types
  <2>3. clock <= ValidUntil(p)
    BY <1>2, <1>5, TimesAssumption DEF proof_is_fresh, ValidUntil, ProofEntry, AInv, Types
  <2>4. /\ new.proof = p /\ new.now = clock /\ new.at = "Checked"
        /\ new.over = Over
    OBVIOUS
  <2> HIDE DEF new
  <2>5. req' \in [Request -> {Idle} \cup Pending] /\ req'[r] = new
        /\ \A q \in Request \ {r} : req'[q] = req[q]
    BY <1>5, <2>2 DEF AInv, Types
  <2>6. Types'
    BY Zenon, <1>1, <2>5 DEF AInv, Types, durable
  <2>7. RequestsAreSound'
    <3>1. ASSUME NEW q \in Request \ {r}, req[q] # Idle
          PROVE  /\ proof[req[q].proof] # None
                 /\ req[q].now <= ValidUntil(req[q].proof)
                 /\ req[q].over => req[q].at = "Checked" /\ Over
      BY Zenon, <3>1 DEF AInv, RequestsAreSound
    <3>2. /\ proof[new.proof] # None
          /\ new.now <= ValidUntil(new.proof)
          /\ new.over => new.at = "Checked" /\ Over
      BY Zenon, <1>1, <2>3, <2>4 DEF AInv
    <3>3. Over' = Over
      BY Zenon, <1>1 DEF Over, durable
    <3>4. \A q \in Request : q = r \/ q \in Request \ {r}
      BY Zenon
    <3>5. QED  BY Zenon, <1>1, <2>5, <3>1, <3>2, <3>3, <3>4 DEF RequestsAreSound, ValidUntil
  <2>8. CacheIsSound'
    BY Zenon, <1>1 DEF AInv, CacheIsSound, ValidUntil
  <2>9. ApprovalsAreSpent'
    <3> SUFFICES ASSUME NEW a \in approved PROVE Spent(a.proof)'
      BY Zenon, <1>1 DEF AInv, ApprovalsAreSpent
    <3>1. a.proof \in Proof /\ proof[a.proof] # None /\ Spent(a.proof)
      BY DEF AInv, Types, ApprovalEntry, ApprovalsAreSpent
    <3>2. store[proof[a.proof].cap] = None => a.proof # p
      BY Zenon, <1>5
    <3>3. QED  BY <1>1, <2>4, <2>5, <3>1, <3>2 DEF Spent, ValidUntil
  <2>10. RepeatOnlyWhenOvertaken' /\ OverIsNeverApproved'
    BY Zenon, <1>1 DEF AInv, RepeatOnlyWhenOvertaken, OverIsNeverApproved
  <2>11. QED  BY <2>6, <2>7, <2>8, <2>9, <2>10 DEF AInv
<1>6. QED  BY <1>3, <1>4, <1>5

\* A request that the durable state allows arrived before the Transfer was
\* over: what was over by then is over now.
LEMMA AllowedIsNotOver ==
  ASSUME AInv, NEW r \in Request, req[r] # Idle, state_allows(r)
  PROVE  ~Over /\ ~req[r].over
<1>1. attempt = "InProgress" /\ active /\ artifact \in {"Incomplete", "PendingVerification"}
  BY Zenon DEF state_allows, data_plane_operation_is_current
<1>2. attempt # "Ended" /\ artifact \notin {"Verified", "Failed"}
  BY <1>1
<1>3. ~Over
  BY Zenon, <1>1, <1>2 DEF Over
<1>4. QED  BY Zenon, <1>3 DEF AInv, RequestsAreSound

\* A request leaves, or changes nothing that is known of it.
LEMMA RequestsShrink ==
  ASSUME AInv, UNCHANGED <<clock, durable, store, seen, swept, proof, approved>>,
         req' \in [Request -> {Idle} \cup Pending],
         \A q \in Request : req'[q] # Idle =>
           /\ req[q] # Idle
           /\ req'[q].proof = req[q].proof /\ req'[q].now = req[q].now
           /\ req'[q].over = req[q].over
           /\ req'[q].at = req[q].at \/ ~req'[q].over
  PROVE  AInv'
<1>1. Types'
  BY Zenon DEF AInv, Types, durable
<1>2. Over' = Over
  BY Zenon DEF Over, durable
<1>3. RequestsAreSound'
  BY Zenon, <1>2 DEF AInv, RequestsAreSound, ValidUntil
<1>4. CacheIsSound'
  BY Zenon DEF AInv, CacheIsSound, ValidUntil
<1>5. ApprovalsAreSpent'
  <2> SUFFICES ASSUME NEW a \in approved PROVE Spent(a.proof)'
    BY Zenon DEF AInv, ApprovalsAreSpent
  <2>1. Spent(a.proof)
    BY Zenon DEF AInv, ApprovalsAreSpent
  <2>2. (\A q \in Request : req[q] # Idle => req[q].proof # a.proof) =>
          \A q \in Request : req'[q] # Idle => req'[q].proof # a.proof
    BY Zenon
  <2>3. QED  BY Zenon, <2>1, <2>2 DEF Spent, ValidUntil
<1>6. RepeatOnlyWhenOvertaken' /\ OverIsNeverApproved'
  BY Zenon DEF AInv, RepeatOnlyWhenOvertaken, OverIsNeverApproved
<1>7. QED  BY <1>1, <1>3, <1>4, <1>5, <1>6 DEF AInv

\* The load turns a request away or marks it.
LEMMA LoadPreserves ==
  ASSUME AInv, NEW r \in Request, load_authorization_state(r)
  PROVE  AInv'
<1> DEFINE new == [at |-> "Loaded", proof |-> req[r].proof, now |-> req[r].now,
                   over |-> req[r].over]
<1>1. /\ UNCHANGED <<clock, durable, store, seen, swept, proof, approved>>
      /\ req[r].at = "Checked"
      /\ \/ req' = [req EXCEPT ![r] = Idle]
         \/ req' = [req EXCEPT ![r] = new] /\ state_allows(r)
  BY Zenon DEF load_authorization_state, At, AInv, Types
<1>2. req[r] # Idle /\ req[r] \in Pending
  BY <1>1 DEF AInv, Types, Idle
<1>3. /\ req' \in [Request -> {Idle} \cup Pending]
      /\ \A q \in Request : req'[q] # Idle =>
           /\ req[q] # Idle
           /\ req'[q].proof = req[q].proof /\ req'[q].now = req[q].now
           /\ req'[q].over = req[q].over
           /\ req'[q].at = req[q].at \/ ~req'[q].over
  <2>1. CASE req' = [req EXCEPT ![r] = Idle]
    BY Zenon, <2>1 DEF AInv, Types
  <2>2. CASE req' = [req EXCEPT ![r] = new] /\ state_allows(r)
    <3>1. new \in Pending
      BY Zenon, <1>2 DEF Pending
    <3>2. /\ new.proof = req[r].proof /\ new.now = req[r].now
          /\ new.over = req[r].over /\ ~req[r].over
      BY Zenon, <1>2, <2>2, AllowedIsNotOver
    <3> HIDE DEF new
    <3>3. req'[r] = new /\ \A q \in Request : q = r \/ req'[q] = req[q]
      BY <2>2 DEF AInv, Types
    <3>4. req' \in [Request -> {Idle} \cup Pending]
      BY Zenon, <2>2, <3>1 DEF AInv, Types
    <3>5. QED  BY Zenon, <1>2, <3>2, <3>3, <3>4
  <2>3. QED  BY <1>1, <2>1, <2>2
<1>4. QED  BY Zenon, <1>1, <1>3, RequestsShrink

\* The decision: a proof that was approved before is still in the cache, since
\* the request read the clock within the proof's window, or a request that read
\* it later has overtaken it.
LEMMA DecidePreserves ==
  ASSUME AInv, NEW r \in Request, req[r] # Idle, ~req[r].over, Decide(r),
         req' = [req EXCEPT ![r] = Idle], Over => Over',
         UNCHANGED <<clock, active, store, proof>>
  PROVE  AInv'
<1> DEFINE p == req[r].proof
<1>1. /\ req[r] \in Pending /\ p \in Proof /\ proof[p] \in ProofEntry
      /\ req[r].now \in Int /\ req[r].now <= ValidUntil(p)
      /\ ValidUntil(p) \in Int /\ ProofOf(r) = proof[p]
  BY TimesAssumption
     DEF AInv, Types, RequestsAreSound, Pending, ProofOf, ValidUntil, ProofEntry
<1>2. /\ swept \in Int /\ swept' \in Int /\ swept <= swept' /\ req[r].now <= swept'
  BY <1>1 DEF Decide, check_and_insert, AInv, Types
<1>3. ASSUME NEW q \in Proof, seen[q] # None
      PROVE  /\ seen[q] \in Int /\ seen[q] = ValidUntil(q)
             /\ q \in retained(r) \/ swept' > ValidUntil(q)
             /\ q = p => q \in retained(r)
  <2>1. seen[q] \in Int /\ seen[q] = ValidUntil(q)
    BY Zenon, <1>3 DEF AInv, Types, CacheIsSound
  <2>2. q \in retained(r) <=> req[r].now <= seen[q]
    BY Zenon, <1>3 DEF retained, Live, AInv, Types
  <2>3. q \in retained(r) \/ swept' > ValidUntil(q)
    BY <1>2, <1>1, <2>1, <2>2
  <2>4. q = p => q \in retained(r)
    BY Zenon, <1>1, <2>1, <2>2
  <2>5. QED  BY <2>1, <2>3, <2>4
<1>4. retained(r) \subseteq Proof /\ \A q \in retained(r) : seen[q] # None
  BY Zenon DEF retained, Live, AInv, Types
<1>5. /\ seen' = [q \in Proof |-> IF q = p /\ fits(r) THEN ValidUntil(p)
                                  ELSE IF q \in retained(r) THEN seen[q] ELSE None]
      /\ approved' = IF fits(r) THEN approved \cup {Approval(r)} ELSE approved
      /\ fits(r) => p \notin retained(r)
  BY Zenon, <1>1 DEF Decide, check_and_insert, proof_replay_valid_until, ValidUntil, fits
<1>6. /\ req' \in [Request -> {Idle} \cup Pending]
      /\ \A q \in Request : req'[q] # Idle => req'[q] = req[q] /\ req[q] # Idle
  BY Zenon DEF AInv, Types
<1>7. ASSUME fits(r)
      PROVE  /\ Approval(r) \in ApprovalEntry
             /\ Approval(r).proof = p /\ ~Approval(r).over
             /\ Approval(r).repeated => Approval(r).overtaken
  <2>1. /\ Approval(r).proof = p /\ Approval(r).over = req[r].over
        /\ Approval(r).repeated = \E a \in approved : a.proof = p
        /\ Approval(r).overtaken = (swept > ValidUntil(p))
    BY Zenon, <1>1 DEF Approval, proof_replay_valid_until, ValidUntil
  <2>2. Approval(r) \in ApprovalEntry
    <3>1. req[r].over \in BOOLEAN
      BY Zenon, <1>1 DEF Pending
    <3>2. QED  BY <1>1, <3>1 DEF Approval, ApprovalEntry
  <2>3. ASSUME NEW a \in approved, a.proof = p PROVE swept > ValidUntil(p)
    <3>1. Spent(p)
      BY <2>3 DEF AInv, ApprovalsAreSpent
    <3>2. seen[p] = None
      BY Zenon, <1>1, <1>3, <1>5, <1>7
    <3>3. QED  BY <3>1, <3>2 DEF Spent
  <2>4. QED  BY Zenon, <2>1, <2>2, <2>3
<1>8. Types'
  <2>1. seen' \in [Proof -> {None} \cup Int]
    BY Zenon, <1>1, <1>3, <1>4, <1>5
  <2>2. approved' \subseteq ApprovalEntry
    BY Zenon, <1>5, <1>7 DEF AInv, Types
  <2>3. QED  BY Zenon, <1>2, <1>6, <2>1, <2>2 DEF AInv, Types
<1>9. RequestsAreSound'
  BY Zenon, <1>6 DEF AInv, RequestsAreSound, ValidUntil
<1>10. CacheIsSound'
  <2> SUFFICES ASSUME NEW q \in Proof, seen'[q] # None
               PROVE  proof[q] # None /\ seen'[q] = ValidUntil(q)
    BY DEF CacheIsSound, ValidUntil
  <2>1. CASE q = p /\ fits(r)
    BY Zenon, <1>1, <1>5, <2>1 DEF AInv, RequestsAreSound
  <2>2. CASE ~(q = p /\ fits(r))
    BY Zenon, <1>4, <1>5, <2>2 DEF AInv, CacheIsSound
  <2>3. QED  BY <2>1, <2>2
<1>11. ApprovalsAreSpent'
  <2> SUFFICES ASSUME NEW a \in approved'
               PROVE  proof[a.proof] # None /\ Spent(a.proof)'
    BY DEF ApprovalsAreSpent
  <2>1. CASE fits(r) /\ a = Approval(r)
    <3>1. a.proof = p /\ proof[p] # None
      BY Zenon, <1>7, <2>1 DEF AInv, RequestsAreSound
    <3>2. seen'[p] # None
      BY Zenon, <1>1, <1>5, <2>1, NoneAssumption
    <3>3. QED  BY <3>1, <3>2 DEF Spent
  <2>2. CASE a \in approved
    <3>1. a.proof \in Proof /\ proof[a.proof] # None /\ Spent(a.proof)
      BY Zenon, <2>2 DEF AInv, Types, ApprovalEntry, ApprovalsAreSpent
    <3>2. CASE swept > ValidUntil(a.proof)
      <4>1. ValidUntil(a.proof) \in Int
        BY <3>1, TimesAssumption DEF AInv, Types, ProofEntry, ValidUntil
      <4>2. swept' > ValidUntil(a.proof)
        BY <1>2, <3>2, <4>1
      <4>3. QED  BY Zenon, <3>1, <4>2 DEF Spent, ValidUntil
    <3>3. CASE seen[a.proof] # None
      <4>1. a.proof \in retained(r) \/ swept' > ValidUntil(a.proof)
        BY <1>3, <3>1, <3>3
      <4>2. a.proof \in retained(r) => seen'[a.proof] # None
        BY Zenon, <1>1, <1>5, <3>1, <3>3, NoneAssumption
      <4>3. QED  BY <3>1, <4>1, <4>2 DEF Spent, ValidUntil
    <3>4. CASE /\ store[proof[a.proof].cap] = None
               /\ \A q \in Request : req[q] # Idle => req[q].proof # a.proof
      BY Zenon, <1>6, <3>1, <3>4 DEF Spent
    <3>5. QED  BY <3>1, <3>2, <3>3, <3>4 DEF Spent
  <2>3. QED  BY <1>5, <2>1, <2>2
<1>12. RepeatOnlyWhenOvertaken' /\ OverIsNeverApproved'
  BY Zenon, <1>5, <1>7 DEF AInv, RepeatOnlyWhenOvertaken, OverIsNeverApproved
<1>13. QED  BY <1>8, <1>9, <1>10, <1>11, <1>12 DEF AInv

\* A data-plane request decides after its load, a seal under its locks.
LEMMA DecisionsPreserve ==
  ASSUME AInv, NEW r \in Request, authorize_request(r) \/ commit_manifest_seal(r)
  PROVE  AInv'
<1>1. req[r] # Idle
  BY DEF authorize_request, commit_manifest_seal, At, Idle
<1>2. CASE authorize_request(r)
  <2>1. ~req[r].over
    <3>1. req[r].at = "Loaded"
      BY Zenon, <1>2 DEF authorize_request, At
    <3>2. req[r].at # "Checked"
      BY <3>1
    <3>3. QED  BY Zenon, <1>1, <3>2 DEF AInv, RequestsAreSound
  <2>2. Over => Over'
    BY Zenon, <1>2 DEF authorize_request, durable, Over
  <2>3. QED  BY Zenon, <1>1, <1>2, <2>1, <2>2, DecidePreserves DEF authorize_request, durable
<1>3. CASE commit_manifest_seal(r) /\ state_allows(r)
  <2>1. ~Over /\ ~req[r].over
    BY Zenon, <1>1, <1>3, AllowedIsNotOver
  <2>2. QED  BY Zenon, <1>1, <1>3, <2>1, DecidePreserves DEF commit_manifest_seal
<1>4. CASE commit_manifest_seal(r) /\ ~state_allows(r)
  <2>1. /\ UNCHANGED <<clock, durable, store, seen, swept, proof, approved>>
        /\ req' = [req EXCEPT ![r] = Idle]
    BY Zenon, <1>4 DEF commit_manifest_seal, durable
  <2>2. /\ req' \in [Request -> {Idle} \cup Pending]
        /\ \A q \in Request : req'[q] # Idle => req'[q] = req[q] /\ req[q] # Idle
    BY Zenon, <2>1 DEF AInv, Types
  <2>3. QED  BY Zenon, <2>1, <2>2, RequestsShrink
<1>5. QED  BY <1>2, <1>3, <1>4

-----------------------------------------------------------------------------
LEMMA NextPreserves == AInv /\ [Next]_vars => AInv'
<1> SUFFICES ASSUME AInv, [Next]_vars PROVE AInv'
  OBVIOUS
<1>1. CASE WorldNext
  BY <1>1, WorldSteps, WorldPreserves
<1>2. CASE restart
  BY <1>2, RestartPreserves
<1>3. CASE load_for_issue \/ UNCHANGED vars
  <2>1. UNCHANGED <<clock, durable, store, seen, swept, req, proof, approved>>
    BY Zenon, <1>3 DEF load_for_issue, vars, process
  <2>2. World
    BY Zenon, <2>1 DEF World, AInv, Types, Over, durable
  <2>3. QED  BY <2>2, WorldPreserves
<1>4. ASSUME NEW c \in Capability, issue(c) PROVE AInv'
  BY <1>4, IssuePreserves
<1>5. ASSUME NEW p \in Proof, NEW c \in Capability, NEW op \in Operation, create_proof(p, c, op)
      PROVE  AInv'
  BY <1>5, CreateProofPreserves
<1>6. ASSUME NEW r \in Request, NEW p \in Proof, check_request(r, p) PROVE AInv'
  BY <1>6, CheckPreserves
<1>7. ASSUME NEW r \in Request,
             load_authorization_state(r) \/ authorize_request(r) \/ commit_manifest_seal(r)
      PROVE  AInv'
  BY <1>7, LoadPreserves, DecisionsPreserve
<1>8. QED  BY <1>1, <1>2, <1>3, <1>4, <1>5, <1>6, <1>7 DEF Next

\* The strengthened invariant holds always.
THEOREM AuthorizationInvariance == Spec => []AInv
<1>1. QED  BY InitAInv, NextPreserves, PTL DEF Spec

\* With any capacity and any number of late, doubled and concurrent requests,
\* restarts and clocks set back, authorize_request and commit_manifest_seal
\* approve a proof a second time only when a request that had read the clock
\* past the end of its freshness window entered the cache first.
THEOREM ProofsAreSpentOnce == Spec => []RepeatOnlyWhenOvertaken
<1>1. AInv => RepeatOnlyWhenOvertaken
  BY DEF AInv
<1>2. QED  BY <1>1, AuthorizationInvariance, PTL

\* No request is approved that arrived after the Attempt's terminal outcome, a
\* revocation or the end of the Artifact, however its capability came to be
\* stored and however often the Attempt was reconciled before.
THEOREM NothingIsApprovedOnceOver == Spec => []OverIsNeverApproved
<1>1. AInv => OverIsNeverApproved
  BY DEF AInv
<1>2. QED  BY <1>1, AuthorizationInvariance, PTL
============================================================================
