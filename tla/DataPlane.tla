------------------------------ MODULE DataPlane ------------------------------
(***************************************************************************)
(* A capture from end to end: the Agent's transfer run, the Worker's HTTP  *)
(* handlers with the chunk files they finalize, and the transactions of    *)
(* TransferLifecycle the handlers reach over the control connection        *)
(* (simulator/src/transfer_action.rs, worker/src/data_plane,               *)
(* server/src/adapters/worker_control_plane.rs).                           *)
(*                                                                         *)
(* A handler goes on after its client has given up waiting, so an old      *)
(* request may act between the requests of a later run.  A response that   *)
(* is lost, a handler that stops and a control message that fails look     *)
(* alike to the Agent: the run is suspended and a later run starts over    *)
(* with resume discovery.  A chunk's content stands for its bytes and for  *)
(* their digest, and a full-Artifact digest is the function of contents it *)
(* was computed over.                                                      *)
(***************************************************************************)
EXTENDS TransferLifecycle

CONSTANTS Request,     \* HTTP requests in progress at once
          FaultKinds,  \* the faults that may happen, each at most once
          MaxFaults    \* bound on the faults of one behaviour

ASSUME NoRequestAssumption == None \notin Request
ASSUME DigestAssumption == [Index -> Content] \subseteq ArtifactDigest
ASSUME FaultAssumption ==
  FaultKinds \subseteq {"Timeout", "Interrupt", "HandlerStops", "LostCommitAck",
                        "LostSealDecision", "LostVerdict", "Mutate", "Corrupt",
                        "Disconnect", "Cancel", "Close"}

VARIABLES
  source,    \* the chunks the Agent would read now
  sources,   \* history: every source there has been
  run,       \* the Agent's run: where it is, its plan and the chunks it knows held
  waiting,   \* the request the run awaits
  req,       \* the Worker's handlers
  stored,    \* the finalized chunk files of the Worker
  happened   \* the faults that have happened

agentVars == <<source, sources, run, waiting>>
planeVars == <<agentVars, req, stored, happened>>
planeAll == <<allVars, planeVars>>

Free == [op |-> "Free"]
Idle == [at |-> "Idle"]
Suspended == [at |-> "Suspended"]
Uploading(plan, have) == [at |-> "Uploading", plan |-> plan, have |-> have]

\* A request for one chunk and one for the seal, with the handler's stage.
PutRequest(t, stage, i, bytes, declared) ==
  [op |-> "Put", t |-> t, at |-> stage, i |-> i, bytes |-> bytes, declared |-> declared]
SealRequest(t, stage, n, d) ==
  [op |-> "Seal", t |-> t, at |-> stage, n |-> n, d |-> d]

PlaneInit ==
  /\ TransferInit
  /\ source \in [Transfer -> [Index -> Content]]
  /\ sources = [t \in Transfer |-> {source[t]}]
  /\ run = [t \in Transfer |-> Idle]
  /\ waiting = [t \in Transfer |-> None]
  /\ req = [r \in Request |-> Free]
  /\ stored = [t \in Transfer |-> <<>>]
  /\ happened = {}

Fault(kind) == /\ kind \in FaultKinds \ happened /\ Cardinality(happened) < MaxFaults
               /\ happened' = happened \cup {kind}
NoFault == UNCHANGED happened

\* Either nothing goes wrong, or `kind' happens.
MayFault(kind) == NoFault \/ Fault(kind)

-----------------------------------------------------------------------------
(* The Agent's run.                                                        *)

\* The Transfer's action has been dispatched, and how far its Attempt is.
Bound(t) == transferAttempt[t] # None
BoundState(t) == IF Bound(t) THEN attemptState[transferAttempt[t]] ELSE "Absent"

accept(t) ==
  /\ Bound(t) /\ run[t] = Idle
  /\ run' = [run EXCEPT ![t] = Suspended]
  /\ UNCHANGED <<allVars, source, sources, waiting, req, stored, happened>>

SendRequest(t, r, q) ==
  /\ req[r] = Free
  /\ req' = [req EXCEPT ![r] = q]
  /\ waiting' = [waiting EXCEPT ![t] = r]

\* A run starts with resume discovery, whatever an earlier run achieved.
start_run(t, r) ==
  /\ run[t].at = "Suspended"
  /\ SendRequest(t, r, [op |-> "Resume", t |-> t, at |-> "query"])
  /\ run' = [run EXCEPT ![t] = [at |-> "Discovering"]]
  /\ UNCHANGED <<allVars, source, sources, stored, happened>>

Completed(code) == [at |-> "Completed", code |-> code]

\* Faulty variant: the run adopts the identities the Server holds.
FaultyResumed(plan, q) ==
  Uploading([i \in Index |-> IF i \in DOMAIN q.held THEN q.held[i] ELSE plan[i]],
            DOMAIN q.held)

\* What the run does with an approved resume discovery q: the plan is built
\* from the source as it is now, and must agree with what the Server holds.
resumed(plan, q) ==
  IF q.sealed # <<>> /\ q.sealed[1] # MaxChunks THEN Completed("TransferAbandoned")
  ELSE IF \E i \in DOMAIN q.held : q.held[i] # plan[i]
  THEN Completed("ChunkVerificationFailed")
  ELSE Uploading(plan, DOMAIN q.held)

after_put(s, i, reply) ==
  IF reply = "Held" THEN Uploading(s.plan, s.have \cup {i})
  ELSE IF reply \in {"DigestMismatch", "ChunkIdentityConflict"}
  THEN Completed("ChunkVerificationFailed")
  ELSE IF reply = "TransferNotContinuable" THEN Completed("TransferAbandoned")
  ELSE Suspended

\* Faulty variant: a seal that is denied is taken for one done before.
FaultyAfterSeal(reply) ==
  IF reply \in {"Verified", "Denied"} THEN Completed("TransferVerified")
  ELSE Completed("ArtifactVerificationFailed")

after_seal(reply) ==
  IF reply = "Verified" THEN Completed("TransferVerified")
  ELSE IF reply = "Failed" THEN Completed("ArtifactVerificationFailed")
  ELSE IF reply \in {"IncompleteManifest", "ManifestAlreadySealed"}
  THEN Completed("TransferAbandoned")
  ELSE Suspended

receive_response(t, r) ==
  /\ waiting[t] = r /\ req[r].at = "done"
  /\ run' = [run EXCEPT ![t] =
       IF req[r].op = "Put" THEN after_put(@, req[r].i, req[r].reply)
       ELSE IF req[r].op = "Seal" THEN after_seal(req[r].reply)
       ELSE IF req[r].reply = "Approved" THEN resumed(source[t], req[r])
       ELSE Suspended]
  /\ req' = [req EXCEPT ![r] = Free]
  /\ waiting' = [waiting EXCEPT ![t] = None]
  /\ UNCHANGED <<allVars, source, sources, stored, happened>>

\* The next missing chunk in ascending order, or the seal.  The declared
\* digest is the plan's; the bytes are what is transmitted.
send_next(t, r) ==
  LET missing == Index \ run[t].have
  IN /\ run[t].at = "Uploading" /\ waiting[t] = None
     /\ \/ /\ missing = {}
           /\ SendRequest(t, r, SealRequest(t, "seal", MaxChunks, run[t].plan))
           /\ NoFault
        \/ \E next \in missing, bytes \in Content :
             /\ \A k \in missing : next <= k
             /\ SendRequest(t, r, PutRequest(t, "authorize", next, bytes, run[t].plan[next]))
             /\ IF bytes = source[t][next] THEN NoFault ELSE Fault("Corrupt")
     /\ UNCHANGED <<allVars, source, sources, run, stored>>

\* The response never arrives, or not in time; the handler is not stopped.
request_timeout(t) ==
  /\ waiting[t] # None
  /\ Fault("Timeout")
  /\ waiting' = [waiting EXCEPT ![t] = None]
  /\ run' = [run EXCEPT ![t] = Suspended]
  /\ req' = [req EXCEPT ![waiting[t]] = IF @.at = "done" THEN Free ELSE @]
  /\ UNCHANGED <<allVars, source, sources, stored>>

interrupt_run(t) ==
  /\ run[t].at = "Uploading" /\ waiting[t] = None
  /\ Fault("Interrupt")
  /\ run' = [run EXCEPT ![t] = Suspended]
  /\ UNCHANGED <<allVars, source, sources, waiting, req, stored>>

\* The source is borrowed for the length of a run: its chunks change between
\* runs, here all the changes between two runs at once.
mutate_chunk(t, new) ==
  /\ run[t].at \in {"Idle", "Suspended"} /\ new # source[t]
  /\ Fault("Mutate")
  /\ source' = [source EXCEPT ![t] = new]
  /\ sources' = [sources EXCEPT ![t] = @ \cup {new}]
  /\ UNCHANGED <<allVars, run, waiting, req, stored>>

-----------------------------------------------------------------------------
(* The Worker's handlers and the control requests they make.               *)

At(r, op, stage) == req[r].op = op /\ req[r].at = stage

\* The handler answers; without a waiting client the answer is dropped.
Respond(r, q) ==
  req' = [req EXCEPT ![r] = IF waiting[q.t] = r THEN q ELSE Free]

Reply(r, reply) ==
  Respond(r, [op |-> req[r].op, t |-> req[r].t, at |-> "done", reply |-> reply,
              i |-> IF req[r].op = "Put" THEN req[r].i ELSE 0])

Advance(r, q) == req' = [req EXCEPT ![r] = q]

\* authorize_request: the Attempt is InProgress and the operation is current.
Authorized(t, op, i) ==
  /\ BoundInProgress(t)
  /\ data_plane_operation_is_current(op, artifactState[t], sealed[t],
                                     i \in DOMAIN chunks[t])

resume_discovery(r) ==
  /\ At(r, "Resume", "query")
  /\ IF Authorized(req[r].t, "ResumeDiscovery", 0)
     THEN LET t == req[r].t
          IN Respond(r, [op |-> "Resume", t |-> t, at |-> "done", reply |-> "Approved",
                         held |-> [i \in held[t] |-> chunks[t][i]], sealed |-> sealed[t]])
     ELSE Reply(r, "Denied")
  /\ UNCHANGED <<allVars, agentVars, stored, happened>>

authorize_chunk(r) ==
  /\ At(r, "Put", "authorize")
  /\ LET t == req[r].t
         i == req[r].i
     IN IF ~Authorized(t, "ChunkUpload", i) THEN Reply(r, "Denied")
        ELSE IF i \in DOMAIN chunks[t] /\ chunks[t][i] # req[r].declared
        THEN Reply(r, "ChunkIdentityConflict")
        ELSE Advance(r, PutRequest(t, "stage", i, req[r].bytes, req[r].declared))
  /\ UNCHANGED <<allVars, agentVars, stored, happened>>

\* Faulty variant: a finalized file with other bytes is replaced.
FaultyStage(r) ==
  /\ At(r, "Put", "stage")
  /\ LET t == req[r].t
         i == req[r].i
     IN IF req[r].bytes # req[r].declared
        THEN Reply(r, "DigestMismatch") /\ UNCHANGED stored
        ELSE /\ Advance(r, PutRequest(t, "commit", i, req[r].bytes, req[r].declared))
             /\ stored' = [stored EXCEPT ![t] = WithChunk(@, i, req[r].bytes)]
  /\ UNCHANGED <<allVars, agentVars, happened>>

\* The body is staged, its digest compared with the declared one, and the file
\* finalized without replacing another: other bytes already there deny.
stage_chunk_body(r) ==
  /\ At(r, "Put", "stage")
  /\ LET t == req[r].t
         i == req[r].i
     IN IF req[r].bytes # req[r].declared
        THEN Reply(r, "DigestMismatch") /\ UNCHANGED stored
        ELSE IF i \in DOMAIN stored[t] /\ stored[t][i] # req[r].bytes
        THEN Reply(r, "Denied") /\ UNCHANGED stored
        ELSE /\ Advance(r, PutRequest(t, "commit", i, req[r].bytes, req[r].declared))
             /\ stored' = [stored EXCEPT ![t] = WithChunk(@, i, req[r].bytes)]
  /\ UNCHANGED <<allVars, agentVars, happened>>

\* Faulty variant: the decision taken before the upload still stands.
FaultyCommitChunk(r) ==
  /\ At(r, "Put", "commit")
  /\ chunks' = [chunks EXCEPT ![req[r].t] = WithChunk(@, req[r].i, req[r].bytes)]
  /\ held' = [held EXCEPT ![req[r].t] = @ \cup {req[r].i}]
  /\ Reply(r, "Held")
  /\ UNCHANGED <<vars, bindingVars, artifactState, sealed, agentVars, stored, happened>>

\* handle_chunk_acceptance and the answer; the answer may be lost after the
\* commit, which the handler reports like a denial.
commit_chunk(r) ==
  /\ At(r, "Put", "commit")
  /\ LET t == req[r].t
         i == req[r].i
         c == req[r].bytes
     IN IF ChunkAcceptable(t, i, c)
        THEN /\ commit_chunk_acceptance(t, i, c)
             /\ MayFault("LostCommitAck")
             /\ Reply(r, IF happened' = happened THEN "Held" ELSE "Denied")
        ELSE /\ Reply(r, IF /\ Authorized(t, "ChunkUpload", i)
                            /\ i \in DOMAIN chunks[t] /\ chunks[t][i] # c
                         THEN "ChunkIdentityConflict" ELSE "TransferNotContinuable")
             /\ UNCHANGED <<allVars, happened>>
  /\ UNCHANGED <<agentVars, stored>>

\* The first durable commit of a seal; a decision that is lost, or a handle
\* that cannot be minted, leaves the Artifact PendingVerification.
seal_request(r) ==
  /\ At(r, "Seal", "seal")
  /\ LET t == req[r].t
         decision == SealDecision(t, req[r].n, req[r].d)
     IN IF decision \in {"Seal", "AlreadyPending"}
        THEN /\ IF decision = "Seal" THEN commit_manifest_seal(t, req[r].n, req[r].d)
                ELSE UNCHANGED allVars
             /\ MayFault("LostSealDecision")
             /\ IF happened' = happened
                THEN Advance(r, SealRequest(t, "verify", req[r].n, req[r].d))
                ELSE Reply(r, "Denied")
        ELSE /\ Reply(r, IF decision = "RejectIncomplete" THEN "IncompleteManifest"
                         ELSE IF decision = "RejectAlreadySealed" THEN "ManifestAlreadySealed"
                         ELSE "Denied")
             /\ UNCHANGED <<allVars, happened>>
  /\ UNCHANGED <<agentVars, stored>>

\* The full Artifact is read back from the chunk files.
compute_digest(r) ==
  /\ At(r, "Seal", "verify")
  /\ LET t == req[r].t
         indices == 0..(req[r].n - 1)
     IN IF indices \subseteq DOMAIN stored[t]
        THEN Advance(r, [op |-> "Seal", t |-> t, at |-> "report", n |-> req[r].n,
                         d |-> req[r].d, computed |-> [i \in indices |-> stored[t][i]]])
        ELSE Reply(r, "Denied")
  /\ UNCHANGED <<allVars, agentVars, stored, happened>>

Verdict(r) == IF req[r].computed = req[r].d THEN "Verified" ELSE "Failed"

\* The second durable commit; its acknowledgment may be lost.  A report for
\* an Artifact that is no longer PendingVerification gets no answer.
report_artifact_verification(r) ==
  /\ At(r, "Seal", "report")
  /\ LET t == req[r].t
     IN IF artifactState[t] = "PendingVerification"
        THEN /\ commit_artifact_verification(t, req[r].n, req[r].d, req[r].computed)
             /\ MayFault("LostVerdict")
             /\ Reply(r, IF happened' = happened THEN Verdict(r) ELSE "Denied")
        ELSE Reply(r, "Denied") /\ UNCHANGED <<allVars, happened>>
  /\ UNCHANGED <<agentVars, stored>>

\* The Worker stops, its storage or its control connection fails: the handler
\* ends between two of its steps.
handler_stops(r) ==
  /\ req[r] # Free /\ req[r].at # "done"
  /\ Fault("HandlerStops")
  /\ Reply(r, "Denied")
  /\ UNCHANGED <<allVars, agentVars, stored>>

Handler(r) ==
  \/ resume_discovery(r) \/ authorize_chunk(r) \/ stage_chunk_body(r) \/ commit_chunk(r)
  \/ seal_request(r) \/ compute_digest(r) \/ report_artifact_verification(r)

-----------------------------------------------------------------------------
(* The Agent's messages.  The Agent does not lie: it reports what its run  *)
(* has found out, and stops when it acknowledges a cancellation.           *)

send_action_ack(t) ==
  /\ run[t] # Idle
  /\ BoundState(t) = "Dispatched"
  /\ ActionEvidenceApply(transferAttempt[t], "AckAccepted")
  /\ UNCHANGED <<transferVars, planeVars>>

send_action_result(t) ==
  /\ run[t].at = "Completed"
  /\ TransferResult(t, transferAttempt[t], run[t].code)
  /\ UNCHANGED planeVars

send_cancel_ack(t) ==
  /\ Bound(t) /\ run[t] # Idle
  /\ transferAttempt[t] \in cancelActions
  /\ IF run[t].at = "Completed"
     THEN /\ TransferCancelAck(t, transferAttempt[t], "AlreadyCompleted")
          /\ UNCHANGED agentVars
     ELSE /\ TransferCancelAck(t, transferAttempt[t], "Cancelled")
          /\ run' = [run EXCEPT ![t] = [at |-> "Cancelled"]]
          /\ waiting' = [waiting EXCEPT ![t] = None]
          /\ UNCHANGED <<source, sources>>
  /\ UNCHANGED <<req, stored, happened>>

KnownState(t) ==
  IF run[t].at = "Idle" THEN "Unknown"
  ELSE IF run[t].at = "Cancelled" THEN "Cancelled"
  ELSE IF run[t].at # "Completed" THEN "Running"
  ELSE IF run[t].code = "TransferVerified" THEN "Succeeded" ELSE "Failed"

send_status_report(t) ==
  /\ BoundState(t) = "AwaitingReconciliation"
  /\ LET a == transferAttempt[t]
     IN IF KnownState(t) \in {"Cancelled", "Failed"}
        THEN TransferStatusReport(t, a, KnownState(t))
        ELSE StatusReportApply(a, KnownState(t)) /\ UNCHANGED transferVars
  /\ UNCHANGED planeVars

-----------------------------------------------------------------------------
\* Creating, admitting and dispatching the Job of a capture.
Prepare ==
  /\ \/ /\ \/ \E j \in Job, e \in Endpoint, n \in Step : create_workflow(j, e, n)
           \/ \E j \in Job : admit_job(j)
           \/ \E j \in Job, i \in Step : satisfy_preliminary_preconditions(j, i)
        /\ UNCHANGED transferVars
     \/ \E t \in Transfer, j \in Job, i \in Step : create_transfer_context(t, j, i)
     \/ \E t \in Transfer, a \in Attempt : dispatch_transfer(t, a)
  /\ UNCHANGED planeVars

\* What operators and lost sessions do to the Job records.
Disturb ==
  /\ \/ \E j \in Job : request_cancellation(j) /\ Fault("Cancel")
     \/ \E a \in Attempt : mark_endpoint_uncertain(a) /\ Fault("Disconnect")
     \/ \E a \in Attempt : CloseIndeterminate(a) /\ Fault("Close")
  /\ UNCHANGED <<transferVars, agentVars, req, stored>>

Agent(t) ==
  \/ accept(t) \/ send_action_ack(t) \/ send_action_result(t)
  \/ send_cancel_ack(t) \/ send_status_report(t)
  \/ \E r \in Request : start_run(t, r) \/ send_next(t, r) \/ receive_response(t, r)

PlaneNext ==
  \/ Prepare
  \/ Disturb
  \/ \E t \in Transfer :
       \/ Agent(t)
       \/ request_timeout(t) \/ interrupt_run(t)
       \/ \E new \in [Index -> Content] : mutate_chunk(t, new)
  \/ \E r \in Request : Handler(r) \/ handler_stops(r)

PlaneSpec ==
  /\ PlaneInit /\ [][PlaneNext]_planeAll
  /\ \A r \in Request : WF_planeAll(Handler(r))
  /\ \A t \in Transfer :
       /\ WF_planeAll(accept(t)) /\ WF_planeAll(send_action_ack(t))
       /\ WF_planeAll(send_action_result(t)) /\ WF_planeAll(send_status_report(t))
       /\ WF_planeAll(\E r \in Request : start_run(t, r))
       /\ WF_planeAll(\E r \in Request : send_next(t, r))
       /\ WF_planeAll(\E r \in Request : receive_response(t, r))

-----------------------------------------------------------------------------
(* Properties.                                                             *)

\* A chunk that is durably held is a finalized file with the recorded content:
\* the file is there before the acceptance commits, and no later upload, of
\* this run or an older one, replaces it.
HeldIsStored ==
  \A t \in Transfer, i \in Index : i \in held[t] =>
    i \in DOMAIN stored[t] /\ stored[t][i] = chunks[t][i]

\* A Verified Artifact is the source as it was at one time: its recorded
\* identities, its chunk files and its sealed digest are those of one source,
\* although several runs uploaded the chunks and the source changed meanwhile.
VerifiedIsOneSource ==
  \A t \in Transfer : artifactState[t] = "Verified" =>
    /\ sealed[t][2] \in sources[t]
    /\ chunks[t] = sealed[t][2]
    /\ [i \in held[t] |-> stored[t][i]] = sealed[t][2]

\* How a capture ended and what became of its Artifact agree: one that is
\* reported Succeeded has a Verified Artifact, also when the result was lost
\* and a StatusReport ended the Attempt without looking at the Artifact, and
\* one that ended Failed or Cancelled leaves no Artifact that still takes
\* chunks.
OutcomeMatchesArtifact ==
  \A t \in Transfer :
    /\ BoundState(t) = "Succeeded" => artifactState[t] = "Verified"
    /\ BoundState(t) \in {"Failed", "Cancelled"} => artifactState[t] # "Incomplete"

\* Agent, Worker and Server together change the records only as
\* TransferLifecycle allows.
RefinesTransferLifecycle == TransferSpec

\* A capture that has started ends, or at least its Artifact is decided:
\* timeouts, interruptions, stopping handlers, lost control answers, lost
\* sessions and corrupted chunks are all got over by later runs, unless the
\* source has changed meanwhile.
CaptureEnds ==
  \A t \in Transfer :
    BoundState(t) = "InProgress"
      ~> \/ BoundState(t) \in TerminalAttempt
         \/ artifactState[t] \in TerminalArtifact
         \/ "Mutate" \in happened

\* The same without the exception for a decided Artifact: "a lost response
\* after commit is idempotent on retry".
LostResponseRecovers ==
  \A t \in Transfer :
    BoundState(t) = "InProgress"
      ~> BoundState(t) \in TerminalAttempt \/ "Mutate" \in happened
=============================================================================
