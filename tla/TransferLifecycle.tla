-------------------------- MODULE TransferLifecycle --------------------------
(***************************************************************************)
(* The durable Transfer, Artifact and chunk manifest records beside the    *)
(* Job records, and every transaction that changes them                    *)
(* (server/src/adapters/postgres/transfer_repository.rs, the transfer      *)
(* paths of job_repository.rs, and the services that decide for them).     *)
(*                                                                         *)
(* A Transfer, its Artifact and its manifest are created together and      *)
(* reference each other uniquely, so all three are indexed by Transfer.    *)
(* A transaction locks the rows it decides on and is one action.  What the *)
(* Worker and the Agent send may arrive in any order; an operation whose   *)
(* decision rejects, denies or fails closed changes nothing.               *)
(***************************************************************************)
EXTENDS JobLifecycle, TransferDomain

CONSTANTS Transfer,        \* Transfer identifiers
          MaxChunks,       \* bound: chunk indices are below it
          Content,         \* chunk identities: a size with its digest
          ArtifactDigest   \* full-Artifact digests

ASSUME MaxChunksAssumption == MaxChunks \in Nat \ {0}
ASSUME NoAttemptAssumption == None \notin Attempt

Index == 0..(MaxChunks - 1)
ChunkMap == UNION {[S -> Content] : S \in SUBSET Index}
SealedFacts == {<<>>} \cup ((0..MaxChunks) \X ArtifactDigest)

VARIABLES
  transferJob,      \* transfers.job_id, None before create_transfer_context
  transferStep,     \* the step_order of transfers.job_step_id
  transferAttempt,  \* transfers.attempt_id
  artifactState,    \* artifacts.state, "Absent" before creation
  chunks,           \* chunk_identities, by chunk_index
  held,             \* the chunk indices whose chunk_identities row is held
  sealed            \* chunk_manifests: sealed, chunk_count, artifact_digest

bindingVars == <<transferJob, transferStep, transferAttempt>>
manifestVars == <<chunks, held, sealed>>
transferVars == <<bindingVars, artifactState, manifestVars>>
allVars == <<vars, transferVars>>

TransferInit ==
  /\ Init
  /\ transferJob = [t \in Transfer |-> None]
  /\ transferStep = [t \in Transfer |-> 0]
  /\ transferAttempt = [t \in Transfer |-> None]
  /\ artifactState = [t \in Transfer |-> "Absent"]
  /\ chunks = [t \in Transfer |-> <<>>]
  /\ held = [t \in Transfer |-> {}]
  /\ sealed = [t \in Transfer |-> <<>>]

-----------------------------------------------------------------------------
(* Creation and dispatch.                                                  *)

\* Inserts the Artifact, the Transfer and the empty manifest.  The Job and
\* the JobStep must exist; whatever state they are in, and whether another
\* Transfer names the same JobStep, is not asked.
create_transfer_context(t, j, i) ==
  /\ artifactState[t] = "Absent"
  /\ jobState[j] # "Absent" /\ stepState[j][i] # "Absent"
  /\ transferJob' = [transferJob EXCEPT ![t] = j]
  /\ transferStep' = [transferStep EXCEPT ![t] = i]
  /\ artifactState' = [artifactState EXCEPT ![t] = "Incomplete"]
  /\ UNCHANGED <<vars, transferAttempt, manifestVars>>

\* The Attempt is created and bound to the Transfer in one transaction.
dispatch_transfer(t, a) ==
  /\ artifactState[t] # "Absent"
  /\ commit_transfer_dispatch(transferJob[t], transferStep[t], a,
                              transferAttempt[t] = None)
  /\ transferAttempt' = [transferAttempt EXCEPT ![t] = a]
  /\ UNCHANGED <<transferJob, transferStep, artifactState, manifestVars>>

deny_dispatch(t) ==
  /\ artifactState[t] # "Absent"
  /\ deny_transfer_dispatch(transferJob[t], transferStep[t],
                            transferAttempt[t] = None)
  /\ UNCHANGED transferVars

\* TransferService::bind_attempt; the column is UNIQUE, so an Attempt that
\* another Transfer has is refused by the database.
bind_attempt(t, a) ==
  /\ artifactState[t] # "Absent" /\ attemptState[a] # "Absent"
  /\ attemptJob[a] = transferJob[t] /\ attemptStep[a] = transferStep[t]
  /\ transferAttempt[t] \in {None, a}
  /\ \A u \in Transfer \ {t} : transferAttempt[u] # a
  /\ transferAttempt' = [transferAttempt EXCEPT ![t] = a]
  /\ UNCHANGED <<vars, transferJob, transferStep, artifactState, manifestVars>>

-----------------------------------------------------------------------------
(* The Worker's data-plane commits.                                        *)

BoundInProgress(t) ==
  \E a \in Attempt : transferAttempt[t] = a /\ attemptState[a] = "InProgress"

\* Would the acceptance of content c at index i commit?
ChunkAcceptable(t, i, c) ==
  /\ data_plane_operation_is_current("ChunkUpload", artifactState[t], sealed[t],
                                     i \in DOMAIN chunks[t])
  /\ BoundInProgress(t)
  /\ record_expected_chunk(chunks[t], sealed[t], i, c) \in {"Added", "AlreadyRecorded"}

commit_chunk_acceptance(t, i, c) ==
  /\ ChunkAcceptable(t, i, c)
  /\ chunks' = [chunks EXCEPT ![t] = WithChunk(@, i, c)]
  /\ held' = [held EXCEPT ![t] = @ \cup {i}]
  /\ UNCHANGED <<vars, bindingVars, artifactState, sealed>>

SealCurrent(t) ==
  /\ BoundInProgress(t)
  /\ data_plane_operation_is_current("SealManifest", artifactState[t], sealed[t], FALSE)

\* The decision of ManifestSealService on the locked facts, authorization
\* having held: "Seal", "AlreadyPending", a rejection, or "FailClosed".
SealDecision(t, n, d) ==
  LET outcome == seal(chunks[t], sealed[t], n, d)
  IN IF ~SealCurrent(t) THEN "Denied"
     ELSE IF artifactState[t] = "PendingVerification"
     THEN IF outcome = "AlreadySealed" THEN "AlreadyPending" ELSE "RejectAlreadySealed"
     ELSE IF sealed[t] # <<>> THEN "FailClosed"
     ELSE IF outcome # "Sealed" THEN "RejectIncomplete"
     ELSE IF begin_verification(artifactState[t], chunks[t], <<n, d>>, held[t])
             = "PendingVerification"
     THEN "Seal" ELSE "RejectIncomplete"

\* Sealing and Incomplete -> PendingVerification are one transaction.
commit_manifest_seal(t, n, d) ==
  /\ SealDecision(t, n, d) = "Seal"
  /\ sealed' = [sealed EXCEPT ![t] = <<n, d>>]
  /\ artifactState' = [artifactState EXCEPT ![t] = "PendingVerification"]
  /\ UNCHANGED <<vars, bindingVars, chunks, held>>

\* Faulty variant: a repeated verification overwrites the first verdict.
FaultyVerification(t, n, d, computed) ==
  /\ artifactState[t] \in {"PendingVerification"} \cup TerminalArtifact
  /\ sealed[t] = <<n, d>>
  /\ artifactState' = [artifactState EXCEPT
                         ![t] = complete_verification("PendingVerification", computed = d)]
  /\ UNCHANGED <<vars, bindingVars, manifestVars>>

\* `n', `d' are the facts the verification handle was minted with.  The
\* Attempt's state is not asked: it may have ended meanwhile.
commit_artifact_verification(t, n, d, computed) ==
  /\ artifactState[t] = "PendingVerification"
  /\ sealed[t] = <<n, d>>
  /\ artifactState' = [artifactState EXCEPT
                         ![t] = complete_verification(@, computed = d)]
  /\ UNCHANGED <<vars, bindingVars, manifestVars>>

-----------------------------------------------------------------------------
(* The finer operations of TransferService, which the data plane does not  *)
(* use: a chunk's identity and its bytes, and the seal and the Artifact's  *)
(* transition, are committed apart.                                        *)

RecordChunk(t, i, c) ==
  /\ artifactState[t] # "Absent"
  /\ record_expected_chunk(chunks[t], sealed[t], i, c) = "Added"
  /\ chunks' = [chunks EXCEPT ![t] = WithChunk(@, i, c)]
  /\ UNCHANGED <<vars, bindingVars, artifactState, held, sealed>>

accept_verified_chunk(t, i, c) ==
  /\ artifactState[t] # "Absent"
  /\ validate_verified_chunk(chunks[t], i, c)
  /\ held' = [held EXCEPT ![t] = @ \cup {i}]
  /\ UNCHANGED <<vars, bindingVars, artifactState, chunks, sealed>>

seal_manifest(t, n, d) ==
  /\ artifactState[t] # "Absent"
  /\ seal(chunks[t], sealed[t], n, d) = "Sealed"
  /\ sealed' = [sealed EXCEPT ![t] = <<n, d>>]
  /\ UNCHANGED <<vars, bindingVars, artifactState, chunks, held>>

begin_artifact_verification(t) ==
  /\ begin_verification(artifactState[t], chunks[t], sealed[t], held[t])
       = "PendingVerification"
  /\ artifactState' = [artifactState EXCEPT ![t] = "PendingVerification"]
  /\ UNCHANGED <<vars, bindingVars, manifestVars>>

complete_artifact_verification(t, digest_matches) ==
  /\ artifactState[t] = "PendingVerification"
  /\ artifactState' = [artifactState EXCEPT ![t] = complete_verification(@, digest_matches)]
  /\ UNCHANGED <<vars, bindingVars, manifestVars>>

fail_incomplete_artifact(t) ==
  /\ artifactState[t] = "Incomplete"
  /\ artifactState' = [artifactState EXCEPT ![t] = fail_incomplete(@)]
  /\ UNCHANGED <<vars, bindingVars, manifestVars>>

TransferServiceNext ==
  \E t \in Transfer :
    \/ \E i \in Index, c \in Content : RecordChunk(t, i, c) \/ accept_verified_chunk(t, i, c)
    \/ \E n \in 0..MaxChunks, d \in ArtifactDigest : seal_manifest(t, n, d)
    \/ begin_artifact_verification(t)
    \/ \E matches \in BOOLEAN : complete_artifact_verification(t, matches)
    \/ fail_incomplete_artifact(t)
    \/ \E a \in Attempt : bind_attempt(t, a)

-----------------------------------------------------------------------------
(* Evidence about an Attempt.  The gateway classifies an action by whether *)
(* a Transfer is bound to its Attempt, and sends the evidence that can end *)
(* a transfer through the decisions that also see the Artifact.  The       *)
(* acknowledgment, StatusReport{Succeeded | Accepted | Running | Unknown}, *)
(* the operator's closure and every uncertainty mark stay generic.         *)

IsDataPlaneTransfer(a) == \E t \in Transfer : transferAttempt[t] = a

PersistTransferEvidence(t, a, decided) ==
  /\ Persist(a, decided.facts)
  /\ artifactState' = [artifactState EXCEPT ![t] = decided.artifact]
  /\ UNCHANGED <<cancelActions, bindingVars, manifestVars>>

TransferResult(t, a, code) ==
  /\ transferAttempt[t] = a
  /\ PersistTransferEvidence(t, a,
       decide_transfer_terminal_evidence(Facts(a), artifactState[t], code,
                                         OtherStepsSucceeded(a)))

TransferCancelAck(t, a, ev) ==
  /\ transferAttempt[t] = a /\ a \in cancelActions
  /\ PersistTransferEvidence(t, a,
       decide_transfer_cancel_ack(Facts(a), artifactState[t], ev))

TransferStatusReport(t, a, ev) ==
  /\ transferAttempt[t] = a
  /\ \/ ev = "Cancelled"
        /\ PersistTransferEvidence(t, a,
             decide_transfer_status_report_cancelled(Facts(a), artifactState[t],
                                                     OtherStepsSucceeded(a)))
     \/ ev = "Failed"
        /\ PersistTransferEvidence(t, a,
             decide_transfer_status_report_failed(Facts(a), artifactState[t],
                                                  OtherStepsSucceeded(a)))

\* The evidence of an Attempt that no Transfer decision is asked about.
GenericEvidence(a) ==
  \/ \E ev \in {"AckAccepted", "AckRejected"} : ActionEvidenceApply(a, ev)
  \/ ~IsDataPlaneTransfer(a) /\ \E ev \in {"ResultSucceeded", "ResultFailed"} :
       ActionEvidenceApply(a, ev)
  \/ ~IsDataPlaneTransfer(a) /\ \E ev \in CancelAckEvidence : CancelAckApply(a, ev)
  \/ \E ev \in StatusReportEvidence :
       StatusReportApply(a, ev) /\ (IsDataPlaneTransfer(a) => ev \notin {"Cancelled", "Failed"})
  \/ CloseIndeterminate(a)

TransferEvidence(t, a) ==
  \/ \E code \in TransferResultCode : TransferResult(t, a, code)
  \/ \E ev \in CancelAckEvidence : TransferCancelAck(t, a, ev)
  \/ \E ev \in {"Cancelled", "Failed"} : TransferStatusReport(t, a, ev)

-----------------------------------------------------------------------------
\* The steps of the Job records that no Transfer takes part in.
JobNext ==
  \/ \E j \in Job, e \in Endpoint, n \in Step : create_workflow(j, e, n)
  \/ \E j \in Job : admit_job(j) \/ request_cancellation(j)
  \/ \E j \in Job, i \in Step :
       \/ authorize_destructive_intent(j, i)
       \/ satisfy_preliminary_preconditions(j, i)
       \/ \E gate \in BOOLEAN :
            \/ deny_destructive_dispatch(j, i, gate)
            \/ \E a \in Attempt : commit_destructive_dispatch(j, i, a, gate)
  \/ \E a \in Attempt : GenericEvidence(a) \/ mark_endpoint_uncertain(a)
  \/ reconcile_on_startup

\* What the data plane and the transfer actions do to the records.
DataPlaneNext ==
  \E t \in Transfer :
    \/ \E j \in Job, i \in Step : create_transfer_context(t, j, i)
    \/ \E a \in Attempt : dispatch_transfer(t, a) \/ TransferEvidence(t, a)
    \/ deny_dispatch(t)
    \/ \E i \in Index, c \in Content : commit_chunk_acceptance(t, i, c)
    \/ \E n \in 0..MaxChunks, d \in ArtifactDigest :
         \/ commit_manifest_seal(t, n, d)
         \/ \E computed \in ArtifactDigest : commit_artifact_verification(t, n, d, computed)

TransferNext ==
  \/ JobNext /\ UNCHANGED transferVars
  \/ DataPlaneNext
  \/ TransferServiceNext

TransferSpec == TransferInit /\ [][TransferNext]_allVars

-----------------------------------------------------------------------------
(* Properties.                                                             *)

\* Every transfer column holds a value of its type; a held chunk has a
\* recorded identity (held is a column of the chunk_identities row).
TransferTypeOK ==
  /\ transferJob \in [Transfer -> Job \cup {None}]
  /\ transferStep \in [Transfer -> Step \cup {0}]
  /\ transferAttempt \in [Transfer -> Attempt \cup {None}]
  /\ artifactState \in [Transfer -> ArtifactState \cup {"Absent"}]
  /\ chunks \in [Transfer -> ChunkMap]
  /\ held \in [Transfer -> SUBSET Index]
  /\ sealed \in [Transfer -> SealedFacts]
  /\ \A t \in Transfer : held[t] \subseteq DOMAIN chunks[t]

\* An Artifact whose verification has begun, or that was Verified, has a
\* sealed manifest, and exactly the sealed chunks 0 .. chunk_count-1 are
\* recorded and held, however acceptance, seal and evidence interleave.
VerifiedIsComplete ==
  \A t \in Transfer : artifactState[t] \in {"PendingVerification", "Verified"} =>
    /\ sealed[t] # <<>>
    /\ DOMAIN chunks[t] = 0..(sealed[t][1] - 1)
    /\ held[t] = DOMAIN chunks[t]

\* A Transfer's Attempt is an Attempt of the Transfer's own JobStep, and no
\* Attempt carries two Transfers, so that the classification of an action and
\* the locked facts of its evidence are those of one Transfer.
BindingIsOwn ==
  \A t \in Transfer : transferAttempt[t] # None =>
    /\ attemptState[transferAttempt[t]] # "Absent"
    /\ attemptJob[transferAttempt[t]] = transferJob[t]
    /\ attemptStep[transferAttempt[t]] = transferStep[t]
    /\ \A u \in Transfer : transferAttempt[u] = transferAttempt[t] => u = t

\* What was durably promised about a capture is never taken back: a bound
\* Attempt, a recorded chunk identity, a held chunk and the sealed facts never
\* change, nothing is recorded after the seal, and a terminal Artifact is final.
DurablePromises ==
  [][\A t \in Transfer :
       /\ transferAttempt[t] # None => transferAttempt'[t] = transferAttempt[t]
       /\ \A i \in DOMAIN chunks[t] :
            i \in DOMAIN chunks'[t] /\ chunks'[t][i] = chunks[t][i]
       /\ held[t] \subseteq held'[t]
       /\ sealed[t] # <<>> => sealed'[t] = sealed[t] /\ chunks'[t] = chunks[t]
       /\ artifactState[t] \in TerminalArtifact => artifactState'[t] = artifactState[t]
       /\ artifactState[t] = "PendingVerification" =>
            artifactState'[t] \in {"PendingVerification"} \cup TerminalArtifact]_allVars

\* The Job records change only as JobLifecycle allows, also where a decision
\* looks at the Artifact as well.
TransfersRefineJobLifecycle == Spec
=============================================================================
