--------------------------- MODULE TransferProofs ---------------------------
(***************************************************************************)
(* Proofs about TransferLifecycle and DataPlane, for any number of         *)
(* Endpoints, Jobs, steps, Attempts, Transfers, chunks, contents, digests, *)
(* requests and faults.                                                    *)
(*                                                                         *)
(* TInv adds to the Job records' invariant that a sealed manifest is full, *)
(* whoever sealed it, and that an existing Transfer has its JobStep and an *)
(* absent one no Attempt.  Every operation is of one of five kinds on the  *)
(* transfer records; the invariant and DurablePromises follow kind by kind.*)
(*                                                                         *)
(* PInv adds, for a capture, what every request in progress and every run  *)
(* of the Agent may know: a handler that commits a chunk has its bytes in  *)
(* the file, a seal is of a source there has been, "Verified" is answered  *)
(* of a Verified Artifact.  Files, sources, verdicts and bindings only     *)
(* accumulate, so what was known once stays true while others act.         *)
(***************************************************************************)
EXTENDS DataPlane, JobLifecycleProofs, FiniteSetTheorems

\* The time limit of the solver, in seconds, for every leaf that names no other
\* prover.
USE SMTT(60)

CreatedHasOwner ==
  \A t \in Transfer :
    /\ artifactState[t] = "Absent" => transferAttempt[t] = None
    /\ artifactState[t] # "Absent" => transferJob[t] \in Job /\ transferStep[t] \in Step

SealedIsFull ==
  \A t \in Transfer : sealed[t] # <<>> => DOMAIN chunks[t] = 0..(sealed[t][1] - 1)

TransferPart ==
  TransferTypeOK /\ CreatedHasOwner /\ SealedIsFull /\ VerifiedIsComplete /\ BindingIsOwn

TInv == IInv /\ TransferPart

-----------------------------------------------------------------------------
(* The Job records.                                                        *)

\* No step of the Job records deletes an Attempt or gives it another JobStep.
KeepsAttempts ==
  \A a \in Attempt : attemptState[a] # "Absent" =>
    /\ attemptState'[a] # "Absent"
    /\ attemptJob'[a] = attemptJob[a] /\ attemptStep'[a] = attemptStep[a]

\* Attempts are inserted once and only their state is updated.
LEMMA NextKeepsAttempts ==
  ASSUME IInv, [Next]_vars
  PROVE  KeepsAttempts
<1>1. ASSUME UNCHANGED attemptVars PROVE KeepsAttempts
  BY Zenon, <1>1 DEF attemptVars, KeepsAttempts
<1>2. ASSUME NEW j \in Job, NEW i \in Step, NEW a \in Attempt, CommitAttempt(j, i, a)
      PROVE  KeepsAttempts
  BY Zenon, <1>2 DEF CommitAttempt, KeepsAttempts, IInv, TypeOK
<1>3. ASSUME SoftStep \/ \E a \in Attempt, s \in TerminalAttempt : EndStep(a, s)
      PROVE  KeepsAttempts
  BY ZenonT(40), <1>3 DEF SoftStep, EndStep, KeepsAttempts, IInv, TypeOK, Active, Executing,
              TerminalAttempt
<1>4. ASSUME NEW j \in Job, NEW i \in Step, NEW ok \in BOOLEAN,
             \/ authorize_destructive_intent(j, i)
             \/ satisfy_preliminary_preconditions(j, i)
             \/ deny_destructive_dispatch(j, i, ok)
             \/ deny_transfer_dispatch(j, i, ok)
      PROVE  KeepsAttempts
  BY Zenon, <1>1, <1>4
     DEF authorize_destructive_intent, satisfy_preliminary_preconditions,
                    deny_destructive_dispatch, deny_transfer_dispatch, RevertToPending,
                    attemptVars
<1>5. ASSUME NEW j \in Job, \/ \E e \in Endpoint, n \in Step : create_workflow(j, e, n)
                            \/ admit_job(j) \/ request_cancellation(j)
      PROVE  KeepsAttempts
  BY Zenon, <1>1, <1>5 DEF create_workflow, admit_job, request_cancellation, attemptVars
<1>6. ASSUME NEW j \in Job, NEW i \in Step, NEW a \in Attempt, NEW ok \in BOOLEAN,
             commit_destructive_dispatch(j, i, a, ok) \/ commit_transfer_dispatch(j, i, a, ok)
      PROVE  KeepsAttempts
  BY Zenon, <1>2, <1>6 DEF commit_destructive_dispatch, commit_transfer_dispatch
<1>7. QED  BY Zenon, <1>3, <1>4, <1>5, <1>6, DecisionSteps DEF Next

\* Facts that a decision leaves as they were are persisted without a change.
LEMMA PersistSame ==
  ASSUME IInv, NEW a \in Attempt, attemptState[a] # "Absent",
         Persist(a, Facts(a)), UNCHANGED cancelActions
  PROVE  UNCHANGED vars
<1>1. attemptJob[a] \in Job /\ attemptStep[a] \in Step
  BY Zenon DEF IInv, TypeOK
<1>2. QED  BY <1>1 DEF IInv, TypeOK, Persist, Facts, vars, jobVars, attemptVars

\* Evidence that a transfer decision has seen changes the Job records as the
\* generic evidence of the same message would, or not at all.
LEMMA TransferEvidenceMaps ==
  ASSUME TInv, NEW t \in Transfer, NEW a \in Attempt, TransferEvidence(t, a)
  PROVE  [Next]_vars
<1>1. attemptState[a] # "Absent" /\ IInv
  BY Zenon, NoAttemptAssumption
  DEF TInv, TransferPart, BindingIsOwn, TransferEvidence, TransferResult,
     TransferCancelAck,
      TransferStatusReport
<1>2. ASSUME NEW code \in TransferResultCode, TransferResult(t, a, code)
      PROVE  [Next]_vars
  <2> DEFINE ev == IF code = "TransferVerified" THEN "ResultSucceeded" ELSE "ResultFailed"
  <2>1. ev \in ActionEvidence
    BY Zenon DEF ActionEvidence
  <2>2. \/ Persist(a, Facts(a))
        \/ Persist(a, apply_action_evidence(Facts(a), ev, OtherStepsSucceeded(a)))
    BY Zenon, <1>2
       DEF TransferResult, PersistTransferEvidence, decide_transfer_terminal_evidence
  <2>3. UNCHANGED cancelActions
    BY Zenon, <1>2 DEF TransferResult, PersistTransferEvidence
  <2> HIDE DEF ev
  <2>4. QED  BY <1>1, <2>1, <2>2, <2>3, PersistSame DEF Next, ActionEvidenceApply
<1>3. ASSUME NEW ev \in CancelAckEvidence, TransferCancelAck(t, a, ev)
      PROVE  [Next]_vars
  <2>1. CancelAckApply(a, ev)
    BY Zenon, <1>1, <1>3 DEF TransferCancelAck, PersistTransferEvidence, CancelAckApply,
                      decide_transfer_cancel_ack
  <2>2. QED  BY <2>1 DEF Next
<1>4. ASSUME NEW ev \in {"Cancelled", "Failed"}, TransferStatusReport(t, a, ev)
      PROVE  [Next]_vars
  <2>1. StatusReportApply(a, ev)
    BY Zenon, <1>1, <1>4
       DEF TransferStatusReport, PersistTransferEvidence, StatusReportApply,
                      decide_transfer_status_report_cancelled,
                      decide_transfer_status_report_failed
  <2>2. ev \in StatusReportEvidence
    BY Zenon DEF StatusReportEvidence
  <2>3. QED  BY <2>1, <2>2 DEF Next
<1>5. QED  BY <1>2, <1>3, <1>4 DEF TransferEvidence

\* Every step is a step of JobLifecycle, or leaves its records alone.
LEMMA TransferStepsMap == TInv /\ [TransferNext]_allVars => [Next]_vars
<1> SUFFICES ASSUME TInv, [TransferNext]_allVars PROVE [Next]_vars
  BY Zenon
<1>1. CASE UNCHANGED allVars
  BY Zenon, <1>1 DEF allVars
<1>2. CASE JobNext
  <2>1. ASSUME NEW a \in Attempt, GenericEvidence(a) PROVE Next
    BY Zenon, <2>1 DEF GenericEvidence, Next, ActionEvidence
  <2>2. QED  BY <1>2, <2>1 DEF JobNext, Next
<1>3. CASE TransferServiceNext
  BY Zenon, <1>3
     DEF TransferServiceNext, RecordChunk, accept_verified_chunk, seal_manifest,
              begin_artifact_verification, complete_artifact_verification,
              fail_incomplete_artifact, bind_attempt
<1>4. ASSUME NEW t \in Transfer, NEW a \in Attempt, TransferEvidence(t, a)
      PROVE  [Next]_vars
  BY Zenon, <1>4, TransferEvidenceMaps
<1>5. ASSUME NEW t \in Transfer, deny_dispatch(t) \/ \E a \in Attempt : dispatch_transfer(t, a)
      PROVE  [Next]_vars
  <2>1. transferJob[t] \in Job /\ transferStep[t] \in Step
    BY Zenon, <1>5
       DEF deny_dispatch, dispatch_transfer, TInv, TransferPart, CreatedHasOwner
  <2>2. QED  BY Zenon, <1>5, <2>1 DEF deny_dispatch, dispatch_transfer, Next
<1>6. ASSUME NEW t \in Transfer,
             \/ \E j \in Job, i \in Step : create_transfer_context(t, j, i)
             \/ \E i \in Index, c \in Content : commit_chunk_acceptance(t, i, c)
             \/ \E n \in 0..MaxChunks, d \in ArtifactDigest :
                  \/ commit_manifest_seal(t, n, d)
                  \/ \E computed \in ArtifactDigest :
                       commit_artifact_verification(t, n, d, computed)
      PROVE  UNCHANGED vars
  BY Zenon, <1>6
     DEF create_transfer_context, commit_chunk_acceptance, commit_manifest_seal,
              commit_artifact_verification
<1>7. QED  BY <1>1, <1>2, <1>3, <1>4, <1>5, <1>6 DEF TransferNext, DataPlaneNext

-----------------------------------------------------------------------------
(* The five kinds of step of the transfer records.                         *)

Create(t, j, i) ==
  /\ artifactState[t] = "Absent"
  /\ transferJob' = [transferJob EXCEPT ![t] = j]
  /\ transferStep' = [transferStep EXCEPT ![t] = i]
  /\ artifactState' = [artifactState EXCEPT ![t] = "Incomplete"]
  /\ UNCHANGED <<transferAttempt, manifestVars>>

Bind(t, a) ==
  /\ artifactState[t] # "Absent"
  /\ transferAttempt[t] \in {None, a}
  /\ \A u \in Transfer \ {t} : transferAttempt[u] # a
  /\ attemptState'[a] # "Absent"
  /\ attemptJob'[a] = transferJob[t] /\ attemptStep'[a] = transferStep[t]
  /\ transferAttempt' = [transferAttempt EXCEPT ![t] = a]
  /\ UNCHANGED <<transferJob, transferStep, artifactState, manifestVars>>

\* `i' is recorded, or was with the same content, and may become held.
Grow(t, i, c) ==
  /\ \/ chunks' = chunks /\ i \in DOMAIN chunks[t]
     \/ /\ i \notin DOMAIN chunks[t] /\ sealed[t] = <<>>
        /\ chunks' = [chunks EXCEPT ![t] = WithChunk(chunks[t], i, c)]
  /\ held' = held \/ held' = [held EXCEPT ![t] = @ \cup {i}]
  /\ UNCHANGED <<bindingVars, artifactState, sealed>>

Sealing(t, n, d) ==
  /\ artifactState[t] # "Absent" /\ sealed[t] = <<>>
  /\ DOMAIN chunks[t] = 0..(n - 1)
  /\ sealed' = [sealed EXCEPT ![t] = <<n, d>>]
  /\ \/ artifactState' = artifactState
     \/ /\ artifactState[t] = "Incomplete" /\ DOMAIN chunks[t] \subseteq held[t]
        /\ artifactState' = [artifactState EXCEPT ![t] = "PendingVerification"]
  /\ UNCHANGED <<bindingVars, chunks, held>>

Judge(t, s) ==
  /\ \/ s = artifactState[t]
     \/ artifactState[t] = "Incomplete" /\ s = "Failed"
     \/ /\ artifactState[t] = "Incomplete" /\ s = "PendingVerification"
        /\ sealed[t] # <<>> /\ DOMAIN chunks[t] \subseteq held[t]
     \/ artifactState[t] = "PendingVerification" /\ s \in TerminalArtifact
  /\ artifactState[t] # "Absent"
  /\ artifactState' = [artifactState EXCEPT ![t] = s]
  /\ UNCHANGED <<bindingVars, manifestVars>>

TransferKinds ==
  \/ UNCHANGED transferVars
  \/ \E t \in Transfer :
       \/ \E j \in Job, i \in Step : Create(t, j, i)
       \/ \E a \in Attempt : Bind(t, a)
       \/ \E i \in Index, c \in Content : Grow(t, i, c)
       \/ \E n \in 0..MaxChunks, d \in ArtifactDigest : Sealing(t, n, d)
       \/ \E s \in ArtifactState : Judge(t, s)

\* The chunk indices are finitely many.
LEMMA ChunksAreFinite ==
  ASSUME NEW ch \in ChunkMap
  PROVE  IsFiniteSet(DOMAIN ch) /\ DOMAIN ch \subseteq Index
<1>1. DOMAIN ch \subseteq Index
  BY Zenon DEF ChunkMap
<1>2. IsFiniteSet(Index)
  BY FS_Interval, MaxChunksAssumption DEF Index
<1>3. QED  BY <1>1, <1>2, FS_Subset

\* A count and the presence of every index below it are a full manifest.
LEMMA SealIsFull ==
  ASSUME NEW ch \in ChunkMap, NEW sl, NEW n \in 0..MaxChunks, NEW d,
         seal(ch, sl, n, d) = "Sealed"
  PROVE  sl = <<>> /\ DOMAIN ch = 0..(n - 1)
<1>1. sl = <<>> /\ Cardinality(DOMAIN ch) = n /\ 0..(n - 1) \subseteq DOMAIN ch
  BY Zenon DEF seal
<1>2. Cardinality(0..(n - 1)) = n
  <2>1. CASE n = 0
    <3>1. 0..(n - 1) = {}
      BY <2>1
    <3>2. QED  BY <2>1, <3>1, FS_EmptySet
  <2>2. CASE n # 0
    BY <2>2, FS_Interval, MaxChunksAssumption
  <2>3. QED  BY <2>1, <2>2
<1>3. QED  BY <1>1, <1>2, ChunksAreFinite, FS_Subset

\* An already recorded identity is not changed by recording it again.
LEMMA SameChunk ==
  ASSUME NEW ch \in ChunkMap, NEW i \in DOMAIN ch
  PROVE  WithChunk(ch, i, ch[i]) = ch
<1>1. ch = [k \in DOMAIN ch |-> ch[k]]
  BY Zenon DEF ChunkMap
<1>2. DOMAIN ch \cup {i} = DOMAIN ch
  BY Zenon
<1>3. QED  BY <1>1, <1>2 DEF WithChunk

\* The decisions about terminal evidence leave the Artifact or fail it when
\* it is Incomplete, and touch nothing else of the Transfer.
LEMMA EvidenceArtifact ==
  ASSUME NEW t \in Transfer, NEW a \in Attempt, TransferEvidence(t, a)
  PROVE  /\ \E s \in {artifactState[t], fail_incomplete(artifactState[t])} :
              artifactState' = [artifactState EXCEPT ![t] = s]
         /\ UNCHANGED <<bindingVars, manifestVars>>
  BY Zenon DEF TransferEvidence, TransferResult, TransferCancelAck, TransferStatusReport,
     PersistTransferEvidence, decide_transfer_terminal_evidence, decide_transfer_cancel_ack,
     decide_transfer_status_report_cancelled, decide_transfer_status_report_failed

LEMMA EvidenceJudges ==
  ASSUME TInv, NEW t \in Transfer, NEW a \in Attempt, TransferEvidence(t, a)
  PROVE  \E s \in ArtifactState : Judge(t, s)
<1>1. artifactState[t] # "Absent" /\ artifactState[t] \in ArtifactState
  BY Zenon, NoAttemptAssumption
     DEF TInv, TransferPart, TransferTypeOK, CreatedHasOwner, TransferEvidence,
         TransferResult, TransferCancelAck, TransferStatusReport
<1>2. PICK s \in {artifactState[t], fail_incomplete(artifactState[t])} :
        /\ artifactState' = [artifactState EXCEPT ![t] = s]
        /\ UNCHANGED <<bindingVars, manifestVars>>
  BY Zenon, EvidenceArtifact
<1>3. s = artifactState[t] \/ (artifactState[t] = "Incomplete" /\ s = "Failed")
  BY Zenon, <1>2 DEF fail_incomplete
<1>4. Judge(t, s) /\ s \in ArtifactState
  BY Zenon, <1>1, <1>2, <1>3 DEF Judge, ArtifactState
<1>5. QED  BY Zenon, <1>4

\* The commits of a chunk's acceptance, together or apart, grow the manifest.
LEMMA ChunkGrows ==
  ASSUME TInv, NEW t \in Transfer, NEW i \in Index, NEW c \in Content,
         \/ commit_chunk_acceptance(t, i, c)
         \/ RecordChunk(t, i, c)
         \/ accept_verified_chunk(t, i, c)
  PROVE  Grow(t, i, c)
<1>1. chunks[t] \in ChunkMap /\ chunks = [chunks EXCEPT ![t] = chunks[t]]
  BY Zenon DEF TInv, TransferPart, TransferTypeOK
<1>2. CASE commit_chunk_acceptance(t, i, c)
  <2>1. \/ i \in DOMAIN chunks[t] /\ chunks[t][i] = c
        \/ i \notin DOMAIN chunks[t] /\ sealed[t] = <<>>
    BY Zenon, <1>2 DEF commit_chunk_acceptance, ChunkAcceptable, record_expected_chunk
  <2>2. i \in DOMAIN chunks[t] /\ chunks[t][i] = c => WithChunk(chunks[t], i, c) = chunks[t]
    BY Zenon, <1>1, SameChunk
  <2>3. chunks' = [chunks EXCEPT ![t] = WithChunk(chunks[t], i, c)]
    BY Zenon, <1>2 DEF commit_chunk_acceptance
  <2>4. UNCHANGED <<bindingVars, artifactState, sealed>>
        /\ held' = [held EXCEPT ![t] = @ \cup {i}]
    BY Zenon, <1>2 DEF commit_chunk_acceptance
  <2>5. QED  BY <1>1, <2>1, <2>2, <2>3, <2>4 DEF Grow
<1>3. CASE RecordChunk(t, i, c)
  BY Zenon, <1>3 DEF RecordChunk, record_expected_chunk, Grow
<1>4. CASE accept_verified_chunk(t, i, c)
  BY Zenon, <1>4 DEF accept_verified_chunk, validate_verified_chunk, Grow
<1>5. QED  BY <1>2, <1>3, <1>4

\* The two ways to seal have the same decision on the chunks.
LEMMA SealSeals ==
  ASSUME TInv, NEW t \in Transfer, NEW n \in 0..MaxChunks, NEW d \in ArtifactDigest,
         commit_manifest_seal(t, n, d) \/ seal_manifest(t, n, d)
  PROVE  Sealing(t, n, d)
<1>1. chunks[t] \in ChunkMap
  BY Zenon DEF TInv, TransferPart, TransferTypeOK
<1>2. CASE seal_manifest(t, n, d)
  BY <1>1, <1>2, SealIsFull DEF seal_manifest, Sealing
<1>3. CASE commit_manifest_seal(t, n, d)
  <2>1. /\ seal(chunks[t], sealed[t], n, d) = "Sealed"
        /\ begin_verification(artifactState[t], chunks[t], <<n, d>>, held[t])
             = "PendingVerification"
    BY Zenon, <1>3 DEF commit_manifest_seal, SealDecision
  <2>2. artifactState[t] = "Incomplete" /\ DOMAIN chunks[t] \subseteq held[t]
    BY Zenon, <2>1 DEF begin_verification
  <2>3. sealed[t] = <<>> /\ DOMAIN chunks[t] = 0..(n - 1)
    BY Zenon, <1>1, <2>1, SealIsFull
  <2>4. QED  BY <1>3, <2>2, <2>3 DEF commit_manifest_seal, Sealing
<1>4. QED  BY <1>2, <1>3

\* Committing a dispatch binds an Attempt that no Transfer has.
LEMMA DispatchBinds ==
  ASSUME TInv, NEW t \in Transfer, NEW a \in Attempt,
         dispatch_transfer(t, a) \/ bind_attempt(t, a)
  PROVE  Bind(t, a)
<1>1. CASE dispatch_transfer(t, a)
  <2>1. attemptState[a] = "Absent" /\ CommitAttempt(transferJob[t], transferStep[t], a)
        /\ transferAttempt[t] = None
    BY Zenon, <1>1 DEF dispatch_transfer, commit_transfer_dispatch, CommitAttempt
  <2>2. \A u \in Transfer : transferAttempt[u] # a
    BY Zenon, <2>1, NoAttemptAssumption DEF TInv, TransferPart, BindingIsOwn
  <2>3. /\ attemptState'[a] = "Dispatched"
        /\ attemptJob'[a] = transferJob[t] /\ attemptStep'[a] = transferStep[t]
    BY Zenon, <2>1 DEF CommitAttempt, TInv, IInv, TypeOK
  <2>4. QED  BY <1>1, <2>1, <2>2, <2>3 DEF dispatch_transfer, Bind
<1>2. CASE bind_attempt(t, a)
  BY Zenon, <1>2 DEF bind_attempt, Bind, vars, attemptVars
<1>3. QED  BY <1>1, <1>2

\* Every step is of one of the five kinds, or leaves the records alone.
LEMMA StepsAreKinds ==
  ASSUME TInv, [TransferNext]_allVars
  PROVE  TransferKinds
<1>1. CASE UNCHANGED allVars \/ (JobNext /\ UNCHANGED transferVars)
  BY Zenon, <1>1 DEF allVars, TransferKinds
<1>2. ASSUME NEW t \in Transfer, deny_dispatch(t) PROVE TransferKinds
  BY Zenon, <1>2 DEF deny_dispatch, TransferKinds
<1>3. ASSUME NEW t \in Transfer, NEW j \in Job, NEW i \in Step, create_transfer_context(t, j, i)
      PROVE  TransferKinds
  BY Zenon, <1>3 DEF create_transfer_context, Create, TransferKinds
<1>4. ASSUME NEW t \in Transfer, NEW a \in Attempt,
             dispatch_transfer(t, a) \/ bind_attempt(t, a) \/ TransferEvidence(t, a)
      PROVE  TransferKinds
  BY Zenon, <1>4, DispatchBinds, EvidenceJudges DEF TransferKinds
<1>5. ASSUME NEW t \in Transfer, NEW i \in Index, NEW c \in Content,
             \/ commit_chunk_acceptance(t, i, c)
             \/ RecordChunk(t, i, c)
             \/ accept_verified_chunk(t, i, c)
      PROVE  TransferKinds
  BY Zenon, <1>5, ChunkGrows DEF TransferKinds
<1>6. ASSUME NEW t \in Transfer, NEW n \in 0..MaxChunks, NEW d \in ArtifactDigest,
             commit_manifest_seal(t, n, d) \/ seal_manifest(t, n, d)
      PROVE  TransferKinds
  BY Zenon, <1>6, SealSeals DEF TransferKinds
<1>7. ASSUME NEW t \in Transfer, NEW n \in 0..MaxChunks, NEW d \in ArtifactDigest,
             NEW computed \in ArtifactDigest, commit_artifact_verification(t, n, d, computed)
      PROVE  TransferKinds
  <2>1. Judge(t, IF computed = d THEN "Verified" ELSE "Failed")
    BY Zenon, <1>7
       DEF commit_artifact_verification, complete_verification, Judge, TerminalArtifact
  <2>2. QED  BY <2>1 DEF TransferKinds, ArtifactState
<1>8. ASSUME NEW t \in Transfer,
             \/ begin_artifact_verification(t)
             \/ fail_incomplete_artifact(t)
             \/ \E matches \in BOOLEAN : complete_artifact_verification(t, matches)
      PROVE  TransferKinds
  <2>1. Judge(t, "PendingVerification") \/ Judge(t, "Failed") \/ Judge(t, "Verified")
    BY Zenon, <1>8
       DEF begin_artifact_verification, begin_verification, fail_incomplete_artifact,
                fail_incomplete, complete_artifact_verification, complete_verification,
                Judge, TerminalArtifact
  <2>2. QED  BY <2>1 DEF TransferKinds, ArtifactState
<1>9. QED
  BY Zenon, <1>1, <1>2, <1>3, <1>4, <1>5, <1>6, <1>7, <1>8
  DEF TransferNext, DataPlaneNext, TransferServiceNext

-----------------------------------------------------------------------------
(* Each kind preserves the transfer part of the invariant.                 *)

\* Nothing is created initially.
LEMMA InitTInv == TransferInit => TInv
<1> SUFFICES ASSUME TransferInit PROVE TInv
  BY Zenon
<1>1. IInv
  BY Zenon, InitIInv DEF TransferInit
<1>2. <<>> \in ChunkMap
  <2>1. <<>> \in [{} -> Content]
    OBVIOUS
  <2>2. QED  BY Zenon, <2>1 DEF ChunkMap
<1>3. TransferTypeOK
  BY Zenon, <1>2 DEF TransferInit, TransferTypeOK, SealedFacts
<1>4. QED
  BY Zenon, <1>1, <1>3
     DEF TransferInit, TInv, TransferPart, CreatedHasOwner, SealedIsFull,
                    VerifiedIsComplete, BindingIsOwn

\* The Job records may move under unchanged transfer records.
LEMMA QuietPreserves ==
  ASSUME TransferPart, KeepsAttempts, UNCHANGED transferVars
  PROVE  TransferPart'
<1>1. BindingIsOwn'
  BY DEF TransferPart, BindingIsOwn, TransferTypeOK, KeepsAttempts, transferVars,
     bindingVars
<1>2. QED
  BY Zenon, <1>1
     DEF TransferPart, TransferTypeOK, CreatedHasOwner, SealedIsFull, VerifiedIsComplete,
              transferVars, bindingVars, manifestVars

\* A new Transfer has its JobStep and no Attempt.
LEMMA CreateTransferPreserves ==
  ASSUME TransferPart, KeepsAttempts, NEW t \in Transfer, NEW j \in Job, NEW i \in Step,
         Create(t, j, i)
  PROVE  TransferPart'
<1>1. TransferTypeOK'
  BY Zenon DEF TransferPart, TransferTypeOK, Create, manifestVars, ArtifactState
<1>2. CreatedHasOwner' /\ SealedIsFull'
  BY Zenon
     DEF TransferPart, TransferTypeOK, CreatedHasOwner, SealedIsFull, Create, manifestVars
<1>3. VerifiedIsComplete'
  BY Zenon DEF TransferPart, TransferTypeOK, VerifiedIsComplete, Create, manifestVars
<1>4. BindingIsOwn'
  BY DEF TransferPart, TransferTypeOK, CreatedHasOwner, BindingIsOwn, KeepsAttempts,
     Create
<1>5. QED  BY <1>1, <1>2, <1>3, <1>4 DEF TransferPart

\* An Attempt is bound to one Transfer, of its own JobStep.
LEMMA BindPreserves ==
  ASSUME TransferPart, KeepsAttempts, NEW t \in Transfer, NEW a \in Attempt, Bind(t, a)
  PROVE  TransferPart'
<1>1. TransferTypeOK'
  BY Zenon DEF TransferPart, TransferTypeOK, Bind, manifestVars
<1>2. CreatedHasOwner' /\ SealedIsFull' /\ VerifiedIsComplete'
  BY Zenon
     DEF TransferPart, TransferTypeOK, CreatedHasOwner, SealedIsFull, VerifiedIsComplete,
         Bind, manifestVars
<1>3. BindingIsOwn'
  BY DEF TransferPart, TransferTypeOK, BindingIsOwn, KeepsAttempts, Bind
<1>4. QED  BY <1>1, <1>2, <1>3 DEF TransferPart

\* A manifest grows only before its seal, and only what it has is held.
LEMMA GrowPreserves ==
  ASSUME TransferPart, KeepsAttempts, NEW t \in Transfer, NEW i \in Index, NEW c \in Content,
         Grow(t, i, c)
  PROVE  TransferPart'
<1> DEFINE ch == WithChunk(chunks[t], i, c)
<1>1. ch \in ChunkMap /\ DOMAIN ch = DOMAIN chunks[t] \cup {i}
  <2>1. chunks[t] \in ChunkMap
    BY Zenon DEF TransferPart, TransferTypeOK
  <2>2. PICK S \in SUBSET Index : chunks[t] \in [S -> Content]
    BY Zenon, <2>1 DEF ChunkMap
  <2>3. ch \in [S \cup {i} -> Content]
    BY Zenon, <2>2 DEF WithChunk
  <2>4. QED  BY <2>2, <2>3 DEF ChunkMap
<1> HIDE DEF ch
<1>2. /\ chunks' \in [Transfer -> ChunkMap]
      /\ \A u \in Transfer \ {t} : chunks'[u] = chunks[u]
      /\ \/ chunks'[t] = chunks[t] /\ i \in DOMAIN chunks[t]
         \/ /\ sealed[t] = <<>>
            /\ DOMAIN chunks'[t] = DOMAIN chunks[t] \cup {i}
  BY <1>1 DEF TransferPart, TransferTypeOK, Grow, ch
<1>3. /\ held' \in [Transfer -> SUBSET Index]
      /\ \A u \in Transfer \ {t} : held'[u] = held[u]
      /\ held[t] \subseteq held'[t] /\ held'[t] \subseteq held[t] \cup {i}
  BY DEF TransferPart, TransferTypeOK, Grow
<1>4. UNCHANGED <<transferJob, transferStep, transferAttempt, artifactState, sealed>>
  BY Zenon DEF Grow, bindingVars
<1>5. \A u \in Transfer : held'[u] \subseteq DOMAIN chunks'[u]
  BY Zenon, <1>2, <1>3 DEF TransferPart, TransferTypeOK
<1>6. TransferTypeOK'
  BY Zenon, <1>2, <1>3, <1>4, <1>5 DEF TransferPart, TransferTypeOK
<1>7. CreatedHasOwner' /\ SealedIsFull'
  BY Zenon, <1>2, <1>4 DEF TransferPart, CreatedHasOwner, SealedIsFull
<1>8. VerifiedIsComplete'
  BY Zenon, <1>2, <1>3, <1>4, <1>5 DEF TransferPart, VerifiedIsComplete
<1>9. BindingIsOwn'
  BY <1>4 DEF TransferPart, TransferTypeOK, BindingIsOwn, KeepsAttempts
<1>10. QED  BY <1>6, <1>7, <1>8, <1>9 DEF TransferPart

\* A manifest is sealed full, and is verified only when it is also held.
LEMMA SealingPreserves ==
  ASSUME TransferPart, KeepsAttempts, NEW t \in Transfer, NEW n \in 0..MaxChunks,
         NEW d \in ArtifactDigest, Sealing(t, n, d)
  PROVE  TransferPart'
<1>1. /\ sealed' \in [Transfer -> SealedFacts] /\ sealed'[t] = <<n, d>>
      /\ \A u \in Transfer \ {t} : sealed'[u] = sealed[u]
      /\ sealed'[t] # <<>> /\ sealed'[t][1] = n
  BY Zenon DEF TransferPart, TransferTypeOK, Sealing, SealedFacts
<1>2. /\ artifactState' \in [Transfer -> ArtifactState \cup {"Absent"}]
      /\ \A u \in Transfer \ {t} : artifactState'[u] = artifactState[u]
      /\ \A u \in Transfer : artifactState'[u] = "Absent" <=> artifactState[u] = "Absent"
      /\ \/ artifactState'[t] = artifactState[t]
         \/ DOMAIN chunks[t] \subseteq held[t]
  BY Zenon DEF TransferPart, TransferTypeOK, Sealing, ArtifactState
<1>3. /\ UNCHANGED <<transferJob, transferStep, transferAttempt, chunks, held>>
      /\ sealed[t] = <<>> /\ DOMAIN chunks[t] = 0..(n - 1)
  BY Zenon DEF Sealing, bindingVars
<1>4. TransferTypeOK'
  BY Zenon, <1>1, <1>2, <1>3 DEF TransferPart, TransferTypeOK
<1>5. CreatedHasOwner' /\ SealedIsFull'
  BY Zenon, <1>1, <1>2, <1>3 DEF TransferPart, CreatedHasOwner, SealedIsFull
<1>6. VerifiedIsComplete'
  BY Zenon, <1>1, <1>2, <1>3 DEF TransferPart, VerifiedIsComplete, TransferTypeOK
<1>7. BindingIsOwn'
  BY <1>3 DEF TransferPart, TransferTypeOK, BindingIsOwn, KeepsAttempts
<1>8. QED  BY <1>4, <1>5, <1>6, <1>7 DEF TransferPart

\* A verdict changes nothing but the Artifact's state.
LEMMA JudgePreserves ==
  ASSUME TransferPart, KeepsAttempts, NEW t \in Transfer, NEW s \in ArtifactState,
         Judge(t, s)
  PROVE  TransferPart'
<1>1. /\ artifactState' \in [Transfer -> ArtifactState \cup {"Absent"}]
      /\ \A u \in Transfer \ {t} : artifactState'[u] = artifactState[u]
      /\ artifactState'[t] = s /\ s # "Absent" /\ artifactState[t] # "Absent"
  BY Zenon DEF TransferPart, TransferTypeOK, Judge, ArtifactState
<1>2. UNCHANGED <<transferJob, transferStep, transferAttempt, chunks, held, sealed>>
  BY Zenon DEF Judge, bindingVars, manifestVars
<1>3. s \in {"PendingVerification", "Verified"} =>
        /\ sealed[t] # <<>> /\ DOMAIN chunks[t] = 0..(sealed[t][1] - 1)
        /\ held[t] = DOMAIN chunks[t]
  BY Zenon DEF Judge, TransferPart, TransferTypeOK, VerifiedIsComplete, SealedIsFull
<1>4. TransferTypeOK' /\ CreatedHasOwner' /\ SealedIsFull'
  BY Zenon, <1>1, <1>2 DEF TransferPart, TransferTypeOK, CreatedHasOwner, SealedIsFull
<1>5. VerifiedIsComplete'
  BY Zenon, <1>1, <1>2, <1>3 DEF TransferPart, VerifiedIsComplete
<1>6. BindingIsOwn'
  BY <1>2 DEF TransferPart, TransferTypeOK, BindingIsOwn, KeepsAttempts
<1>7. QED  BY <1>4, <1>5, <1>6 DEF TransferPart

\* Every step of the system preserves the inductive invariant.
LEMMA TransferNextPreserves == TInv /\ [TransferNext]_allVars => TInv'
<1> SUFFICES ASSUME TInv, [TransferNext]_allVars PROVE TInv'
  BY Zenon
<1>1. [Next]_vars
  BY Zenon, TransferStepsMap
<1>2. IInv' /\ KeepsAttempts
  BY Zenon, <1>1, NextPreserves, NextKeepsAttempts DEF TInv
<1>3. TransferPart /\ TransferKinds
  BY Zenon, StepsAreKinds DEF TInv
<1>4. TransferPart'
  BY Zenon, <1>2, <1>3, QuietPreserves, CreateTransferPreserves, BindPreserves,
     GrowPreserves,
     SealingPreserves, JudgePreserves DEF TransferKinds
<1>5. QED  BY <1>2, <1>4 DEF TInv

\* The inductive invariant holds in every reachable state.
THEOREM TransferInvariance == TransferSpec => []TInv
  BY InitTInv, TransferNextPreserves, PTL DEF TransferSpec

-----------------------------------------------------------------------------
(* What follows from it.                                                   *)

\* Every transfer column keeps its type, and a held chunk has its identity.
THEOREM TransferTypeCorrect == TransferSpec => []TransferTypeOK
<1>1. TInv => TransferTypeOK
  BY Zenon DEF TInv, TransferPart
<1>2. QED  BY <1>1, TransferInvariance, PTL

\* An Artifact under verification, or Verified, is sealed, full and held.
THEOREM VerifiedArtifactsAreComplete == TransferSpec => []VerifiedIsComplete
<1>1. TInv => VerifiedIsComplete
  BY Zenon DEF TInv, TransferPart
<1>2. QED  BY <1>1, TransferInvariance, PTL

\* A Transfer's Attempt is of the Transfer's JobStep, and of no other Transfer.
THEOREM BindingsAreOwn == TransferSpec => []BindingIsOwn
<1>1. TInv => BindingIsOwn
  BY Zenon DEF TInv, TransferPart
<1>2. QED  BY <1>1, TransferInvariance, PTL

\* The transfer decisions only change the Job records as JobLifecycle allows.
THEOREM TransfersRefine == TransferSpec => TransfersRefineJobLifecycle
<1>1. TransferInit => Init
  BY Zenon DEF TransferInit
<1>2. TInv /\ [TransferNext]_allVars => [Next]_vars
  BY Zenon, TransferStepsMap
<1>3. QED
  BY <1>1, <1>2, TransferInvariance, PTL
     DEF TransferSpec, TransfersRefineJobLifecycle, Spec

KeepsPromises(t) ==
  /\ transferAttempt[t] # None => transferAttempt'[t] = transferAttempt[t]
  /\ \A i \in DOMAIN chunks[t] : i \in DOMAIN chunks'[t] /\ chunks'[t][i] = chunks[t][i]
  /\ held[t] \subseteq held'[t]
  /\ sealed[t] # <<>> => sealed'[t] = sealed[t] /\ chunks'[t] = chunks[t]
  /\ artifactState[t] \in TerminalArtifact => artifactState'[t] = artifactState[t]
  /\ artifactState[t] = "PendingVerification" =>
       artifactState'[t] \in {"PendingVerification"} \cup TerminalArtifact

\* None of the five kinds takes back what the records promised.
LEMMA KindsKeepPromises ==
  ASSUME TransferPart, TransferKinds, NEW u \in Transfer
  PROVE  KeepsPromises(u)
<1> USE DEF KeepsPromises
<1>1. CASE UNCHANGED transferVars
  BY Zenon, <1>1 DEF transferVars, bindingVars, manifestVars
<1>2. ASSUME NEW t \in Transfer, NEW j \in Job, NEW i \in Step, Create(t, j, i)
      PROVE  KeepsPromises(u)
  BY Zenon, <1>2 DEF Create, manifestVars, TerminalArtifact, TransferPart, TransferTypeOK
<1>3. ASSUME NEW t \in Transfer, NEW a \in Attempt, Bind(t, a) PROVE KeepsPromises(u)
  BY Zenon, <1>3 DEF Bind, manifestVars, TransferPart, TransferTypeOK
<1>4. ASSUME NEW t \in Transfer, NEW i \in Index, NEW c \in Content, Grow(t, i, c)
      PROVE  KeepsPromises(u)
  <2>1. UNCHANGED <<transferAttempt, artifactState, sealed>> /\ held[u] \subseteq held'[u]
    BY <1>4 DEF Grow, bindingVars, TransferPart, TransferTypeOK
  <2>2. \/ chunks'[u] = chunks[u]
        \/ /\ sealed[u] = <<>> /\ i \notin DOMAIN chunks[u]
           /\ chunks'[u] = WithChunk(chunks[u], i, c)
    BY Zenon, <1>4 DEF Grow, TransferPart, TransferTypeOK
  <2>3. \A k \in DOMAIN chunks[u] : k \in DOMAIN chunks'[u] /\ chunks'[u][k] = chunks[u][k]
    BY Zenon, <2>2 DEF WithChunk
  <2>4. sealed[u] # <<>> => chunks'[u] = chunks[u]
    BY Zenon, <2>2
  <2>5. QED  BY <2>1, <2>3, <2>4
<1>5. ASSUME NEW t \in Transfer, NEW n \in 0..MaxChunks, NEW d \in ArtifactDigest,
             Sealing(t, n, d)
      PROVE  KeepsPromises(u)
  BY Zenon, <1>5 DEF Sealing, bindingVars, TerminalArtifact, TransferPart, TransferTypeOK
<1>6. ASSUME NEW t \in Transfer, NEW s \in ArtifactState, Judge(t, s)
      PROVE  KeepsPromises(u)
  BY Zenon, <1>6
     DEF Judge, bindingVars, manifestVars, TerminalArtifact, TransferPart, TransferTypeOK
<1>7. QED  BY Zenon, <1>1, <1>2, <1>3, <1>4, <1>5, <1>6 DEF TransferKinds

\* A binding, a recorded identity, a held chunk, a seal and a terminal
\* Artifact are never taken back by any operation on them.
THEOREM PromisesAreDurable == TransferSpec => DurablePromises
<1>1. TInv /\ [TransferNext]_allVars => \A t \in Transfer : KeepsPromises(t)
  BY Zenon, StepsAreKinds, KindsKeepPromises DEF TInv
<1>2. (\A t \in Transfer : KeepsPromises(t)) =>
      [\A t \in Transfer :
         /\ transferAttempt[t] # None => transferAttempt'[t] = transferAttempt[t]
         /\ \A i \in DOMAIN chunks[t] :
              i \in DOMAIN chunks'[t] /\ chunks'[t][i] = chunks[t][i]
         /\ held[t] \subseteq held'[t]
         /\ sealed[t] # <<>> => sealed'[t] = sealed[t] /\ chunks'[t] = chunks[t]
         /\ artifactState[t] \in TerminalArtifact => artifactState'[t] = artifactState[t]
         /\ artifactState[t] = "PendingVerification" =>
              artifactState'[t] \in {"PendingVerification"} \cup TerminalArtifact]_allVars
  BY Zenon DEF KeepsPromises
<1>3. QED
  BY <1>1, <1>2, TransferInvariance, PTL DEF TransferSpec, DurablePromises

-----------------------------------------------------------------------------
(* The capture.                                                            *)

\* What a request knows: while it is handled, the index and the bytes of a
\* chunk, that the bytes are in their file before the commit, and a seal of a
\* whole source with the digest read back from the files; once it is answered
\* with "Verified", that the Artifact is.
GoodRequest(q) ==
  /\ q = Free \/ (q.op \in {"Resume", "Put", "Seal"} /\ q.t \in Transfer)
  /\ q.op = "Put" /\ q.at # "done" => q.i \in Index /\ q.bytes \in Content
  /\ q.op = "Put" /\ q.at = "commit" =>
       q.i \in DOMAIN stored[q.t] /\ stored[q.t][q.i] = q.bytes
  /\ q.op = "Seal" /\ q.at # "done" => q.n = MaxChunks /\ q.d \in sources[q.t]
  /\ q.op = "Seal" /\ q.at = "report" =>
       /\ Index \subseteq DOMAIN stored[q.t]
       /\ q.computed = [i \in Index |-> stored[q.t][i]]
  /\ q.op = "Seal" /\ q.at = "done" /\ q.reply = "Verified" =>
       artifactState[q.t] = "Verified"

\* What a run knows: it has an Attempt, its plan is a source there has been,
\* and it found out "TransferVerified" from a Verified Artifact.
GoodRun(t) ==
  /\ run[t].at # "Idle" => Bound(t)
  /\ run[t].at = "Uploading" => run[t].plan \in sources[t]
  /\ run[t].at = "Completed" =>
       /\ run[t].code \in TransferResultCode
       /\ run[t].code = "TransferVerified" => artifactState[t] = "Verified"

\* The request a run awaits is its own, and of the phase the run is in.
GoodWait(t) ==
  waiting[t] # None =>
    /\ waiting[t] \in Request /\ req[waiting[t]] # Free /\ req[waiting[t]].t = t
    /\ run[t].at = IF req[waiting[t]].op = "Resume" THEN "Discovering" ELSE "Uploading"

PlaneTypes ==
  /\ source \in [Transfer -> [Index -> Content]]
  /\ sources \in [Transfer -> SUBSET [Index -> Content]]
  /\ stored \in [Transfer -> ChunkMap]
  /\ DOMAIN run = Transfer /\ DOMAIN waiting = Transfer /\ DOMAIN req = Request
  /\ \A t \in Transfer : source[t] \in sources[t]

\* The sealed digest of a Verified Artifact is a source, of which every chunk
\* is recorded.
VerifiedIsSource ==
  \A t \in Transfer : artifactState[t] = "Verified" =>
    sealed[t][2] \in sources[t] /\ chunks[t] = sealed[t][2]

GoodPlane ==
  /\ \A r \in Request : GoodRequest(req[r])
  /\ \A t \in Transfer : GoodRun(t) /\ GoodWait(t)

PInv == /\ TInv /\ PlaneTypes /\ GoodPlane
        /\ HeldIsStored /\ VerifiedIsSource /\ OutcomeMatchesArtifact

-----------------------------------------------------------------------------
(* Every step is one of TransferLifecycle, or leaves its records alone.    *)

\* A bound Transfer's Attempt exists.
LEMMA BoundAttempt ==
  ASSUME TInv, NEW t \in Transfer, Bound(t)
  PROVE  /\ transferAttempt[t] \in Attempt
         /\ attemptState[transferAttempt[t]] # "Absent"
         /\ BoundState(t) = attemptState[transferAttempt[t]]
         /\ Facts(transferAttempt[t]).attempt = BoundState(t)
  BY Zenon DEF TInv, TransferPart, TransferTypeOK, BindingIsOwn, Bound, BoundState, Facts

\* The steps of the Agent's run touch no record.
AgentStep ==
  \E t \in Transfer :
    \/ accept(t)
    \/ \E r \in Request : start_run(t, r) \/ send_next(t, r) \/ receive_response(t, r)
    \/ request_timeout(t) \/ interrupt_run(t)
    \/ \E new \in [Index -> Content] : mutate_chunk(t, new)

\* The steps of the records that the Worker has no part in.
RecordStep ==
  \/ Prepare
  \/ Disturb
  \/ \E t \in Transfer :
       \/ send_action_ack(t) \/ send_action_result(t)
       \/ send_cancel_ack(t) \/ send_status_report(t)

WorkerStep == \E r \in Request : Handler(r) \/ handler_stops(r)

LEMMA PlaneStepKinds ==
  ASSUME PlaneNext PROVE AgentStep \/ RecordStep \/ WorkerStep
  BY Zenon DEF PlaneNext, Agent, AgentStep, RecordStep, WorkerStep

\* A run works on its own.
LEMMA AgentTouchesNoRecord ==
  ASSUME AgentStep PROVE UNCHANGED <<allVars, stored>>
  BY Zenon DEF AgentStep, accept, start_run, send_next, receive_response, request_timeout,
     interrupt_run, mutate_chunk

\* The Agent's terminal messages go through the decisions that also see the
\* Artifact.
LEMMA AgentEvidence ==
  ASSUME PInv, NEW t \in Transfer,
         \/ send_action_result(t) \/ send_cancel_ack(t)
         \/ send_status_report(t) /\ KnownState(t) \in {"Cancelled", "Failed"}
  PROVE  transferAttempt[t] \in Attempt /\ TransferEvidence(t, transferAttempt[t])
<1>1. CASE send_action_result(t)
  <2>1. Bound(t) /\ run[t].code \in TransferResultCode
    BY Zenon, <1>1 DEF send_action_result, PInv, GoodPlane, GoodRun
  <2>2. QED
    BY Zenon, <1>1, <2>1, BoundAttempt DEF PInv, send_action_result, TransferEvidence
<1>2. CASE send_cancel_ack(t)
  BY Zenon, <1>2, BoundAttempt DEF PInv, send_cancel_ack, TransferEvidence, CancelAckEvidence
<1>3. CASE send_status_report(t) /\ KnownState(t) \in {"Cancelled", "Failed"}
  BY Zenon, <1>3, BoundAttempt DEF PInv, send_status_report, BoundState, TransferEvidence
<1>4. QED  BY Zenon, <1>1, <1>2, <1>3

\* What operators, sessions and the Agent's messages do are transactions of
\* TransferLifecycle.
LEMMA RecordStepsMap ==
  ASSUME PInv, RecordStep
  PROVE  TransferNext
<1>1. CASE Prepare
  BY Zenon, <1>1 DEF Prepare, TransferNext, JobNext, DataPlaneNext
<1>2. CASE Disturb
  BY Zenon, <1>2 DEF Disturb, TransferNext, JobNext, GenericEvidence
<1>3. ASSUME NEW t \in Transfer, transferAttempt[t] \in Attempt,
             TransferEvidence(t, transferAttempt[t])
      PROVE  TransferNext
  BY Zenon, <1>3 DEF TransferNext, DataPlaneNext
<1>4. ASSUME NEW t \in Transfer, transferAttempt[t] \in Attempt,
             GenericEvidence(transferAttempt[t]), UNCHANGED transferVars
      PROVE  TransferNext
  BY Zenon, <1>4 DEF TransferNext, JobNext
<1>5. ASSUME NEW t \in Transfer, send_action_ack(t) PROVE TransferNext
  <2>1. transferAttempt[t] \in Attempt
    BY Zenon, <1>5, BoundAttempt DEF PInv, send_action_ack, BoundState
  <2>2. GenericEvidence(transferAttempt[t]) /\ UNCHANGED transferVars
    BY Zenon, <1>5 DEF send_action_ack, GenericEvidence
  <2>3. QED  BY Zenon, <1>4, <2>1, <2>2
<1>6. ASSUME NEW t \in Transfer, send_status_report(t),
             KnownState(t) \notin {"Cancelled", "Failed"}
      PROVE  TransferNext
  <2>1. transferAttempt[t] \in Attempt
    BY Zenon, <1>6, BoundAttempt DEF PInv, send_status_report, BoundState
  <2>2. KnownState(t) \in StatusReportEvidence
    BY Zenon DEF KnownState, StatusReportEvidence
  <2>3. GenericEvidence(transferAttempt[t]) /\ UNCHANGED transferVars
    BY Zenon, <1>6, <2>2 DEF send_status_report, GenericEvidence
  <2>4. QED  BY Zenon, <1>4, <2>1, <2>3
<1>7. QED  BY Zenon, <1>1, <1>2, <1>3, <1>5, <1>6, AgentEvidence DEF RecordStep

\* What a handler is about.
LEMMA PutFacts ==
  ASSUME PInv, NEW r \in Request, req[r].op = "Put", req[r].at # "done"
  PROVE  /\ req[r] # Free
         /\ req[r].t \in Transfer /\ req[r].i \in Index /\ req[r].bytes \in Content
         /\ req[r].at = "commit" =>
              /\ req[r].i \in DOMAIN stored[req[r].t]
              /\ stored[req[r].t][req[r].i] = req[r].bytes
<1>1. GoodRequest(req[r])
  BY Zenon DEF PInv, GoodPlane
<1>2. req[r] # Free
  BY DEF Free
<1>3. QED  BY Zenon, <1>1, <1>2 DEF GoodRequest

LEMMA SealFacts ==
  ASSUME PInv, NEW r \in Request, req[r].op = "Seal", req[r].at # "done"
  PROVE  /\ req[r] # Free
         /\ req[r].t \in Transfer
         /\ req[r].n = MaxChunks /\ req[r].n \in 0..MaxChunks
         /\ req[r].d \in sources[req[r].t]
         /\ req[r].d \in [Index -> Content] /\ req[r].d \in ArtifactDigest
         /\ req[r].at = "report" =>
              /\ Index \subseteq DOMAIN stored[req[r].t]
              /\ req[r].computed = [i \in Index |-> stored[req[r].t][i]]
              /\ req[r].computed \in ArtifactDigest
<1>1. GoodRequest(req[r])
  BY Zenon DEF PInv, GoodPlane
<1>2. req[r] # Free
  BY DEF Free
<1>3. /\ req[r].t \in Transfer /\ req[r].n = MaxChunks
      /\ req[r].d \in sources[req[r].t]
      /\ req[r].at = "report" =>
              /\ Index \subseteq DOMAIN stored[req[r].t]
              /\ req[r].computed = [i \in Index |-> stored[req[r].t][i]]
  BY Zenon, <1>1, <1>2 DEF GoodRequest
<1>4. MaxChunks \in 0..MaxChunks
  BY MaxChunksAssumption
<1>5. req[r].d \in [Index -> Content]
  BY Zenon, <1>3 DEF PInv, PlaneTypes
<1>6. ASSUME Index \subseteq DOMAIN stored[req[r].t]
      PROVE  [i \in Index |-> stored[req[r].t][i]] \in [Index -> Content]
  <2>1. stored[req[r].t] \in ChunkMap
    BY Zenon, <1>3 DEF PInv, PlaneTypes
  <2>2. PICK S \in SUBSET Index : stored[req[r].t] \in [S -> Content]
    BY Zenon, <2>1 DEF ChunkMap
  <2>3. QED  BY Zenon, <1>6, <2>2
<1>7. QED  BY Zenon, <1>2, <1>3, <1>4, <1>5, <1>6, DigestAssumption

\* A handler commits a chunk, a seal or a verdict, or nothing.
LEMMA WorkerCommits ==
  ASSUME WorkerStep
  PROVE  \/ UNCHANGED allVars
         \/ \E r \in Request : /\ At(r, "Put", "commit")
                               /\ commit_chunk_acceptance(req[r].t, req[r].i, req[r].bytes)
         \/ \E r \in Request : /\ At(r, "Seal", "seal")
                               /\ commit_manifest_seal(req[r].t, req[r].n, req[r].d)
         \/ \E r \in Request : /\ At(r, "Seal", "report")
                               /\ commit_artifact_verification(req[r].t, req[r].n, req[r].d,
                                                               req[r].computed)
  BY Zenon DEF WorkerStep, Handler, resume_discovery, authorize_chunk, stage_chunk_body,
     commit_chunk, seal_request, compute_digest, report_artifact_verification, handler_stops

LEMMA WorkerStepsMap ==
  ASSUME PInv, WorkerStep
  PROVE  [TransferNext]_allVars
<1>1. ASSUME NEW r \in Request, At(r, "Put", "commit"),
             commit_chunk_acceptance(req[r].t, req[r].i, req[r].bytes)
      PROVE  TransferNext
  <2>1. /\ req[r].t \in Transfer /\ req[r].i \in Index /\ req[r].bytes \in Content
    BY Zenon, <1>1, PutFacts DEF At
  <2>2. QED  BY Zenon, <1>1, <2>1 DEF TransferNext, DataPlaneNext
<1>2. ASSUME NEW r \in Request, At(r, "Seal", "seal"),
             commit_manifest_seal(req[r].t, req[r].n, req[r].d)
      PROVE  TransferNext
  <2>1. /\ req[r].t \in Transfer /\ req[r].n \in 0..MaxChunks /\ req[r].d \in ArtifactDigest
    BY Zenon, <1>2, SealFacts DEF At
  <2>2. QED  BY Zenon, <1>2, <2>1 DEF TransferNext, DataPlaneNext
<1>3. ASSUME NEW r \in Request, At(r, "Seal", "report"),
             commit_artifact_verification(req[r].t, req[r].n, req[r].d, req[r].computed)
      PROVE  TransferNext
  <2>1. /\ req[r].t \in Transfer /\ req[r].n \in 0..MaxChunks /\ req[r].d \in ArtifactDigest
        /\ req[r].computed \in ArtifactDigest
    BY Zenon, <1>3, SealFacts DEF At
  <2>2. QED  BY Zenon, <1>3, <2>1 DEF TransferNext, DataPlaneNext
<1>4. QED  BY Zenon, <1>1, <1>2, <1>3, WorkerCommits

LEMMA PlaneStepsMap == PInv /\ [PlaneNext]_planeAll => [TransferNext]_allVars
<1> SUFFICES ASSUME PInv, [PlaneNext]_planeAll PROVE [TransferNext]_allVars
  BY Zenon
<1>1. CASE UNCHANGED planeAll
  BY Zenon, <1>1 DEF planeAll
<1>2. CASE AgentStep
  BY Zenon, <1>2, AgentTouchesNoRecord
<1>3. CASE RecordStep
  BY Zenon, <1>3, RecordStepsMap
<1>4. CASE WorkerStep
  BY Zenon, <1>4, WorkerStepsMap
<1>5. QED  BY Zenon, <1>1, <1>2, <1>3, <1>4, PlaneStepKinds

-----------------------------------------------------------------------------
(* What a step may change of the plane's own state.                        *)

\* Files, the history of sources, verdicts and bindings only accumulate.
Grows ==
  \A t \in Transfer :
    /\ \A i \in DOMAIN stored[t] : i \in DOMAIN stored'[t] /\ stored'[t][i] = stored[t][i]
    /\ sources[t] \subseteq sources'[t]
    /\ artifactState[t] = "Verified" => artifactState'[t] = "Verified"
    /\ Bound(t) => Bound(t)'

\* What a request knows stays true.
LEMMA RequestStays ==
  ASSUME Grows, NEW r \in Request, GoodRequest(req[r]), req'[r] = req[r]
  PROVE  GoodRequest(req[r])'
<1>1. CASE req[r] = Free
  BY <1>1 DEF GoodRequest, Free
<1>2. CASE req[r] # Free
  <2>1. req[r].t \in Transfer
    BY Zenon, <1>2 DEF GoodRequest
  <2>2. ASSUME Index \subseteq DOMAIN stored[req[r].t]
        PROVE  /\ Index \subseteq DOMAIN stored'[req[r].t]
               /\ [i \in Index |-> stored'[req[r].t][i]] = [i \in Index |-> stored[req[r].t][i]]
    BY Zenon, <2>1, <2>2 DEF Grows
  <2>3. QED  BY ZenonT(40), <1>2, <2>1, <2>2 DEF GoodRequest, Grows
<1>3. QED  BY <1>1, <1>2

\* What a run knows stays true.
LEMMA RunStays ==
  ASSUME Grows, NEW t \in Transfer, GoodRun(t), run'[t] = run[t]
  PROVE  GoodRun(t)'
  BY Zenon DEF GoodRun, Grows

\* Nobody awaits a free request, and nobody else's request is awaited.
LEMMA AwaitsOwn ==
  ASSUME PInv, NEW r \in Request, NEW u \in Transfer, waiting[u] = r
  PROVE  req[r] # Free /\ req[r].t = u
  BY Zenon, NoRequestAssumption DEF PInv, GoodPlane, GoodWait

\* A step of one Transfer's run and requests leaves the others as they were.
LEMMA OthersStay ==
  ASSUME PInv, Grows, NEW t \in Transfer,
         \A u \in Transfer \ {t} : run'[u] = run[u] /\ waiting'[u] = waiting[u],
         \A r \in Request : \/ req'[r] = req[r]
                            \/ /\ GoodRequest(req[r])'
                               /\ \A u \in Transfer \ {t} : waiting[u] # r,
         GoodRun(t)', GoodWait(t)'
  PROVE  GoodPlane'
<1>1. ASSUME NEW r \in Request PROVE GoodRequest(req[r])'
  BY Zenon, RequestStays DEF PInv, GoodPlane
<1>2. ASSUME NEW u \in Transfer \ {t} PROVE GoodRun(u)'
  BY Zenon, RunStays DEF PInv, GoodPlane
<1>3. ASSUME NEW u \in Transfer \ {t} PROVE GoodWait(u)'
  <2>1. GoodWait(u)
    BY Zenon DEF PInv, GoodPlane
  <2>2. run'[u] = run[u] /\ waiting'[u] = waiting[u]
    BY Zenon
  <2>3. waiting[u] # None => req'[waiting[u]] = req[waiting[u]]
    BY Zenon, <2>1 DEF GoodWait
  <2>4. QED  BY Zenon, <2>1, <2>2, <2>3 DEF GoodWait
<1>4. QED  BY Zenon, <1>1, <1>2, <1>3 DEF GoodPlane

\* A handler that advances keeps its request's Transfer and operation; one
\* that ends without a waiting client frees its request.
LEMMA HandlerMoves ==
  ASSUME PInv, Grows, NEW r \in Request, req[r] # Free, UNCHANGED agentVars,
         \A s \in Request \ {r} : req'[s] = req[s],
         GoodRequest(req[r])',
         \/ req'[r] = Free /\ waiting[req[r].t] # r
         \/ req'[r] # Free /\ req'[r].t = req[r].t /\ req'[r].op = req[r].op
  PROVE  GoodPlane'
<1>1. req[r].t \in Transfer
  BY Zenon DEF PInv, GoodPlane, GoodRequest
<1>2. \A u \in Transfer \ {req[r].t} : waiting[u] # r
  BY Zenon, AwaitsOwn
<1>3. run' = run /\ waiting' = waiting
  BY Zenon DEF agentVars
<1>4. GoodRun(req[r].t)
  BY Zenon, <1>1 DEF PInv, GoodPlane
<1>5. ASSUME NEW t \in Transfer, t = req[r].t PROVE GoodRun(t)' /\ GoodWait(t)'
  <2>1. GoodRun(t)'
    BY Zenon, <1>3, <1>4, <1>5, RunStays
  <2>2. GoodWait(t)
    BY Zenon DEF PInv, GoodPlane
  <2>3. CASE waiting[t] = r
    <3>1. /\ run[t].at = IF req[r].op = "Resume" THEN "Discovering" ELSE "Uploading"
          /\ waiting'[t] = r /\ run'[t] = run[t] /\ r # None
      BY Zenon, <1>3, <2>2, <2>3, NoRequestAssumption DEF GoodWait
    <3>2. req'[r] # Free /\ req'[r].t = t /\ req'[r].op = req[r].op
      BY Zenon, <1>5, <2>3
    <3>3. QED  BY Zenon, <2>1, <3>1, <3>2 DEF GoodWait
  <2>4. CASE waiting[t] # r
    <3>1. waiting[t] # None => req'[waiting[t]] = req[waiting[t]]
      BY Zenon, <2>2, <2>4 DEF GoodWait
    <3>2. waiting'[t] = waiting[t] /\ run'[t] = run[t]
      BY Zenon, <1>3
    <3>3. QED  BY Zenon, <2>1, <2>2, <3>1, <3>2 DEF GoodWait
  <2>5. QED  BY Zenon, <2>1, <2>3, <2>4
<1>6. PICK t \in Transfer : t = req[r].t
  BY Zenon, <1>1
<1>7. \A u \in Transfer \ {t} : run'[u] = run[u] /\ waiting'[u] = waiting[u]
  BY Zenon, <1>3
<1>8. \A s \in Request : \/ req'[s] = req[s]
                         \/ /\ GoodRequest(req[s])'
                            /\ \A u \in Transfer \ {t} : waiting[u] # s
  BY Zenon, <1>2, <1>6
<1>9. QED  BY Zenon, <1>5, <1>6, <1>7, <1>8, OthersStay

\* An answer: "Verified" is only said of a Verified Artifact.
LEMMA ReplyMoves ==
  ASSUME PInv, Grows, NEW r \in Request, req[r] # Free, UNCHANGED agentVars,
         NEW reply, Reply(r, reply),
         reply = "Verified" => artifactState'[req[r].t] = "Verified"
  PROVE  GoodPlane'
<1> DEFINE q == [op |-> req[r].op, t |-> req[r].t, at |-> "done", reply |-> reply,
                 i |-> IF req[r].op = "Put" THEN req[r].i ELSE 0]
<1>1. /\ q.op = req[r].op /\ q.t = req[r].t /\ q.at = "done" /\ q.reply = reply
      /\ q # Free
  BY DEF Free
<1>2. req' = [req EXCEPT ![r] = IF waiting[req[r].t] = r THEN q ELSE Free]
  BY Zenon, <1>1 DEF Reply, Respond
<1> HIDE DEF q
<1>3. /\ DOMAIN req = Request
      /\ req[r].op \in {"Resume", "Put", "Seal"} /\ req[r].t \in Transfer
  BY Zenon DEF PInv, PlaneTypes, GoodPlane, GoodRequest
<1>4. /\ \A s \in Request \ {r} : req'[s] = req[s]
      /\ req'[r] = IF waiting[req[r].t] = r THEN q ELSE Free
  BY Zenon, <1>2, <1>3
<1>5. GoodRequest(req[r])'
  <2>1. CASE req'[r] = Free
    BY <2>1 DEF GoodRequest, Free
  <2>2. CASE req'[r] = q
    BY Zenon, <1>1, <1>3, <2>2 DEF GoodRequest
  <2>3. QED  BY Zenon, <1>4, <2>1, <2>2
<1>6. QED  BY Zenon, <1>1, <1>4, <1>5, HandlerMoves

\* Finalizing a file replaces none.
LEMMA StagingKeepsFiles ==
  ASSUME PInv, NEW r \in Request, stage_chunk_body(r)
  PROVE  /\ stored' \in [Transfer -> ChunkMap]
         /\ \A t \in Transfer : \A i \in DOMAIN stored[t] :
              i \in DOMAIN stored'[t] /\ stored'[t][i] = stored[t][i]
<1>1. CASE UNCHANGED stored
  BY Zenon, <1>1 DEF PInv, PlaneTypes
<1>2. CASE stored' # stored
  <2> DEFINE t == req[r].t
             i == req[r].i
             c == req[r].bytes
  <2>1. t \in Transfer /\ i \in Index /\ c \in Content
    BY Zenon, PutFacts DEF stage_chunk_body, At
  <2>2. /\ stored' = [stored EXCEPT ![t] = WithChunk(stored[t], i, c)]
        /\ i \in DOMAIN stored[t] => stored[t][i] = c
    BY Zenon, <1>2 DEF stage_chunk_body
  <2>3. stored \in [Transfer -> ChunkMap]
    BY Zenon DEF PInv, PlaneTypes
  <2> HIDE DEF t, i, c
  <2>4. stored[t] \in ChunkMap
    BY Zenon, <2>1, <2>3
  <2>5. PICK S \in SUBSET Index : stored[t] \in [S -> Content]
    BY Zenon, <2>4 DEF ChunkMap
  <2>6. WithChunk(stored[t], i, c) \in [S \cup {i} -> Content]
    BY Zenon, <2>1, <2>5 DEF WithChunk
  <2>7. S \cup {i} \in SUBSET Index
    BY Zenon, <2>1, <2>5
  <2>8. WithChunk(stored[t], i, c) \in ChunkMap
    BY Zenon, <2>6, <2>7 DEF ChunkMap
  <2>9. \A k \in DOMAIN stored[t] : /\ k \in DOMAIN WithChunk(stored[t], i, c)
                                    /\ WithChunk(stored[t], i, c)[k] = stored[t][k]
    BY Zenon, <2>2 DEF WithChunk
  <2>10. QED  BY Zenon, <2>1, <2>2, <2>3, <2>8, <2>9
<1>3. QED  BY Zenon, <1>1, <1>2

\* Who changes what: a handler nothing of the Agent's, and files only by staging.
LEMMA WorkerTouches ==
  ASSUME WorkerStep
  PROVE  /\ UNCHANGED agentVars
         /\ UNCHANGED stored \/ \E r \in Request : stage_chunk_body(r)
  BY Zenon DEF WorkerStep, Handler, resume_discovery, authorize_chunk, stage_chunk_body,
     commit_chunk, seal_request, compute_digest, report_artifact_verification, handler_stops

LEMMA RecordTouches ==
  ASSUME RecordStep
  PROVE  UNCHANGED <<source, sources, req, stored>>
  BY Zenon DEF RecordStep, Prepare, Disturb, send_action_ack, send_action_result,
     send_cancel_ack, send_status_report, planeVars, agentVars

\* The steps of a capture only accumulate.
LEMMA StepGrows ==
  ASSUME PInv, [PlaneNext]_planeAll
  PROVE  /\ TInv' /\ Grows
         /\ \A t \in Transfer : KeepsPromises(t)
         /\ stored' \in [Transfer -> ChunkMap]
<1>1. [TransferNext]_allVars /\ TInv
  BY Zenon, PlaneStepsMap DEF PInv
<1>2. TInv' /\ \A t \in Transfer : KeepsPromises(t)
  BY Zenon, <1>1, TransferNextPreserves, StepsAreKinds, KindsKeepPromises DEF TInv
<1>3. /\ stored' \in [Transfer -> ChunkMap]
      /\ \A t \in Transfer : \A i \in DOMAIN stored[t] :
           i \in DOMAIN stored'[t] /\ stored'[t][i] = stored[t][i]
  <2>1. CASE UNCHANGED stored
    BY Zenon, <2>1 DEF PInv, PlaneTypes
  <2>2. UNCHANGED stored \/ \E r \in Request : stage_chunk_body(r)
    BY Zenon, PlaneStepKinds, AgentTouchesNoRecord, RecordTouches, WorkerTouches
       DEF planeAll, planeVars
  <2>3. QED  BY Zenon, <2>1, <2>2, StagingKeepsFiles
<1>4. \A t \in Transfer : sources[t] \subseteq sources'[t]
  <2>1. CASE UNCHANGED sources
    BY Zenon, <2>1
  <2>2. ASSUME NEW t \in Transfer, NEW new \in [Index -> Content], mutate_chunk(t, new)
        PROVE  \A u \in Transfer : sources[u] \subseteq sources'[u]
    BY Zenon, <2>2 DEF mutate_chunk, PInv, PlaneTypes
  <2>3. \/ UNCHANGED sources
        \/ \E t \in Transfer, new \in [Index -> Content] : mutate_chunk(t, new)
    BY Zenon, PlaneStepKinds, RecordTouches, WorkerTouches
       DEF planeAll, planeVars, agentVars, AgentStep, accept, start_run, send_next,
           receive_response, request_timeout, interrupt_run
  <2>4. QED  BY Zenon, <2>1, <2>2, <2>3
<1>5. \A t \in Transfer : /\ artifactState[t] = "Verified" => artifactState'[t] = "Verified"
                          /\ Bound(t) => Bound(t)'
  BY Zenon, <1>2 DEF KeepsPromises, TerminalArtifact, Bound
<1>6. QED  BY Zenon, <1>2, <1>3, <1>4, <1>5 DEF Grows

-----------------------------------------------------------------------------
(* The Worker's handlers.                                                  *)

\* A request moved to its next stage.
LEMMA AdvanceMoves ==
  ASSUME PInv, Grows, NEW r \in Request, req[r] # Free, UNCHANGED agentVars,
         NEW q, Advance(r, q), q # Free, q.t = req[r].t, q.op = req[r].op,
         GoodRequest(q)'
  PROVE  GoodPlane'
<1>1. DOMAIN req = Request
  BY Zenon DEF PInv, PlaneTypes
<1>2. req'[r] = q /\ \A s \in Request \ {r} : req'[s] = req[s]
  BY Zenon, <1>1 DEF Advance
<1>3. GoodRequest(req[r])'
  BY Zenon, <1>2 DEF GoodRequest
<1>4. QED  BY Zenon, <1>2, <1>3, HandlerMoves

\* resume_discovery answers with what the Server holds.
LEMMA ResumeMoves ==
  ASSUME PInv, Grows, NEW r \in Request, resume_discovery(r)
  PROVE  GoodPlane'
<1>1. req[r].op = "Resume" /\ req[r].at = "query" /\ UNCHANGED agentVars
  BY Zenon DEF resume_discovery, At
<1>2. req[r] # Free
  BY <1>1 DEF Free
<1>3. req[r].t \in Transfer /\ DOMAIN req = Request
  BY Zenon, <1>2 DEF PInv, PlaneTypes, GoodPlane, GoodRequest
<1>4. CASE Authorized(req[r].t, "ResumeDiscovery", 0)
  <2>1. PICK q : /\ q = [op |-> "Resume", t |-> req[r].t, at |-> "done", reply |-> "Approved",
                         held |-> [i \in held[req[r].t] |-> chunks[req[r].t][i]],
                         sealed |-> sealed[req[r].t]]
                 /\ Respond(r, q)
    BY Zenon, <1>4 DEF resume_discovery
  <2>2. q.op = "Resume" /\ q.t = req[r].t /\ q # Free
    BY <2>1 DEF Free
  <2>3. /\ req'[r] = IF waiting[req[r].t] = r THEN q ELSE Free
        /\ \A s \in Request \ {r} : req'[s] = req[s]
    BY Zenon, <1>3, <2>1, <2>2 DEF Respond
  <2>4. CASE req'[r] = q
    <3>1. GoodRequest(req[r])'
      BY Zenon, <1>3, <2>2, <2>4 DEF GoodRequest
    <3>2. QED  BY Zenon, <1>1, <1>2, <2>2, <2>3, <2>4, <3>1, HandlerMoves
  <2>5. CASE req'[r] = Free /\ waiting[req[r].t] # r
    <3>1. GoodRequest(req[r])'
      BY <2>5 DEF GoodRequest, Free
    <3>2. QED  BY Zenon, <1>1, <1>2, <2>3, <2>5, <3>1, HandlerMoves
  <2>6. QED  BY Zenon, <2>3, <2>4, <2>5
<1>5. CASE ~Authorized(req[r].t, "ResumeDiscovery", 0)
  BY Zenon, <1>1, <1>2, <1>5, ReplyMoves DEF resume_discovery
<1>6. QED  BY Zenon, <1>4, <1>5

\* authorize_chunk denies, meets a conflict, or lets the body be staged.
LEMMA AuthorizeMoves ==
  ASSUME PInv, Grows, NEW r \in Request, authorize_chunk(r)
  PROVE  GoodPlane'
<1>1. req[r].op = "Put" /\ req[r].at # "done" /\ UNCHANGED agentVars
  BY Zenon DEF authorize_chunk, At
<1>2. PICK q : q = PutRequest(req[r].t, "stage", req[r].i, req[r].bytes, req[r].declared)
  BY Zenon
<1>3. /\ q.op = "Put" /\ q.t = req[r].t /\ q.at = "stage" /\ q.i = req[r].i
      /\ q.bytes = req[r].bytes /\ q # Free
  BY <1>2 DEF PutRequest, Free
<1>4. GoodRequest(q)'
  BY Zenon, <1>1, <1>3, PutFacts DEF GoodRequest
<1>5. \/ Reply(r, "Denied") \/ Reply(r, "ChunkIdentityConflict") \/ Advance(r, q)
  BY Zenon, <1>2 DEF authorize_chunk
<1>6. QED  BY Zenon, <1>1, <1>3, <1>4, <1>5, PutFacts, ReplyMoves, AdvanceMoves

\* stage_chunk_body has the bytes in their file when the commit is asked for.
LEMMA StageMoves ==
  ASSUME PInv, Grows, NEW r \in Request, stage_chunk_body(r)
  PROVE  GoodPlane'
<1>1. req[r].op = "Put" /\ req[r].at # "done" /\ UNCHANGED agentVars
  BY Zenon DEF stage_chunk_body, At
<1>2. PICK q : q = PutRequest(req[r].t, "commit", req[r].i, req[r].bytes, req[r].declared)
  BY Zenon
<1>3. /\ q.op = "Put" /\ q.t = req[r].t /\ q.at = "commit" /\ q.i = req[r].i
      /\ q.bytes = req[r].bytes /\ q # Free
  BY <1>2 DEF PutRequest, Free
<1>4. \/ Reply(r, "Denied") \/ Reply(r, "DigestMismatch")
      \/ /\ Advance(r, q)
         /\ stored' = [stored EXCEPT ![q.t] = WithChunk(stored[q.t], q.i, q.bytes)]
  BY Zenon, <1>2, <1>3 DEF stage_chunk_body
<1>5. CASE /\ Advance(r, q)
           /\ stored' = [stored EXCEPT ![q.t] = WithChunk(stored[q.t], q.i, q.bytes)]
  <2>1. q.i \in DOMAIN stored'[q.t] /\ stored'[q.t][q.i] = q.bytes
    BY Zenon, <1>1, <1>3, <1>5, PutFacts DEF WithChunk, PInv, PlaneTypes
  <2>2. GoodRequest(q)'
    BY Zenon, <1>1, <1>3, <2>1, PutFacts DEF GoodRequest
  <2>3. QED  BY Zenon, <1>1, <1>3, <1>5, <2>2, PutFacts, AdvanceMoves
<1>6. QED  BY Zenon, <1>1, <1>4, <1>5, PutFacts, ReplyMoves

\* commit_chunk and a stopping handler answer.
LEMMA CommitMoves ==
  ASSUME PInv, Grows, NEW r \in Request, commit_chunk(r)
  PROVE  GoodPlane'
<1>1. req[r].op = "Put" /\ req[r].at # "done" /\ UNCHANGED agentVars
  BY Zenon DEF commit_chunk, At
<1>2. \E reply \in {"Held", "Denied", "ChunkIdentityConflict", "TransferNotContinuable"} :
        Reply(r, reply)
  BY Zenon DEF commit_chunk
<1>3. QED  BY Zenon, <1>1, <1>2, PutFacts, ReplyMoves

LEMMA StopMoves ==
  ASSUME PInv, Grows, NEW r \in Request, handler_stops(r)
  PROVE  GoodPlane'
  BY Zenon, ReplyMoves DEF handler_stops

\* seal_request goes on to the verification or answers.
LEMMA SealMoves ==
  ASSUME PInv, Grows, NEW r \in Request, seal_request(r)
  PROVE  GoodPlane'
<1>1. req[r].op = "Seal" /\ req[r].at # "done" /\ UNCHANGED agentVars
  BY Zenon DEF seal_request, At
<1>2. PICK q : q = SealRequest(req[r].t, "verify", req[r].n, req[r].d)
  BY Zenon
<1>3. /\ q.op = "Seal" /\ q.t = req[r].t /\ q.at = "verify" /\ q.n = req[r].n
      /\ q.d = req[r].d /\ q # Free
  BY <1>2 DEF SealRequest, Free
<1>4. GoodRequest(q)'
  BY Zenon, <1>1, <1>3, SealFacts DEF GoodRequest, Grows
<1>5. \/ Advance(r, q)
      \/ \E reply \in {"Denied", "IncompleteManifest", "ManifestAlreadySealed"} : Reply(r, reply)
  BY Zenon, <1>2 DEF seal_request
<1>6. QED  BY Zenon, <1>1, <1>3, <1>4, <1>5, SealFacts, ReplyMoves, AdvanceMoves

\* compute_digest reads every chunk of the Artifact back.
LEMMA ComputeMoves ==
  ASSUME PInv, Grows, NEW r \in Request, compute_digest(r)
  PROVE  GoodPlane'
<1>1. req[r].op = "Seal" /\ req[r].at # "done" /\ UNCHANGED <<agentVars, stored>>
  BY Zenon DEF compute_digest, At
<1>2. 0..(req[r].n - 1) = Index
  BY Zenon, <1>1, SealFacts DEF Index
<1>3. PICK q : q = [op |-> "Seal", t |-> req[r].t, at |-> "report", n |-> req[r].n,
                    d |-> req[r].d, computed |-> [i \in Index |-> stored[req[r].t][i]]]
  BY Zenon
<1>4. /\ q.op = "Seal" /\ q.t = req[r].t /\ q.at = "report" /\ q.n = req[r].n
      /\ q.d = req[r].d /\ q # Free
      /\ q.computed = [i \in Index |-> stored[req[r].t][i]]
  BY <1>3 DEF Free
<1>5. Reply(r, "Denied") \/ (Advance(r, q) /\ Index \subseteq DOMAIN stored[req[r].t])
  BY Zenon, <1>2, <1>3 DEF compute_digest
<1>6. CASE Advance(r, q) /\ Index \subseteq DOMAIN stored[req[r].t]
  <2>1. GoodRequest(q)'
    BY Zenon, <1>1, <1>4, <1>6, SealFacts DEF GoodRequest, Grows
  <2>2. QED  BY Zenon, <1>1, <1>4, <1>6, <2>1, SealFacts, AdvanceMoves
<1>7. QED  BY Zenon, <1>1, <1>5, <1>6, SealFacts, ReplyMoves

\* The verdict answered is the verdict committed.
LEMMA ReportMoves ==
  ASSUME PInv, Grows, NEW r \in Request, report_artifact_verification(r)
  PROVE  GoodPlane'
<1>1. req[r].op = "Seal" /\ req[r].at # "done" /\ UNCHANGED agentVars
  BY Zenon DEF report_artifact_verification, At
<1>2. req[r] # Free /\ req[r].t \in Transfer
  BY Zenon, <1>1, SealFacts
<1>3. CASE Reply(r, "Denied")
  BY Zenon, <1>1, <1>2, <1>3, ReplyMoves
<1>4. CASE /\ commit_artifact_verification(req[r].t, req[r].n, req[r].d, req[r].computed)
           /\ Reply(r, Verdict(r))
  <2>1. Verdict(r) = "Verified" => artifactState'[req[r].t] = "Verified"
    BY Zenon, <1>2, <1>4 DEF Verdict, commit_artifact_verification, complete_verification,
       PInv, TInv, TransferPart, TransferTypeOK
  <2>2. PICK reply : reply = Verdict(r)
    BY Zenon
  <2>3. QED  BY Zenon, <1>1, <1>2, <1>4, <2>1, <2>2, ReplyMoves
<1>5. QED  BY Zenon, <1>3, <1>4 DEF report_artifact_verification

\* Every step of a handler keeps what requests and runs know.
LEMMA WorkerKeepsPlane ==
  ASSUME PInv, Grows, WorkerStep
  PROVE  GoodPlane'
  BY Zenon, ResumeMoves, AuthorizeMoves, StageMoves, CommitMoves, SealMoves, ComputeMoves,
     ReportMoves, StopMoves DEF WorkerStep, Handler

-----------------------------------------------------------------------------
(* The Agent's run.                                                        *)

\* A run that awaits nothing may begin something else: its requests, if any
\* are left, answer nobody.
LEMMA RunMoves ==
  ASSUME PInv, Grows, NEW t \in Transfer, UNCHANGED <<req, waiting>>, waiting[t] = None,
         \A u \in Transfer \ {t} : run'[u] = run[u],
         GoodRun(t)'
  PROVE  GoodPlane'
<1>1. GoodWait(t)'
  BY Zenon DEF GoodWait
<1>2. QED  BY Zenon, <1>1, OthersStay

\* Sending a request takes a free one, which nobody awaits.
LEMMA SendMoves ==
  ASSUME PInv, Grows, NEW t \in Transfer, NEW r \in Request, NEW q, SendRequest(t, r, q),
         q # Free, q.t = t, GoodRequest(q)', GoodRun(t)',
         \A u \in Transfer \ {t} : run'[u] = run[u],
         run'[t].at = IF q.op = "Resume" THEN "Discovering" ELSE "Uploading"
  PROVE  GoodPlane'
<1>1. DOMAIN req = Request /\ DOMAIN waiting = Transfer
  BY Zenon DEF PInv, PlaneTypes
<1>2. /\ req'[r] = q /\ \A s \in Request \ {r} : req'[s] = req[s]
      /\ waiting'[t] = r /\ \A u \in Transfer \ {t} : waiting'[u] = waiting[u]
  BY Zenon, <1>1 DEF SendRequest
<1>3. \A u \in Transfer : waiting[u] # r
  BY Zenon, AwaitsOwn DEF SendRequest
<1>4. GoodRequest(req[r])'
  BY Zenon, <1>2 DEF GoodRequest
<1>5. GoodWait(t)'
  BY Zenon, <1>2 DEF GoodWait
<1>6. \A s \in Request : \/ req'[s] = req[s]
                         \/ /\ GoodRequest(req[s])'
                            /\ \A u \in Transfer \ {t} : waiting[u] # s
  BY Zenon, <1>2, <1>3, <1>4
<1>7. QED  BY ZenonT(40), <1>2, <1>5, <1>6, OthersStay

\* accept, interrupt_run and mutate_chunk happen while nothing is awaited.
LEMMA QuietRunMoves ==
  ASSUME PInv, Grows, NEW t \in Transfer, UNCHANGED allVars,
         \/ accept(t) \/ interrupt_run(t)
         \/ \E new \in [Index -> Content] : mutate_chunk(t, new)
  PROVE  GoodPlane'
<1>1. DOMAIN run = Transfer /\ GoodRun(t) /\ GoodWait(t)
  BY Zenon DEF PInv, PlaneTypes, GoodPlane
<1>2. Suspended.at = "Suspended" /\ Idle.at = "Idle"
  BY DEF Suspended, Idle
<1>3. CASE accept(t) \/ interrupt_run(t)
  <2>1. waiting[t] = None
    BY Zenon, <1>1, <1>2, <1>3 DEF accept, interrupt_run, GoodWait
  <2>2. Bound(t)'
    BY Zenon, <1>1, <1>3 DEF accept, interrupt_run, GoodRun, Grows
  <2>3. /\ run'[t] = Suspended /\ \A u \in Transfer \ {t} : run'[u] = run[u]
        /\ UNCHANGED <<req, waiting>>
    BY Zenon, <1>1, <1>3 DEF accept, interrupt_run
  <2>4. GoodRun(t)'
    BY Zenon, <1>2, <2>2, <2>3 DEF GoodRun
  <2>5. QED  BY Zenon, <2>1, <2>3, <2>4, RunMoves
<1>4. CASE \E new \in [Index -> Content] : mutate_chunk(t, new)
  <2>1. waiting[t] = None
    BY Zenon, <1>1, <1>4 DEF mutate_chunk, GoodWait
  <2>2. UNCHANGED <<run, req, waiting>>
    BY Zenon, <1>4 DEF mutate_chunk
  <2>3. GoodRun(t)'
    BY Zenon, <1>1, <2>2, RunStays
  <2>4. QED  BY Zenon, <2>1, <2>2, <2>3, RunMoves
<1>5. QED  BY Zenon, <1>3, <1>4

\* A run begins with resume discovery.
LEMMA StartMoves ==
  ASSUME PInv, Grows, NEW t \in Transfer, NEW r \in Request, start_run(t, r)
  PROVE  GoodPlane'
<1>1. DOMAIN run = Transfer /\ GoodRun(t)
  BY Zenon DEF PInv, PlaneTypes, GoodPlane
<1>2. PICK q : q = [op |-> "Resume", t |-> t, at |-> "query"]
  BY Zenon
<1>3. q.op = "Resume" /\ q.t = t /\ q # Free
  BY <1>2 DEF Free
<1>4. PICK d : d = [at |-> "Discovering"]
  BY Zenon
<1>5. d.at = "Discovering"
  BY <1>4
<1>6. /\ run'[t] = d /\ \A u \in Transfer \ {t} : run'[u] = run[u]
      /\ SendRequest(t, r, q)
  BY Zenon, <1>1, <1>2, <1>4 DEF start_run
<1>7. Bound(t)'
  BY Zenon, <1>1 DEF start_run, GoodRun, Grows
<1>8. GoodRun(t)'
  BY Zenon, <1>5, <1>6, <1>7 DEF GoodRun
<1>9. GoodRequest(q)'
  BY Zenon, <1>3 DEF GoodRequest
<1>10. QED  BY Zenon, <1>3, <1>5, <1>6, <1>8, <1>9, SendMoves

\* The run's next chunk, or the seal of its plan.
LEMMA SendNextMoves ==
  ASSUME PInv, Grows, NEW t \in Transfer, NEW r \in Request, send_next(t, r)
  PROVE  GoodPlane'
<1>1. GoodRun(t) /\ run' = run /\ run[t].at = "Uploading"
  BY Zenon DEF PInv, GoodPlane, send_next
<1>2. GoodRun(t)'
  BY Zenon, <1>1, RunStays
<1>3. CASE SendRequest(t, r, SealRequest(t, "seal", MaxChunks, run[t].plan))
  <2>1. PICK q : q = SealRequest(t, "seal", MaxChunks, run[t].plan)
    BY Zenon
  <2>2. /\ q.op = "Seal" /\ q.t = t /\ q.at = "seal" /\ q.n = MaxChunks
        /\ q.d = run[t].plan /\ q # Free
    BY <2>1 DEF SealRequest, Free
  <2>3. GoodRequest(q)'
    BY Zenon, <1>1, <2>2 DEF GoodRequest, GoodRun, Grows
  <2>4. QED  BY Zenon, <1>1, <1>2, <1>3, <2>1, <2>2, <2>3, SendMoves
<1>4. ASSUME NEW next \in Index, NEW bytes \in Content,
             SendRequest(t, r, PutRequest(t, "authorize", next, bytes, run[t].plan[next]))
      PROVE  GoodPlane'
  <2>1. PICK q : q = PutRequest(t, "authorize", next, bytes, run[t].plan[next])
    BY Zenon
  <2>2. /\ q.op = "Put" /\ q.t = t /\ q.at = "authorize" /\ q.i = next
        /\ q.bytes = bytes /\ q # Free
    BY <2>1 DEF PutRequest, Free
  <2>3. GoodRequest(q)'
    BY Zenon, <2>2 DEF GoodRequest
  <2>4. QED  BY Zenon, <1>1, <1>2, <1>4, <2>1, <2>2, <2>3, SendMoves
<1>5. QED  BY Zenon, <1>3, <1>4 DEF send_next

\* A run that no longer awaits its request, which is freed or goes on alone.
LEMMA LeaveMoves ==
  ASSUME PInv, Grows, NEW t \in Transfer, NEW r \in Request, waiting[t] = r,
         waiting' = [waiting EXCEPT ![t] = None],
         \A u \in Transfer \ {t} : run'[u] = run[u],
         \A s \in Request \ {r} : req'[s] = req[s],
         req'[r] = Free \/ req'[r] = req[r],
         GoodRun(t)'
  PROVE  GoodPlane'
<1>1. /\ waiting'[t] = None
      /\ \A u \in Transfer \ {t} : waiting'[u] = waiting[u]
  BY Zenon DEF PInv, PlaneTypes
<1>2. ASSUME NEW u \in Transfer \ {t} PROVE waiting[u] # r
  <2>1. req[r].t = t
    BY Zenon, AwaitsOwn
  <2>2. QED  BY Zenon, <2>1, AwaitsOwn
<1>3. req'[r] = Free => GoodRequest(req[r])'
  BY DEF GoodRequest, Free
<1>4. GoodWait(t)'
  BY Zenon, <1>1 DEF GoodWait
<1>5. QED  BY Zenon, <1>1, <1>2, <1>3, <1>4, OthersStay

\* The response never arrives, or not in time.
LEMMA TimeoutMoves ==
  ASSUME PInv, Grows, NEW t \in Transfer, request_timeout(t)
  PROVE  GoodPlane'
<1>1. DOMAIN run = Transfer /\ DOMAIN req = Request /\ GoodRun(t) /\ GoodWait(t)
  BY Zenon DEF PInv, PlaneTypes, GoodPlane
<1>2. PICK r \in Request : waiting[t] = r
  BY Zenon, <1>1 DEF request_timeout, GoodWait
<1>3. run[t].at # "Idle"
  BY Zenon, <1>1 DEF request_timeout, GoodWait
<1>4. /\ run'[t] = Suspended /\ \A u \in Transfer \ {t} : run'[u] = run[u]
      /\ waiting' = [waiting EXCEPT ![t] = None]
      /\ req'[r] = Free \/ req'[r] = req[r]
      /\ \A s \in Request \ {r} : req'[s] = req[s]
  BY Zenon, <1>1, <1>2 DEF request_timeout
<1>5. Suspended.at = "Suspended"
  BY DEF Suspended
<1>6. GoodRun(t)'
  BY Zenon, <1>1, <1>3, <1>4, <1>5 DEF GoodRun, Grows
<1>7. QED  BY Zenon, <1>2, <1>4, <1>6, LeaveMoves

\* A response: the run goes on with the same plan, takes the source as it is
\* now for its plan, or ends with what it has found out.
LEMMA ReceiveMoves ==
  ASSUME PInv, Grows, NEW t \in Transfer, NEW r \in Request, receive_response(t, r)
  PROVE  GoodPlane'
<1>1. /\ DOMAIN run = Transfer /\ DOMAIN req = Request /\ GoodRun(t) /\ GoodWait(t)
      /\ GoodRequest(req[r]) /\ source[t] \in sources[t]
  BY Zenon DEF PInv, PlaneTypes, GoodPlane
<1>2. /\ waiting[t] = r /\ req[r].at = "done" /\ r # None
      /\ waiting' = [waiting EXCEPT ![t] = None]
      /\ req' = [req EXCEPT ![r] = Free]
  BY Zenon, NoRequestAssumption DEF receive_response
<1>3. /\ req[r] # Free /\ req[r].t = t /\ req[r].op \in {"Resume", "Put", "Seal"}
      /\ req[r].op # "Resume" => run[t].at = "Uploading"
      /\ run[t].at # "Idle"
  BY Zenon, <1>1, <1>2 DEF GoodWait, GoodRequest
<1>4. Bound(t)' /\ sources[t] \subseteq sources'[t]
  BY Zenon, <1>1, <1>3 DEF GoodRun, Grows
<1>5. /\ Suspended.at = "Suspended"
      /\ \A code : Completed(code).at = "Completed" /\ Completed(code).code = code
      /\ \A plan, have : Uploading(plan, have).at = "Uploading"
                         /\ Uploading(plan, have).plan = plan
  BY DEF Suspended, Completed, Uploading
<1>6. \/ run'[t] = Suspended
      \/ \E plan \in sources[t] : \E have : run'[t] = Uploading(plan, have)
      \/ \E code \in TransferResultCode \ {"TransferVerified"} : run'[t] = Completed(code)
      \/ /\ run'[t] = Completed("TransferVerified")
         /\ req[r].op = "Seal" /\ req[r].reply = "Verified"
  <2>1. CASE req[r].op = "Put"
    <3>1. run'[t] = after_put(run[t], req[r].i, req[r].reply)
      BY Zenon, <1>1, <2>1 DEF receive_response
    <3>2. run[t].plan \in sources[t]
      BY Zenon, <1>1, <1>3, <2>1 DEF GoodRun
    <3>3. QED  BY Zenon, <3>1, <3>2 DEF after_put, TransferResultCode
  <2>2. CASE req[r].op = "Seal"
    <3>1. run'[t] = after_seal(req[r].reply)
      BY Zenon, <1>1, <2>2 DEF receive_response
    <3>2. QED  BY Zenon, <2>2, <3>1 DEF after_seal, TransferResultCode
  <2>3. CASE req[r].op = "Resume"
    <3>1. run'[t] = Suspended \/ run'[t] = resumed(source[t], req[r])
      BY Zenon, <1>1, <2>3 DEF receive_response
    <3>2. QED  BY Zenon, <1>1, <3>1 DEF resumed, TransferResultCode
  <2>4. QED  BY Zenon, <1>3, <2>1, <2>2, <2>3
<1>7. req[r].op = "Seal" /\ req[r].reply = "Verified" => artifactState'[t] = "Verified"
  BY Zenon, <1>1, <1>2, <1>3 DEF GoodRequest, Grows
<1>8. GoodRun(t)'
  <2>1. CASE run'[t] = Suspended
    BY Zenon, <1>4, <1>5, <2>1 DEF GoodRun
  <2>2. ASSUME NEW plan \in sources[t], NEW have, run'[t] = Uploading(plan, have)
        PROVE  GoodRun(t)'
    <3>1. run'[t].at = "Uploading" /\ run'[t].plan \in sources'[t]
      BY <1>4, <2>2 DEF Uploading
    <3>2. QED  BY Zenon, <1>4, <3>1 DEF GoodRun
  <2>3. ASSUME NEW code \in TransferResultCode, run'[t] = Completed(code),
               code = "TransferVerified" => artifactState'[t] = "Verified"
        PROVE  GoodRun(t)'
    BY Zenon, <1>4, <1>5, <2>3 DEF GoodRun
  <2>4. "TransferVerified" \in TransferResultCode
    BY Zenon DEF TransferResultCode
  <2>5. QED  BY Zenon, <1>6, <1>7, <2>1, <2>2, <2>3, <2>4
<1>9. /\ \A u \in Transfer \ {t} : run'[u] = run[u]
      /\ req'[r] = Free /\ \A s \in Request \ {r} : req'[s] = req[s]
  BY Zenon, <1>1, <1>2 DEF receive_response
<1>10. QED  BY Zenon, <1>2, <1>8, <1>9, LeaveMoves

\* Every step of a run keeps what requests and runs know.
LEMMA AgentKeepsPlane ==
  ASSUME PInv, Grows, AgentStep
  PROVE  GoodPlane'
<1>1. UNCHANGED allVars
  BY Zenon, AgentTouchesNoRecord
<1>2. QED
  BY Zenon, <1>1, QuietRunMoves, StartMoves, SendNextMoves, TimeoutMoves, ReceiveMoves
     DEF AgentStep

-----------------------------------------------------------------------------
(* The Agent's messages and what operators do.                             *)

\* The other steps leave the records of the Transfers that exist.
LEMMA RecordStepCases ==
  ASSUME PInv, RecordStep
  PROVE  \/ UNCHANGED transferVars
         \/ \E t \in Transfer, j \in Job, i \in Step : create_transfer_context(t, j, i)
         \/ \E t \in Transfer, a \in Attempt : dispatch_transfer(t, a)
         \/ \E t \in Transfer, a \in Attempt : TransferEvidence(t, a)
  BY Zenon, AgentEvidence DEF RecordStep, Prepare, Disturb, send_action_ack, send_status_report

\* No such step touches a manifest or decides a verdict.
LEMMA RecordKeepsManifests ==
  ASSUME PInv, RecordStep
  PROVE  /\ UNCHANGED manifestVars
         /\ \A t \in Transfer : artifactState'[t] = "Verified" => artifactState[t] = "Verified"
<1>1. artifactState \in [Transfer -> ArtifactState \cup {"Absent"}]
  BY Zenon DEF PInv, TInv, TransferPart, TransferTypeOK
<1>2. CASE UNCHANGED transferVars
  BY Zenon, <1>2 DEF transferVars
<1>3. ASSUME NEW t \in Transfer, NEW j \in Job, NEW i \in Step, create_transfer_context(t, j, i)
      PROVE  /\ UNCHANGED manifestVars
             /\ \A u \in Transfer : artifactState'[u] = "Verified" => artifactState[u] = "Verified"
  BY Zenon, <1>1, <1>3 DEF create_transfer_context
<1>4. ASSUME NEW t \in Transfer, NEW a \in Attempt, dispatch_transfer(t, a)
      PROVE  UNCHANGED <<artifactState, manifestVars>>
  BY Zenon, <1>4 DEF dispatch_transfer
<1>5. ASSUME NEW t \in Transfer, NEW a \in Attempt, TransferEvidence(t, a)
      PROVE  /\ UNCHANGED manifestVars
             /\ \A u \in Transfer : artifactState'[u] = "Verified" => artifactState[u] = "Verified"
  BY Zenon, <1>1, <1>5, EvidenceArtifact DEF fail_incomplete
<1>6. QED  BY Zenon, <1>2, <1>3, <1>4, <1>5, RecordStepCases

\* What requests and runs know is kept by them too.
LEMMA QuietKeepsPlane ==
  ASSUME PInv, Grows, UNCHANGED <<run, waiting, req>>
  PROVE  GoodPlane'
<1>1. ASSUME NEW r \in Request PROVE GoodRequest(req[r])'
  BY Zenon, RequestStays DEF PInv, GoodPlane
<1>2. ASSUME NEW t \in Transfer PROVE GoodRun(t)' /\ GoodWait(t)'
  <2>1. GoodRun(t)'
    BY Zenon, RunStays DEF PInv, GoodPlane
  <2>2. GoodWait(t)'
    BY Zenon DEF PInv, GoodPlane, GoodWait
  <2>3. QED  BY Zenon, <2>1, <2>2
<1>3. QED  BY Zenon, <1>1, <1>2 DEF GoodPlane

LEMMA RecordKeepsPlane ==
  ASSUME PInv, Grows, RecordStep
  PROVE  GoodPlane'
<1>1. CASE UNCHANGED <<run, waiting, req>>
  BY Zenon, <1>1, QuietKeepsPlane
<1>2. ASSUME NEW t \in Transfer, send_cancel_ack(t), ~UNCHANGED <<run, waiting, req>>
      PROVE  GoodPlane'
  <2>1. DOMAIN run = Transfer /\ DOMAIN waiting = Transfer
    BY Zenon DEF PInv, PlaneTypes
  <2>2. PICK c : c = [at |-> "Cancelled"]
    BY Zenon
  <2>3. c.at = "Cancelled"
    BY <2>2
  <2>4. /\ run' = [run EXCEPT ![t] = c] /\ waiting' = [waiting EXCEPT ![t] = None]
        /\ req' = req /\ Bound(t)
    BY Zenon, <1>2, <2>2 DEF send_cancel_ack, agentVars
  <2>5. /\ run'[t] = c /\ waiting'[t] = None /\ Bound(t)'
        /\ \A u \in Transfer \ {t} : run'[u] = run[u] /\ waiting'[u] = waiting[u]
    BY Zenon, <2>1, <2>4 DEF Grows
  <2>6. GoodRun(t)' /\ GoodWait(t)'
    BY Zenon, <2>3, <2>5 DEF GoodRun, GoodWait
  <2>7. QED  BY Zenon, <2>4, <2>5, <2>6, OthersStay
<1>3. QED
  BY Zenon, <1>1, <1>2 DEF RecordStep, Prepare, Disturb, send_action_ack, send_action_result,
     send_status_report, planeVars, agentVars

-----------------------------------------------------------------------------
(* The outcome of a capture and its Artifact.                              *)

\* An Attempt's outcome and an Artifact's state go together.
Agrees(attempt, artifact) ==
  /\ attempt = "Succeeded" => artifact = "Verified"
  /\ attempt \in {"Failed", "Cancelled"} => artifact # "Incomplete"

\* The transfer decisions keep them together.
LEMMA DecisionsAgree ==
  ASSUME NEW f, NEW artifact, NEW others, Agrees(f.attempt, artifact)
  PROVE  /\ \A code \in TransferResultCode :
              LET dec == decide_transfer_terminal_evidence(f, artifact, code, others)
              IN Agrees(dec.facts.attempt, dec.artifact)
         /\ \A ev \in CancelAckEvidence :
              LET dec == decide_transfer_cancel_ack(f, artifact, ev)
              IN Agrees(dec.facts.attempt, dec.artifact)
         /\ LET dec == decide_transfer_status_report_cancelled(f, artifact, others)
            IN Agrees(dec.facts.attempt, dec.artifact)
         /\ LET dec == decide_transfer_status_report_failed(f, artifact, others)
            IN Agrees(dec.facts.attempt, dec.artifact)
<1>1. fail_incomplete(artifact) # "Incomplete"
      /\ (artifact = "Verified" => fail_incomplete(artifact) = "Verified")
  BY Zenon DEF fail_incomplete
<1>2. ASSUME NEW code \in TransferResultCode
      PROVE  LET dec == decide_transfer_terminal_evidence(f, artifact, code, others)
             IN Agrees(dec.facts.attempt, dec.artifact)
  <2> DEFINE ev == IF code = "TransferVerified" THEN "ResultSucceeded" ELSE "ResultFailed"
             g == apply_action_evidence(f, ev, others)
  <2>1. f.attempt \in Executing /\ code = "TransferVerified" => g.attempt = "Succeeded"
    BY Zenon DEF apply_action_evidence, terminal_success
  <2>2. f.attempt \in Executing /\ code # "TransferVerified" => g.attempt = "Failed"
    BY Zenon DEF apply_action_evidence, terminal_failure
  <2> HIDE DEF g
  <2>3. QED
    BY Zenon, <1>1, <2>1, <2>2 DEF decide_transfer_terminal_evidence, Agrees, g
<1>3. ASSUME NEW ev \in CancelAckEvidence
      PROVE  LET dec == decide_transfer_cancel_ack(f, artifact, ev)
             IN Agrees(dec.facts.attempt, dec.artifact)
  <2> DEFINE g == apply_cancel_ack(f, ev)
  <2>1. g.attempt \in {f.attempt, "AwaitingReconciliation", "Cancelled"}
    BY Zenon DEF apply_cancel_ack, cancel_terminal, with_attempt, complete_cancellation_now
  <2> HIDE DEF g
  <2>2. QED  BY Zenon, <1>1, <2>1 DEF decide_transfer_cancel_ack, Agrees, g
<1>4. LET dec == decide_transfer_status_report_cancelled(f, artifact, others)
      IN Agrees(dec.facts.attempt, dec.artifact)
  <2> DEFINE g == apply_status_report(f, "Cancelled", others)
  <2>1. g = f \/ g.attempt = "Cancelled"
    BY Zenon DEF apply_status_report, cancel_terminal
  <2> HIDE DEF g
  <2>2. QED  BY Zenon, <1>1, <2>1 DEF decide_transfer_status_report_cancelled, Agrees, g
<1>5. LET dec == decide_transfer_status_report_failed(f, artifact, others)
      IN Agrees(dec.facts.attempt, dec.artifact)
  <2> DEFINE g == apply_status_report(f, "Failed", others)
  <2>1. g = f \/ g.attempt = "Failed"
    BY Zenon DEF apply_status_report, terminal_failure
  <2> HIDE DEF g
  <2>2. QED  BY Zenon, <1>1, <2>1 DEF decide_transfer_status_report_failed, Agrees, g
<1>6. QED  BY Zenon, <1>2, <1>3, <1>4, <1>5

\* The property, Transfer by Transfer.
LEMMA OutcomeIsAgreement ==
  OutcomeMatchesArtifact <=> \A t \in Transfer : Agrees(BoundState(t), artifactState[t])
  BY Zenon DEF OutcomeMatchesArtifact, Agrees

\* Deciding one Transfer's Attempt and Artifact concerns no other.
LEMMA OneAgrees ==
  ASSUME PInv, NEW t \in Transfer, Bound(t), NEW s, NEW x, Agrees(s, x),
         attemptState' = [attemptState EXCEPT ![transferAttempt[t]] = s],
         artifactState' = [artifactState EXCEPT ![t] = x],
         UNCHANGED transferAttempt
  PROVE  OutcomeMatchesArtifact'
<1> DEFINE a == transferAttempt[t]
<1>1. /\ a \in Attempt /\ a # None
      /\ \A u \in Transfer : transferAttempt[u] \in Attempt \cup {None}
      /\ \A u \in Transfer \ {t} : transferAttempt[u] # a
      /\ attemptState \in [Attempt -> AttemptState \cup {"Absent"}]
      /\ artifactState \in [Transfer -> ArtifactState \cup {"Absent"}]
  BY Zenon, BoundAttempt DEF PInv, TInv, TransferPart, TransferTypeOK, BindingIsOwn, Bound,
     IInv, TypeOK
<1>2. /\ attemptState' = [attemptState EXCEPT ![a] = s]
      /\ artifactState' = [artifactState EXCEPT ![t] = x]
      /\ transferAttempt' = transferAttempt
  BY Zenon
<1> HIDE DEF a
<1>3. ASSUME NEW u \in Transfer PROVE Agrees(BoundState(u)', artifactState'[u])
  <2>1. CASE u = t
    <3>1. BoundState(t)' = s /\ artifactState'[t] = x
      BY Zenon, <1>1, <1>2 DEF BoundState, Bound, a
    <3>2. QED  BY Zenon, <2>1, <3>1
  <2>2. CASE u # t
    <3>1. BoundState(u)' = BoundState(u) /\ artifactState'[u] = artifactState[u]
      BY Zenon, <1>1, <1>2, <2>2 DEF BoundState, Bound
    <3>2. Agrees(BoundState(u), artifactState[u])
      BY Zenon, OutcomeIsAgreement DEF PInv
    <3>3. QED  BY Zenon, <3>1, <3>2
  <2>3. QED  BY Zenon, <2>1, <2>2
<1>4. QED  BY Zenon, <1>3 DEF OutcomeMatchesArtifact, Agrees

\* A step of the Job records that ends no Attempt in these ways.
LEMMA SoftAgrees ==
  ASSUME PInv, UNCHANGED transferVars,
         \A b \in Attempt : \/ attemptState'[b] = attemptState[b]
                            \/ attemptState'[b] \notin {"Succeeded", "Failed", "Cancelled"}
  PROVE  OutcomeMatchesArtifact'
<1>1. transferAttempt' = transferAttempt /\ artifactState' = artifactState
  BY Zenon DEF transferVars, bindingVars
<1>2. ASSUME NEW u \in Transfer PROVE Agrees(BoundState(u)', artifactState'[u])
  <2>1. Agrees(BoundState(u), artifactState[u])
    BY Zenon, OutcomeIsAgreement DEF PInv
  <2>2. CASE Bound(u)
    <3>1. transferAttempt[u] \in Attempt /\ BoundState(u) = attemptState[transferAttempt[u]]
      BY Zenon, <2>2, BoundAttempt DEF PInv
    <3>2. BoundState(u)' = attemptState'[transferAttempt[u]]
      BY Zenon, <1>1, <2>2 DEF BoundState, Bound
    <3>3. QED  BY Zenon, <1>1, <2>1, <3>1, <3>2 DEF Agrees
  <2>3. CASE ~Bound(u)
    BY Zenon, <1>1, <2>3 DEF BoundState, Bound, Agrees
  <2>4. QED  BY Zenon, <2>2, <2>3
<1>3. QED  BY Zenon, <1>2 DEF OutcomeMatchesArtifact, Agrees

\* Creating and dispatching captures ends none.
LEMMA PrepareAgrees ==
  ASSUME PInv, Prepare
  PROVE  OutcomeMatchesArtifact'
<1>1. /\ \A u \in Transfer : transferAttempt[u] \in Attempt \cup {None}
      /\ \A u \in Transfer : Bound(u) => attemptState[transferAttempt[u]] # "Absent"
      /\ \A u \in Transfer : artifactState[u] = "Absent" => ~Bound(u)
      /\ DOMAIN attemptState = Attempt /\ DOMAIN artifactState = Transfer
      /\ DOMAIN transferAttempt = Transfer
  BY Zenon DEF PInv, TInv, TransferPart, TransferTypeOK, BindingIsOwn, CreatedHasOwner,
     Bound, IInv, TypeOK
<1>2. \A u \in Transfer : Agrees(BoundState(u), artifactState[u])
  BY Zenon, OutcomeIsAgreement DEF PInv
<1>3. CASE UNCHANGED <<attemptVars, transferVars>>
  BY Zenon, <1>3, SoftAgrees DEF attemptVars
<1>4. ASSUME NEW t \in Transfer, NEW j \in Job, NEW i \in Step, create_transfer_context(t, j, i)
      PROVE  OutcomeMatchesArtifact'
  <2>1. /\ UNCHANGED <<attemptState, transferAttempt>> /\ ~Bound(t)
        /\ \A u \in Transfer \ {t} : artifactState'[u] = artifactState[u]
    BY Zenon, <1>1, <1>4 DEF create_transfer_context, vars, attemptVars
  <2>2. ASSUME NEW u \in Transfer PROVE Agrees(BoundState(u)', artifactState'[u])
    BY Zenon, <1>2, <2>1 DEF Agrees, BoundState, Bound
  <2>3. QED  BY Zenon, <2>2 DEF OutcomeMatchesArtifact, Agrees
<1>5. ASSUME NEW t \in Transfer, NEW a \in Attempt, dispatch_transfer(t, a)
      PROVE  OutcomeMatchesArtifact'
  <2>1. /\ artifactState' = artifactState /\ attemptState[a] = "Absent"
        /\ attemptState' = [attemptState EXCEPT ![a] = "Dispatched"]
        /\ transferAttempt' = [transferAttempt EXCEPT ![t] = a]
    BY Zenon, <1>5 DEF dispatch_transfer, commit_transfer_dispatch, CommitAttempt
  <2>2. ASSUME NEW u \in Transfer PROVE Agrees(BoundState(u)', artifactState'[u])
    <3>1. CASE u = t
      <4>1. BoundState(u)' \in {"Dispatched", "Absent"}
        BY Zenon, <1>1, <2>1, <3>1 DEF BoundState, Bound
      <4>2. QED  BY Zenon, <4>1 DEF Agrees
    <3>2. CASE u # t
      <4>1. BoundState(u)' = BoundState(u)
        BY Zenon, <1>1, <2>1, <3>2 DEF BoundState, Bound
      <4>2. QED  BY Zenon, <1>2, <2>1, <4>1
    <3>3. QED  BY Zenon, <3>1, <3>2
  <2>3. QED  BY Zenon, <2>2 DEF OutcomeMatchesArtifact, Agrees
<1>6. QED
  BY Zenon, <1>3, <1>4, <1>5 DEF Prepare, create_workflow, admit_job,
     satisfy_preliminary_preconditions

\* What operators and lost sessions do ends no Attempt but as Indeterminate.
LEMMA DisturbAgrees ==
  ASSUME PInv, Disturb
  PROVE  OutcomeMatchesArtifact'
<1>1. DOMAIN attemptState = Attempt /\ UNCHANGED transferVars
  BY Zenon DEF PInv, TInv, IInv, TypeOK, Disturb
<1>2. ASSUME NEW a \in Attempt,
             \/ attemptState' = [attemptState EXCEPT ![a] = "AwaitingReconciliation"]
             \/ attemptState' = [attemptState EXCEPT ![a] = "Indeterminate"]
      PROVE  OutcomeMatchesArtifact'
  <2>1. \A b \in Attempt : \/ attemptState'[b] = attemptState[b]
                           \/ attemptState'[b] \notin {"Succeeded", "Failed", "Cancelled"}
    BY Zenon, <1>1, <1>2
  <2>2. QED  BY Zenon, <1>1, <2>1, SoftAgrees
<1>3. CASE UNCHANGED attemptState
  BY Zenon, <1>1, <1>3, SoftAgrees
<1>4. ASSUME NEW a \in Attempt, mark_endpoint_uncertain(a)
      PROVE  attemptState' = [attemptState EXCEPT ![a] = "AwaitingReconciliation"]
  BY Zenon, <1>4 DEF mark_endpoint_uncertain, mark_awaiting_reconciliation
<1>5. ASSUME NEW a \in Attempt, CloseIndeterminate(a)
      PROVE  attemptState' = [attemptState EXCEPT ![a] = "Indeterminate"]
  <2>1. close_indeterminate(Facts(a)).attempt = "Indeterminate"
    BY Zenon, <1>5 DEF CloseIndeterminate, close_indeterminate, Facts, terminal_failure
  <2>2. QED  BY Zenon, <1>5, <2>1 DEF CloseIndeterminate, Persist
<1>6. QED
  BY Zenon, <1>2, <1>3, <1>4, <1>5 DEF Disturb, request_cancellation, attemptVars

\* The Agent's messages end an Attempt together with its Artifact; a
\* StatusReport Succeeded, which no decision compares with the Artifact, comes
\* from a run that has seen the verdict.
LEMMA MessageAgrees ==
  ASSUME PInv, NEW t \in Transfer,
         \/ send_action_ack(t) \/ send_action_result(t)
         \/ send_cancel_ack(t) \/ send_status_report(t)
  PROVE  OutcomeMatchesArtifact'
<1> DEFINE a == transferAttempt[t]
           f == Facts(a)
<1>1. Bound(t)
  BY Zenon, BoundAttempt
     DEF send_action_ack, send_action_result, send_cancel_ack, send_status_report, BoundState,
         PInv, GoodPlane, GoodRun
<1>2. /\ f.attempt = BoundState(t) /\ Agrees(f.attempt, artifactState[t])
      /\ run[t].at = "Completed" => run[t].code \in TransferResultCode
  BY Zenon, <1>1, BoundAttempt, OutcomeIsAgreement DEF PInv, GoodPlane, GoodRun
<1>3. ASSUME NEW dec, Agrees(dec.facts.attempt, dec.artifact),
             PersistTransferEvidence(t, a, dec)
      PROVE  OutcomeMatchesArtifact'
  BY Zenon, <1>1, <1>3, OneAgrees DEF PersistTransferEvidence, Persist, bindingVars
<1>4. ASSUME NEW g, Agrees(g.attempt, artifactState[t]), Persist(a, g), UNCHANGED transferVars
      PROVE  OutcomeMatchesArtifact'
  <2>1. artifactState' = [artifactState EXCEPT ![t] = artifactState[t]]
    BY Zenon, <1>4 DEF transferVars, PInv, TInv, TransferPart, TransferTypeOK
  <2>2. PICK x : x = artifactState[t]
    BY Zenon
  <2>3. QED
    BY Zenon, <1>1, <1>4, <2>1, <2>2, OneAgrees DEF Persist, transferVars, bindingVars
<1> HIDE DEF f
<1>5. CASE send_action_ack(t)
  <2>1. PICK g : g = apply_action_evidence(f, "AckAccepted", OtherStepsSucceeded(a))
    BY Zenon
  <2>2. g.attempt \in {f.attempt, "InProgress"}
    BY Zenon, <2>1 DEF apply_action_evidence, with_attempt
  <2>3. Agrees(g.attempt, artifactState[t])
    BY Zenon, <1>2, <2>2 DEF Agrees
  <2>4. QED
    BY Zenon, <1>4, <1>5, <2>1, <2>3 DEF send_action_ack, ActionEvidenceApply, f
<1>6. CASE send_action_result(t)
  <2>1. PICK dec : dec = decide_transfer_terminal_evidence(f, artifactState[t], run[t].code,
                                                           OtherStepsSucceeded(a))
    BY Zenon
  <2>2. Agrees(dec.facts.attempt, dec.artifact)
    BY Zenon, <1>2, <1>6, <2>1, DecisionsAgree DEF send_action_result
  <2>3. QED  BY Zenon, <1>3, <1>6, <2>1, <2>2 DEF send_action_result, TransferResult, f
<1>7. CASE send_cancel_ack(t)
  <2>1. PICK ev \in CancelAckEvidence : TransferCancelAck(t, a, ev)
    BY Zenon, <1>7 DEF send_cancel_ack, CancelAckEvidence
  <2>2. PICK dec : dec = decide_transfer_cancel_ack(f, artifactState[t], ev)
    BY Zenon
  <2>3. Agrees(dec.facts.attempt, dec.artifact)
    BY Zenon, <1>2, <2>2, DecisionsAgree
  <2>4. QED  BY Zenon, <1>3, <2>1, <2>2, <2>3 DEF TransferCancelAck, f
<1>8. CASE send_status_report(t) /\ KnownState(t) \in {"Cancelled", "Failed"}
  <2>1. PICK dec : /\ \/ dec = decide_transfer_status_report_cancelled(f, artifactState[t],
                                                                      OtherStepsSucceeded(a))
                      \/ dec = decide_transfer_status_report_failed(f, artifactState[t],
                                                                   OtherStepsSucceeded(a))
                   /\ PersistTransferEvidence(t, a, dec)
    BY Zenon, <1>8 DEF send_status_report, TransferStatusReport, f
  <2>2. Agrees(dec.facts.attempt, dec.artifact)
    BY Zenon, <1>2, <2>1, DecisionsAgree
  <2>3. QED  BY Zenon, <1>3, <2>1, <2>2
<1>9. CASE send_status_report(t) /\ KnownState(t) \notin {"Cancelled", "Failed"}
  <2>1. PICK g : g = apply_status_report(f, KnownState(t), OtherStepsSucceeded(a))
    BY Zenon
  <2>2. KnownState(t) = "Succeeded" => artifactState[t] = "Verified"
    BY Zenon DEF KnownState, PInv, GoodPlane, GoodRun
  <2>3. \/ g.attempt \in {f.attempt, "InProgress"}
        \/ g.attempt = "Succeeded" /\ KnownState(t) = "Succeeded"
    BY Zenon, <1>9, <2>1 DEF apply_status_report, with_attempt, terminal_success, KnownState
  <2>4. Agrees(g.attempt, artifactState[t])
    BY Zenon, <1>2, <2>2, <2>3 DEF Agrees
  <2>5. QED
    BY Zenon, <1>4, <1>9, <2>1, <2>4 DEF send_status_report, StatusReportApply, f
<1>10. QED  BY Zenon, <1>5, <1>6, <1>7, <1>8, <1>9

LEMMA RecordAgrees ==
  ASSUME PInv, RecordStep
  PROVE  OutcomeMatchesArtifact'
  BY Zenon, PrepareAgrees, DisturbAgrees, MessageAgrees DEF RecordStep

\* The Worker ends no Attempt, and takes no Artifact back to Incomplete.
LEMMA WorkerAgrees ==
  ASSUME PInv, WorkerStep, Grows
  PROVE  OutcomeMatchesArtifact'
<1>1. DOMAIN artifactState = Transfer
  BY Zenon DEF PInv, TInv, TransferPart, TransferTypeOK
<1>2. /\ UNCHANGED <<attemptState, transferAttempt>>
      /\ \A t \in Transfer : artifactState'[t] = "Incomplete" => artifactState[t] = "Incomplete"
  BY Zenon, <1>1, WorkerCommits DEF allVars, transferVars, vars, attemptVars, bindingVars,
     commit_chunk_acceptance, commit_manifest_seal, commit_artifact_verification,
     complete_verification
<1>3. \A t \in Transfer : BoundState(t)' = BoundState(t)
  BY Zenon, <1>2 DEF BoundState, Bound
<1>4. QED  BY Zenon, <1>2, <1>3 DEF OutcomeMatchesArtifact, PInv, Grows

-----------------------------------------------------------------------------
(* The files and the verdict.                                              *)

\* Files stay, so what was held stays stored while nothing is accepted.
LEMMA HeldStays ==
  ASSUME PInv, Grows, UNCHANGED <<chunks, held>>
  PROVE  HeldIsStored'
  BY Zenon DEF PInv, HeldIsStored, Grows

\* An acceptance commits what its handler has put into the file before.
LEMMA AcceptanceIsStored ==
  ASSUME PInv, Grows, NEW r \in Request, At(r, "Put", "commit"),
         commit_chunk_acceptance(req[r].t, req[r].i, req[r].bytes)
  PROVE  HeldIsStored'
<1>1. PICK t \in Transfer, i \in Index, c \in Content :
        /\ i \in DOMAIN stored[t] /\ stored[t][i] = c
        /\ chunks' = [chunks EXCEPT ![t] = WithChunk(chunks[t], i, c)]
        /\ held' = [held EXCEPT ![t] = held[t] \cup {i}]
  BY Zenon, PutFacts DEF At, commit_chunk_acceptance
<1>2. /\ DOMAIN chunks = Transfer /\ DOMAIN held = Transfer
      /\ \A u \in Transfer : held[u] \subseteq DOMAIN chunks[u]
  BY Zenon DEF PInv, TInv, TransferPart, TransferTypeOK
<1>3. ASSUME NEW u \in Transfer, NEW k \in Index, k \in held'[u]
      PROVE  k \in DOMAIN stored[u] /\ stored[u][k] = chunks'[u][k]
  <2>1. CASE u = t /\ k = i
    <3>1. chunks'[t][i] = c
      BY Zenon, <1>1, <1>2 DEF WithChunk
    <3>2. QED  BY Zenon, <1>1, <2>1, <3>1
  <2>2. CASE ~(u = t /\ k = i)
    <3>1. k \in held[u] /\ k \in DOMAIN chunks[u]
      BY Zenon, <1>1, <1>2, <1>3, <2>2
    <3>2. chunks'[u][k] = chunks[u][k]
      BY Zenon, <1>1, <1>2, <2>2, <3>1 DEF WithChunk
    <3>3. QED  BY Zenon, <3>1, <3>2 DEF PInv, HeldIsStored
  <2>3. QED  BY Zenon, <2>1, <2>2
<1>4. QED  BY Zenon, <1>3 DEF HeldIsStored, Grows

LEMMA StepKeepsHeld ==
  ASSUME PInv, Grows, [PlaneNext]_planeAll
  PROVE  HeldIsStored'
<1>1. CASE UNCHANGED <<chunks, held>>
  BY Zenon, <1>1, HeldStays
<1>2. CASE WorkerStep
  BY Zenon, <1>2, WorkerCommits, HeldStays, AcceptanceIsStored
     DEF allVars, transferVars, manifestVars, commit_manifest_seal, commit_artifact_verification
<1>3. CASE UNCHANGED planeAll \/ AgentStep \/ RecordStep
  BY Zenon, <1>1, <1>3, AgentTouchesNoRecord, RecordKeepsManifests
     DEF planeAll, allVars, transferVars, manifestVars
<1>4. QED  BY Zenon, <1>2, <1>3, PlaneStepKinds

\* A new verdict is of an Artifact whose chunks, all recorded and held, read
\* back as the sealed digest: a digest of a source.
LEMMA NewVerdict ==
  ASSUME PInv, NEW r \in Request, At(r, "Seal", "report"),
         commit_artifact_verification(req[r].t, req[r].n, req[r].d, req[r].computed),
         artifactState'[req[r].t] = "Verified"
  PROVE  sealed[req[r].t][2] \in sources[req[r].t] /\ chunks[req[r].t] = sealed[req[r].t][2]
<1>1. PICK t \in Transfer, d \in [Index -> Content] :
        /\ t = req[r].t /\ d = req[r].d /\ d \in sources[t]
        /\ sealed[t] = <<MaxChunks, d>> /\ artifactState[t] = "PendingVerification"
        /\ req[r].computed = [i \in Index |-> stored[t][i]]
        /\ artifactState' = [artifactState EXCEPT
                               ![t] = complete_verification(artifactState[t], req[r].computed = d)]
  BY Zenon, SealFacts DEF At, commit_artifact_verification
<1>2. sealed[t][1] = MaxChunks /\ sealed[t][2] = d
  BY <1>1
<1>3. d = [i \in Index |-> stored[t][i]]
  <2>1. artifactState'[t] = complete_verification(artifactState[t], req[r].computed = d)
    BY Zenon, <1>1 DEF PInv, TInv, TransferPart, TransferTypeOK
  <2>2. artifactState'[t] = "Verified" /\ artifactState[t] = "PendingVerification"
    BY Zenon, <1>1
  <2>3. req[r].computed = d
    BY Zenon, <2>1, <2>2 DEF complete_verification
  <2>4. QED  BY Zenon, <1>1, <2>3
<1>4. DOMAIN chunks[t] = Index /\ held[t] = Index
  BY Zenon, <1>1, <1>2 DEF PInv, TInv, TransferPart, VerifiedIsComplete, Index
<1>5. \A i \in Index : chunks[t][i] = stored[t][i]
  BY Zenon, <1>4 DEF PInv, HeldIsStored
<1>6. chunks[t] \in [Index -> Content]
  <2>1. chunks[t] \in ChunkMap
    BY Zenon DEF PInv, TInv, TransferPart, TransferTypeOK
  <2>2. QED  BY Zenon, <1>4, <2>1 DEF ChunkMap
<1>7. chunks[t] = d
  BY Zenon, <1>3, <1>5, <1>6
<1>8. QED  BY Zenon, <1>1, <1>2, <1>7

LEMMA StepKeepsVerdict ==
  ASSUME PInv, Grows, [PlaneNext]_planeAll, \A t \in Transfer : KeepsPromises(t)
  PROVE  VerifiedIsSource'
<1>1. ASSUME NEW t \in Transfer, artifactState[t] = "Verified"
      PROVE  sealed'[t][2] \in sources'[t] /\ chunks'[t] = sealed'[t][2]
  <2>1. sealed[t] # <<>>
    BY Zenon, <1>1 DEF PInv, TInv, TransferPart, VerifiedIsComplete
  <2>2. sealed'[t] = sealed[t] /\ chunks'[t] = chunks[t]
    BY Zenon, <2>1 DEF KeepsPromises
  <2>3. QED  BY Zenon, <1>1, <2>2 DEF PInv, VerifiedIsSource, Grows
<1>2. ASSUME NEW t \in Transfer, artifactState'[t] = "Verified", artifactState[t] # "Verified"
      PROVE  sealed'[t][2] \in sources'[t] /\ chunks'[t] = sealed'[t][2]
  <2>1. WorkerStep
    BY Zenon, <1>2, PlaneStepKinds, AgentTouchesNoRecord, RecordKeepsManifests
       DEF planeAll, allVars, transferVars
  <2>2. DOMAIN artifactState = Transfer
    BY Zenon DEF PInv, TInv, TransferPart, TransferTypeOK
  <2>3. PICK r \in Request :
          /\ At(r, "Seal", "report") /\ req[r].t = t
          /\ commit_artifact_verification(req[r].t, req[r].n, req[r].d, req[r].computed)
    BY Zenon, <1>2, <2>1, <2>2, WorkerCommits DEF allVars, transferVars,
       commit_chunk_acceptance, commit_manifest_seal, commit_artifact_verification
  <2>4. sealed' = sealed /\ chunks' = chunks
    BY Zenon, <2>3 DEF commit_artifact_verification, manifestVars
  <2>5. QED  BY Zenon, <1>2, <2>3, <2>4, NewVerdict DEF Grows
<1>3. QED  BY Zenon, <1>1, <1>2 DEF VerifiedIsSource

-----------------------------------------------------------------------------
(* Types, initial states and the theorems.                                 *)

LEMMA StepKeepsTypes ==
  ASSUME PInv, [PlaneNext]_planeAll, stored' \in [Transfer -> ChunkMap]
  PROVE  PlaneTypes'
<1>1. PlaneTypes
  BY Zenon DEF PInv
<1>2. /\ source' \in [Transfer -> [Index -> Content]]
      /\ sources' \in [Transfer -> SUBSET [Index -> Content]]
      /\ \A t \in Transfer : source'[t] \in sources'[t]
  <2>1. CASE UNCHANGED <<source, sources>>
    BY Zenon, <1>1, <2>1 DEF PlaneTypes
  <2>2. ASSUME NEW t \in Transfer, NEW new \in [Index -> Content], mutate_chunk(t, new)
        PROVE  /\ source' \in [Transfer -> [Index -> Content]]
               /\ sources' \in [Transfer -> SUBSET [Index -> Content]]
               /\ \A u \in Transfer : source'[u] \in sources'[u]
    <3>1. /\ source' = [source EXCEPT ![t] = new]
          /\ sources' = [sources EXCEPT ![t] = sources[t] \cup {new}]
      BY Zenon, <2>2 DEF mutate_chunk
    <3>2. sources[t] \cup {new} \in SUBSET [Index -> Content]
      BY Zenon, <1>1 DEF PlaneTypes
    <3>3. QED  BY Zenon, <1>1, <3>1, <3>2 DEF PlaneTypes
  <2>3. \/ UNCHANGED <<source, sources>>
        \/ \E t \in Transfer, new \in [Index -> Content] : mutate_chunk(t, new)
    BY Zenon, PlaneStepKinds, RecordTouches, WorkerTouches
       DEF planeAll, planeVars, agentVars, AgentStep, accept, start_run, send_next,
           receive_response, request_timeout, interrupt_run
  <2>4. QED  BY Zenon, <2>1, <2>2, <2>3
<1>3. DOMAIN req' = Request
  <2>1. CASE UNCHANGED req
    BY Zenon, <1>1, <2>1 DEF PlaneTypes
  <2>2. ASSUME NEW r, NEW q, req' = [req EXCEPT ![r] = q] PROVE DOMAIN req' = Request
    BY Zenon, <1>1, <2>2 DEF PlaneTypes
  <2>3. ASSUME WorkerStep PROVE \E r, q : req' = [req EXCEPT ![r] = q]
    <3>1. PICK r \in Request : \/ \E reply : Reply(r, reply)
                               \/ \E q : Respond(r, q)
                               \/ \E q : Advance(r, q)
      BY Zenon, <2>3 DEF WorkerStep, Handler, resume_discovery, authorize_chunk,
         stage_chunk_body, commit_chunk, seal_request, compute_digest,
         report_artifact_verification, handler_stops
    <3>2. ASSUME NEW q, Respond(r, q) PROVE \E p : req' = [req EXCEPT ![r] = p]
      BY Zenon, <3>2 DEF Respond
    <3>3. QED  BY Zenon, <3>1, <3>2 DEF Reply, Advance
  <2>4. ASSUME AgentStep PROVE UNCHANGED req \/ \E r, q : req' = [req EXCEPT ![r] = q]
    <3>1. ASSUME NEW t, NEW r, start_run(t, r) \/ send_next(t, r)
          PROVE  \E q : req' = [req EXCEPT ![r] = q]
      BY Zenon, <3>1 DEF start_run, send_next, SendRequest
    <3>2. ASSUME NEW t, NEW r, receive_response(t, r)
          PROVE  req' = [req EXCEPT ![r] = Free]
      BY Zenon, <3>2 DEF receive_response
    <3>3. ASSUME NEW t, request_timeout(t)
          PROVE  \E q : req' = [req EXCEPT ![waiting[t]] = q]
      BY Zenon, <3>3 DEF request_timeout
    <3>4. ASSUME NEW t, accept(t) \/ interrupt_run(t) \/ \E new : mutate_chunk(t, new)
          PROVE  UNCHANGED req
      BY Zenon, <3>4 DEF accept, interrupt_run, mutate_chunk
    <3>5. QED  BY Zenon, <2>4, <3>1, <3>2, <3>3, <3>4 DEF AgentStep
  <2>5. QED
    BY Zenon, <2>1, <2>2, <2>3, <2>4, PlaneStepKinds, RecordTouches DEF planeAll, planeVars
<1>4. DOMAIN run' = Transfer /\ DOMAIN waiting' = Transfer
  <2>1. DOMAIN run = Transfer /\ DOMAIN waiting = Transfer
    BY Zenon, <1>1 DEF PlaneTypes
  <2>2. CASE UNCHANGED agentVars
    BY Zenon, <2>1, <2>2 DEF agentVars
  <2>3. CASE AgentStep
    <3>1. ASSUME NEW t, NEW r, start_run(t, r) \/ send_next(t, r) \/ receive_response(t, r)
          PROVE  DOMAIN run' = Transfer /\ DOMAIN waiting' = Transfer
      BY Zenon, <2>1, <3>1 DEF start_run, send_next, receive_response, SendRequest
    <3>2. ASSUME NEW t, accept(t) \/ request_timeout(t) \/ interrupt_run(t)
          PROVE  DOMAIN run' = Transfer /\ DOMAIN waiting' = Transfer
      BY Zenon, <2>1, <3>2 DEF accept, request_timeout, interrupt_run
    <3>3. ASSUME NEW t, NEW new, mutate_chunk(t, new)
          PROVE  DOMAIN run' = Transfer /\ DOMAIN waiting' = Transfer
      BY Zenon, <2>1, <3>3 DEF mutate_chunk
    <3>4. QED  BY Zenon, <2>3, <3>1, <3>2, <3>3 DEF AgentStep
  <2>4. CASE RecordStep
    BY Zenon, <2>1, <2>4
       DEF RecordStep, Prepare, Disturb, send_action_ack, send_action_result, send_cancel_ack,
           send_status_report, planeVars, agentVars
  <2>5. QED
    BY Zenon, <2>2, <2>3, <2>4, PlaneStepKinds, WorkerTouches DEF planeAll, planeVars, agentVars
<1>5. QED  BY Zenon, <1>2, <1>3, <1>4 DEF PlaneTypes

\* Nothing has been asked, stored or decided at first.
LEMMA InitPInv == PlaneInit => PInv
<1> SUFFICES ASSUME PlaneInit PROVE PInv
  BY Zenon
<1>1. TInv
  BY Zenon, InitTInv DEF PlaneInit
<1>2. PlaneTypes
  <2>1. <<>> \in ChunkMap
    <3>1. <<>> \in [{} -> Content]
      OBVIOUS
    <3>2. QED  BY Zenon, <3>1 DEF ChunkMap
  <2>2. QED  BY Zenon, <2>1 DEF PlaneInit, PlaneTypes
<1>3. GoodPlane
  <2>1. ASSUME NEW r \in Request PROVE GoodRequest(req[r])
    BY DEF PlaneInit, GoodRequest, Free
  <2>2. ASSUME NEW t \in Transfer PROVE GoodRun(t) /\ GoodWait(t)
    <3>1. run[t].at = "Idle"
      BY DEF PlaneInit, Idle
    <3>2. waiting[t] = None
      BY Zenon DEF PlaneInit
    <3>3. GoodRun(t)
      BY Zenon, <3>1 DEF GoodRun
    <3>4. GoodWait(t)
      BY Zenon, <3>2 DEF GoodWait
    <3>5. QED  BY Zenon, <3>3, <3>4
  <2>3. QED  BY Zenon, <2>1, <2>2 DEF GoodPlane
<1>4. HeldIsStored /\ VerifiedIsSource /\ OutcomeMatchesArtifact
  BY Zenon DEF PlaneInit, TransferInit, HeldIsStored, VerifiedIsSource, OutcomeMatchesArtifact,
     BoundState, Bound
<1>5. QED  BY Zenon, <1>1, <1>2, <1>3, <1>4 DEF PInv

\* Every step of Agent, Worker, Server and operators preserves the invariant.
LEMMA PlaneNextPreserves == PInv /\ [PlaneNext]_planeAll => PInv'
<1> SUFFICES ASSUME PInv, [PlaneNext]_planeAll PROVE PInv'
  BY Zenon
<1>1. /\ TInv' /\ Grows /\ stored' \in [Transfer -> ChunkMap]
      /\ \A t \in Transfer : KeepsPromises(t)
  BY Zenon, StepGrows
<1>2. PlaneTypes'
  BY Zenon, <1>1, StepKeepsTypes
<1>3. GoodPlane'
  BY Zenon, <1>1, PlaneStepKinds, AgentKeepsPlane, RecordKeepsPlane, WorkerKeepsPlane,
     QuietKeepsPlane DEF planeAll, planeVars, agentVars
<1>4. HeldIsStored' /\ VerifiedIsSource'
  BY Zenon, <1>1, StepKeepsHeld, StepKeepsVerdict
<1>5. OutcomeMatchesArtifact'
  <2>1. CASE UNCHANGED allVars
    BY Zenon, <2>1, SoftAgrees DEF allVars, vars, attemptVars
  <2>2. CASE RecordStep \/ WorkerStep
    BY Zenon, <1>1, <2>2, RecordAgrees, WorkerAgrees
  <2>3. QED  BY Zenon, <2>1, <2>2, PlaneStepKinds, AgentTouchesNoRecord DEF planeAll
<1>6. QED  BY Zenon, <1>1, <1>2, <1>3, <1>4, <1>5 DEF PInv

\* The invariant holds of every capture, with any number of runs, requests and
\* faults.
THEOREM PlaneInvariance == PlaneSpec => []PInv
  BY InitPInv, PlaneNextPreserves, PTL DEF PlaneSpec

\* A held chunk's file has the recorded content.
THEOREM HeldChunksAreStored == PlaneSpec => []HeldIsStored
<1>1. PInv => HeldIsStored
  BY Zenon DEF PInv
<1>2. QED  BY <1>1, PlaneInvariance, PTL

\* A Verified Artifact is one source there has been.
THEOREM VerifiedArtifactsAreOneSource == PlaneSpec => []VerifiedIsOneSource
<1>1. ASSUME PInv, NEW t \in Transfer, artifactState[t] = "Verified"
      PROVE  [i \in held[t] |-> stored[t][i]] = sealed[t][2]
  <2>1. /\ held[t] = DOMAIN chunks[t] /\ chunks[t] = sealed[t][2]
        /\ chunks[t] \in ChunkMap /\ held[t] \subseteq Index
    BY Zenon, <1>1 DEF PInv, TInv, TransferPart, TransferTypeOK, VerifiedIsComplete,
       VerifiedIsSource
  <2>2. \A i \in held[t] : stored[t][i] = chunks[t][i]
    BY Zenon, <1>1, <2>1 DEF PInv, HeldIsStored
  <2>3. chunks[t] \in [held[t] -> Content]
    BY Zenon, <2>1 DEF ChunkMap
  <2>4. QED  BY Zenon, <2>1, <2>2, <2>3
<1>2. PInv => VerifiedIsOneSource
  BY Zenon, <1>1 DEF PInv, VerifiedIsSource, VerifiedIsOneSource
<1>3. QED  BY <1>2, PlaneInvariance, PTL

\* The outcome of a capture and the state of its Artifact agree.
THEOREM OutcomesMatchArtifacts == PlaneSpec => []OutcomeMatchesArtifact
<1>1. PInv => OutcomeMatchesArtifact
  BY Zenon DEF PInv
<1>2. QED  BY <1>1, PlaneInvariance, PTL

\* Agent, Worker and Server together implement TransferLifecycle.
THEOREM CaptureRefines == PlaneSpec => RefinesTransferLifecycle
<1>1. PlaneInit => TransferInit
  BY Zenon DEF PlaneInit
<1>2. QED
  BY <1>1, PlaneStepsMap, PlaneInvariance, PTL
     DEF PlaneSpec, RefinesTransferLifecycle, TransferSpec
==============================================================================
