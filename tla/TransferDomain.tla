--------------------------- MODULE TransferDomain ---------------------------
(***************************************************************************)
(* The pure decisions of crates/domain about a Transfer, its Artifact and  *)
(* its chunk manifest, and the decisions of server/src/application/mod.rs  *)
(* that tie the terminal evidence of a transfer action to the Artifact.    *)
(*                                                                         *)
(* A manifest's chunks are a partial function from chunk indices to chunk  *)
(* identities (size and digest together: one content has one of each).     *)
(* The sealed facts are <<>> before the seal and <<chunk_count,            *)
(* artifact_digest>> after it.  A decision returns its outcome's name; a   *)
(* decision about an Artifact returns the Artifact's state to persist.     *)
(***************************************************************************)
EXTENDS Naturals, FiniteSets, JobDomain

ArtifactState == {"Incomplete", "PendingVerification", "Verified", "Failed"}
TerminalArtifact == {"Verified", "Failed"}

AuthorizationOperation == {"ResumeDiscovery", "ChunkUpload", "SealManifest"}

TransferResultCode == {"TransferVerified", "ArtifactVerificationFailed",
                       "ChunkVerificationFailed", "TransferAbandoned"}

-----------------------------------------------------------------------------
(* Chunk manifest.                                                         *)

record_expected_chunk(chunks, sealed, i, c) ==
  IF i \in DOMAIN chunks
  THEN IF chunks[i] = c THEN "AlreadyRecorded" ELSE "Conflict"
  ELSE IF sealed # <<>> THEN "NotContinuable" ELSE "Added"

WithChunk(chunks, i, c) ==
  [k \in DOMAIN chunks \cup {i} |-> IF k = i THEN c ELSE chunks[k]]

validate_verified_chunk(chunks, i, c) ==
  i \in DOMAIN chunks /\ chunks[i] = c

\* Faulty variant: the number of recorded chunks is all that is compared.
FaultySeal(chunks, sealed, n, d) ==
  IF sealed # <<>>
  THEN IF sealed = <<n, d>> THEN "AlreadySealed" ELSE "ConflictingReseal"
  ELSE IF Cardinality(DOMAIN chunks) # n THEN "IncompleteChunkSet"
  ELSE "Sealed"

\* Faulty variant: a repeated seal is a conflict, whatever it says.
FaultyReseal(chunks, sealed, n, d) ==
  IF sealed # <<>> THEN "ConflictingReseal"
  ELSE IF DOMAIN chunks # 0..(n - 1) THEN "IncompleteChunkSet"
  ELSE "Sealed"

seal(chunks, sealed, n, d) ==
  IF sealed # <<>>
  THEN IF sealed = <<n, d>> THEN "AlreadySealed" ELSE "ConflictingReseal"
  ELSE IF Cardinality(DOMAIN chunks) # n THEN "IncompleteChunkSet"
  ELSE IF \E i \in 0..(n - 1) : i \notin DOMAIN chunks
  THEN "NonContiguousIndices"
  ELSE "Sealed"

-----------------------------------------------------------------------------
(* Artifact.                                                               *)

begin_verification(artifact, chunks, sealed, held) ==
  IF artifact # "Incomplete" THEN "NotIncomplete"
  ELSE IF sealed = <<>> THEN "ManifestNotSealed"
  ELSE IF ~(DOMAIN chunks \subseteq held) THEN "IncompleteChunks"
  ELSE "PendingVerification"

complete_verification(artifact, digest_matches) ==
  IF artifact # "PendingVerification" THEN artifact
  ELSE IF digest_matches THEN "Verified" ELSE "Failed"

fail_incomplete(artifact) ==
  IF artifact = "Incomplete" THEN "Failed" ELSE artifact

\* Is the operation meaningful for the durable state right now?
data_plane_operation_is_current(op, artifact, sealed, known) ==
  \/ artifact = "Incomplete" /\ (op = "ChunkUpload" => sealed = <<>> \/ known)
  \/ artifact = "PendingVerification" /\ op # "ChunkUpload"

-----------------------------------------------------------------------------
(* Terminal evidence of a transfer action: the facts of the Job side and   *)
(* the Artifact's state are decided and persisted together.                *)

\* ActionResult with an RF-005 code.  A code the Artifact contradicts fails
\* closed, and evidence the Domain does not apply changes nothing.
decide_transfer_terminal_evidence(f, artifact, code, others) ==
  LET ev == IF code = "TransferVerified" THEN "ResultSucceeded" ELSE "ResultFailed"
      required == IF code = "TransferVerified" THEN "Verified"
                  ELSE IF code = "ArtifactVerificationFailed" THEN "Failed"
                  ELSE "Incomplete"
  IN IF f.attempt \in Executing /\ artifact = required
     THEN [facts |-> apply_action_evidence(f, ev, others),
           artifact |-> fail_incomplete(artifact)]
     ELSE [facts |-> f, artifact |-> artifact]

decide_transfer_cancel_ack(f, artifact, ev) ==
  LET g == apply_cancel_ack(f, ev)
  IN [facts |-> g,
      artifact |-> IF g # f /\ g.attempt = "Cancelled"
                   THEN fail_incomplete(artifact) ELSE artifact]

decide_transfer_status_report_cancelled(f, artifact, others) ==
  LET g == apply_status_report(f, "Cancelled", others)
  IN [facts |-> g,
      artifact |-> IF g # f /\ g.attempt = "Cancelled"
                   THEN fail_incomplete(artifact) ELSE artifact]

decide_transfer_status_report_failed(f, artifact, others) ==
  LET g == apply_status_report(f, "Failed", others)
  IN [facts |-> g,
      artifact |-> IF g # f /\ g.attempt = "Failed"
                   THEN fail_incomplete(artifact) ELSE artifact]
=============================================================================
