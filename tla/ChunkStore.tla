----------------------------- MODULE ChunkStore -----------------------------
(***************************************************************************)
(* The Worker's local chunk store (worker/src/storage/fs_store.rs) under   *)
(* the uploads that use it (data_plane/upload.rs) and the coordinator that *)
(* finalizes uploads in groups (data_plane/i63_batch.rs).                  *)
(*                                                                         *)
(* All chunks are those of one Transfer, and so of one directory.  `entry' *)
(* is the directory as the processes see it, `durable' what of it has      *)
(* reached the disk: a power loss keeps every durable entry, and an entry  *)
(* that is not durable may or may not survive it.  A file's bytes are      *)
(* synchronized before it is linked, so an entry that survives has them.   *)
(* A content stands for the bytes, their size and their digest.            *)
(***************************************************************************)
EXTENDS Naturals, FiniteSets

CONSTANTS
  Upload,      \* upload handlers running at once
  MaxChunks,   \* chunks of the Transfer
  Content,     \* what the bytes of a chunk can be
  BatchSize,   \* members of a finalization group (8 in the code)
  Faults,      \* the failures that can happen
  MaxFaults,   \* bound on the failures of one behaviour
  MaxRequests, \* bound on the PUTs of one behaviour
  None

ASSUME SizeAssumption == MaxChunks \in Nat \ {0} /\ BatchSize \in Nat \ {0}
ASSUME BoundAssumption == MaxFaults \in Nat /\ MaxRequests \in Nat
ASSUME FaultsAssumption ==
  Faults \subseteq {"WorkerCrash", "PowerLoss", "SyncFails", "DirSyncFails",
                    "BadBody", "CommitFailed"}
ASSUME NoContentAssumption == None \notin Content

Chunk == 0..(MaxChunks - 1)
MaybeContent == Content \cup {None}
Batch == {i \div BatchSize : i \in Chunk}

VARIABLES
  up,         \* the handlers: where each is, its chunk and its bytes
  staging,    \* staging files on disk: upload and chunk
  entry,      \* finalized chunk files, as the directory shows them
  durable,    \* finalized chunk files that survive a power loss
  accepted,   \* the contents the Server has durably accepted
  batched,    \* is the coordinator configured?
  batches,    \* coordinator: the groups
  requests,   \* coordinator: the chunks a PUT was made for
  failed,     \* coordinator: the Transfer is contaminated
  running,    \* the Worker runs and has initialized the store
  powerLost,  \* history: there was a power loss
  puts,       \* PUTs so far
  faults      \* failures so far

store == <<staging, entry, durable>>
coordinator == <<batches, requests, failed>>
counters == <<puts, faults>>
vars == <<up, store, accepted, batched, coordinator, running, powerLost, counters>>

\* A handler; `todo' are the members that the leader of a group has still to
\* place.
Idle == [at |-> "Idle"]
Handling(place, i, v, todo) == [at |-> place, chunk |-> i, bytes |-> v, todo |-> todo]

Group(members, finalizing, result) ==
  [members |-> members, finalizing |-> finalizing, result |-> result]
EmptyGroup == Group({}, FALSE, "None")

Init ==
  /\ up = [u \in Upload |-> Idle]
  /\ staging = {}
  /\ entry = [i \in Chunk |-> None]
  /\ durable = [i \in Chunk |-> None]
  /\ accepted = [i \in Chunk |-> None]
  /\ batched \in BOOLEAN
  /\ batches = [b \in Batch |-> EmptyGroup]
  /\ requests = {} /\ failed = FALSE
  /\ running = TRUE /\ powerLost = FALSE
  /\ puts = 0 /\ faults = 0

Fault(kind) == kind \in Faults /\ faults < MaxFaults /\ faults' = faults + 1

At(u, place) == running /\ up[u].at = place
Go(u, place) ==
  up' = [up EXCEPT ![u] = Handling(place, up[u].chunk, up[u].bytes, up[u].todo)]
GroupOf(u) == up[u].chunk \div BatchSize
File(u) == <<u, up[u].chunk>>

\* What no step of a handler changes.
Fixed == <<accepted, batched, running, powerLost, puts>>

-----------------------------------------------------------------------------
(* The coordinator's bookkeeping.                                          *)

Waiting(b) == ~batches[b].finalizing

\* Every group that is not being finalized gives up its members; a member's
\* staging file goes with it.
fail ==
  /\ batches' = [b \in Batch |->
                   IF Waiting(b) THEN Group({}, FALSE, "Failed") ELSE batches[b]]
  /\ failed' = TRUE

GivenUp == {f \in staging : \E b \in Batch : Waiting(b) /\ f \in batches[b].members}

\* A handler that ends without a commit; `files' are the staging files it
\* removes.  Dropping its guard contaminates the Transfer.
EndUpload(u, files) ==
  /\ up' = [up EXCEPT ![u] = Idle]
  /\ IF batched THEN fail /\ staging' = staging \ (files \cup GivenUp)
     ELSE staging' = staging \ files /\ UNCHANGED <<batches, failed>>
  /\ UNCHANGED <<entry, durable, requests>>

\* The coordinator sees each chunk once: a repeated PUT contaminates the
\* Transfer, and every PUT of a contaminated Transfer is denied.
request(u, i, v) ==
  /\ running /\ up[u] = Idle
  /\ puts < MaxRequests /\ puts' = puts + 1
  /\ requests' = IF batched THEN requests \cup {i} ELSE requests
  /\ IF batched /\ (failed \/ i \in requests)
     THEN fail /\ staging' = staging \ GivenUp /\ UNCHANGED up
     ELSE /\ up' = [up EXCEPT ![u] = Handling("Authorized", i, v, {})]
          /\ UNCHANGED <<batches, failed, staging>>
  /\ UNCHANGED <<entry, durable, accepted, batched, running, powerLost, faults>>

-----------------------------------------------------------------------------
(* Staging.                                                                *)

begin_stage(u) ==
  /\ At(u, "Authorized")
  /\ staging' = staging \cup {File(u)}
  /\ Go(u, "Staging")
  /\ UNCHANGED <<entry, durable, coordinator, Fixed, faults>>

\* The body arrives whole and has the declared digest, or it is discarded.
stage_worker(u) ==
  /\ At(u, "Staging")
  /\ \/ Go(u, "Staged") /\ UNCHANGED <<store, coordinator, faults>>
     \/ Fault("BadBody") /\ EndUpload(u, {File(u)})
  /\ UNCHANGED Fixed

-----------------------------------------------------------------------------
(* One upload finalized by itself.                                         *)

sync_file(u) ==
  /\ At(u, "Staged") /\ ~batched
  /\ \/ Go(u, "Synced") /\ UNCHANGED <<store, coordinator, faults>>
     \/ Fault("SyncFails") /\ EndUpload(u, {File(u)})
  /\ UNCHANGED Fixed

\* Faulty variant: the file is renamed over whatever is there.
FaultyPlace(u) ==
  /\ At(u, "Synced")
  /\ entry' = [entry EXCEPT ![up[u].chunk] = up[u].bytes]
  /\ Go(u, "Linked")
  /\ UNCHANGED <<staging, durable, coordinator, Fixed, faults>>

\* A link never replaces: the first writer of a chunk stays.
place_no_replace(u) ==
  /\ At(u, "Synced")
  /\ IF entry[up[u].chunk] = None
     THEN entry' = [entry EXCEPT ![up[u].chunk] = up[u].bytes] /\ Go(u, "Linked")
     ELSE Go(u, "Exists") /\ UNCHANGED entry
  /\ UNCHANGED <<staging, durable, coordinator, Fixed, faults>>

\* Synchronizing the directory makes every entry of it durable.  When it
\* fails the staging file goes and the linked file stays.
fsync_dir(u) ==
  /\ At(u, "Linked")
  /\ \/ /\ durable' = entry
        /\ staging' = staging \ {File(u)} /\ Go(u, "Finalized")
        /\ UNCHANGED <<entry, coordinator, faults>>
     \/ Fault("DirSyncFails") /\ EndUpload(u, {File(u)})
  /\ UNCHANGED Fixed

\* Faulty variant: a chunk that is there is taken for this one.
FaultyExisting(u) ==
  /\ At(u, "Exists")
  /\ staging' = staging \ {File(u)} /\ Go(u, "Finalized")
  /\ UNCHANGED <<entry, durable, coordinator, faults, Fixed>>

\* Faulty variant: the staging file of a chunk that is there is forgotten.
FaultyCompare(u) ==
  /\ At(u, "Exists")
  /\ IF entry[up[u].chunk] = up[u].bytes
     THEN Go(u, "Finalized") /\ UNCHANGED <<store, coordinator>>
     ELSE EndUpload(u, {File(u)})
  /\ UNCHANGED <<faults, Fixed>>

\* The same bytes count as finalized, without a directory sync of their own.
existing_final_facts(u) ==
  /\ At(u, "Exists")
  /\ IF entry[up[u].chunk] = up[u].bytes
     THEN staging' = staging \ {File(u)} /\ Go(u, "Finalized")
          /\ UNCHANGED <<entry, durable, coordinator>>
     ELSE EndUpload(u, {File(u)})
  /\ UNCHANGED <<faults, Fixed>>

-----------------------------------------------------------------------------
(* Uploads finalized in groups.                                            *)

\* The member that completes its group finalizes it, the others wait.
submit(u) ==
  /\ At(u, "Staged") /\ batched
  /\ LET b == GroupOf(u)
         members == batches[b].members \cup {File(u)}
         clash == \/ batches[b].finalizing \/ batches[b].result # "None"
                  \/ \E m \in batches[b].members : m[2] = up[u].chunk
     IN IF failed \/ clash THEN EndUpload(u, {File(u)})
        ELSE /\ IF Cardinality(members) = BatchSize
                THEN /\ up' = [up EXCEPT ![u] =
                                 Handling("BatchSync", up[u].chunk, up[u].bytes,
                                          {<<m, up[m[1]].bytes>> : m \in members})]
                     /\ batches' = [batches EXCEPT ![b] = Group({}, TRUE, "None")]
                ELSE /\ Go(u, "Waiting")
                     /\ batches' = [batches EXCEPT ![b] = Group(members, FALSE, "None")]
             /\ UNCHANGED <<store, requests, failed>>
  /\ UNCHANGED <<faults, Fixed>>

\* The leader publishes the result and returns.  A Transfer contaminated in
\* the meantime makes a durable group fail.
FinishBatch(u, ok) ==
  LET good == ok /\ ~failed
  IN /\ IF good THEN UNCHANGED failed ELSE failed' = TRUE
     /\ batches' = [c \in Batch |->
          IF c = GroupOf(u)
          THEN Group({}, FALSE, IF good THEN "Ok" ELSE "Failed")
          ELSE IF Waiting(c) /\ ~good THEN Group(batches[c].members, FALSE, "Failed")
          ELSE batches[c]]
     /\ IF good THEN Go(u, "Finalized") ELSE up' = [up EXCEPT ![u] = Idle]
     /\ UNCHANGED requests

batch_sync(u) ==
  /\ At(u, "BatchSync")
  /\ \/ Go(u, "BatchPlace") /\ UNCHANGED <<store, coordinator, faults>>
     \/ /\ Fault("SyncFails") /\ FinishBatch(u, FALSE)
        /\ staging' = staging \ {m[1] : m \in up[u].todo}
        /\ UNCHANGED <<entry, durable>>
  /\ UNCHANGED Fixed

\* One member after the other, in the order of the chunks.  A chunk that is
\* there already fails the group; what was placed and staged stays behind.
batch_place(u) ==
  /\ At(u, "BatchPlace")
  /\ \/ /\ up[u].todo = {}
        /\ Go(u, "BatchBarrier") /\ UNCHANGED <<entry, coordinator>>
     \/ \E next \in up[u].todo :
          LET i == next[1][2]
          IN /\ \A k \in up[u].todo : i <= k[1][2]
             /\ IF entry[i] # None THEN FinishBatch(u, FALSE) /\ UNCHANGED entry
                ELSE /\ entry' = [entry EXCEPT ![i] = next[2]]
                     /\ up' = [up EXCEPT ![u] = Handling("BatchPlace", up[u].chunk,
                                                        up[u].bytes, up[u].todo \ {next})]
                     /\ UNCHANGED coordinator
  /\ UNCHANGED <<staging, durable, faults, Fixed>>

\* Faulty variant: the result is published before the directory is synchronized.
FaultyBarrier(u) ==
  /\ At(u, "BatchBarrier")
  /\ FinishBatch(u, TRUE)
  /\ UNCHANGED <<store, faults, Fixed>>

\* One directory sync for the whole group, then the staging files go.
batch_barrier(u) ==
  /\ At(u, "BatchBarrier")
  /\ \/ /\ durable' = entry
        /\ staging' = {f \in staging : f[2] \div BatchSize # GroupOf(u)}
        /\ FinishBatch(u, TRUE) /\ UNCHANGED <<entry, faults>>
     \/ Fault("DirSyncFails") /\ FinishBatch(u, FALSE) /\ UNCHANGED store
  /\ UNCHANGED Fixed

\* Faulty variant: a member waits for the rest of its group for ever.
FaultyAwait(u) ==
  /\ At(u, "Waiting")
  /\ LET b == GroupOf(u)
     IN IF failed \/ batches[b].result = "Failed" THEN EndUpload(u, {})
        ELSE /\ batches[b].result = "Ok"
             /\ Go(u, "Finalized") /\ UNCHANGED <<store, coordinator>>
  /\ UNCHANGED <<faults, Fixed>>

\* A member that waits sees the contamination, the result, or its timeout.
await_batch(u) ==
  /\ At(u, "Waiting")
  /\ LET b == GroupOf(u)
     IN IF failed \/ batches[b].result = "Failed" THEN EndUpload(u, {})
        ELSE \/ /\ batches[b].result = "Ok"
                /\ Go(u, "Finalized") /\ UNCHANGED <<store, coordinator>>
             \/ /\ batches[b].result = "None" /\ ~batches[b].finalizing
                /\ EndUpload(u, {})
  /\ UNCHANGED <<faults, Fixed>>

-----------------------------------------------------------------------------
(* Acceptance by the Server, stops and restarts.                           *)

\* commit_chunk: the Server accepts a content once; under the coordinator a
\* chunk accepted before ends the upload with a denial. A call that fails, or
\* is rejected because the Transfer cannot continue, ends the upload too, and
\* the Worker cannot tell whether the Server accepted the chunk.
commit_chunk(u) ==
  /\ At(u, "Finalized")
  /\ LET known == accepted[up[u].chunk]
         grown == IF known = None
                  THEN [accepted EXCEPT ![up[u].chunk] = up[u].bytes]
                  ELSE accepted
     IN \/ /\ known = None \/ (known = up[u].bytes /\ ~batched)
           /\ accepted' = grown
           /\ up' = [up EXCEPT ![u] = Idle]
           /\ UNCHANGED <<store, coordinator, faults>>
        \/ /\ Fault("CommitFailed") /\ EndUpload(u, {})
           /\ accepted' \in {accepted, grown}
        \/ /\ known # None /\ (known # up[u].bytes \/ batched)
           /\ EndUpload(u, {}) /\ UNCHANGED <<accepted, faults>>
  /\ UNCHANGED <<batched, running, powerLost, puts>>

\* The process is gone: handlers and coordinator with it.
Stop ==
  /\ running' = FALSE
  /\ up' = [u \in Upload |-> Idle]
  /\ batches' = [b \in Batch |-> EmptyGroup]
  /\ requests' = {} /\ failed' = FALSE
  /\ UNCHANGED <<staging, accepted, batched, puts>>

worker_crash ==
  /\ running /\ Fault("WorkerCrash")
  /\ Stop
  /\ UNCHANGED <<entry, durable, powerLost>>

power_loss ==
  /\ Fault("PowerLoss")
  /\ Stop
  /\ \E kept \in SUBSET Chunk :
       entry' = [i \in Chunk |-> IF i \in kept THEN entry[i] ELSE durable[i]]
  /\ durable' = entry'
  /\ powerLost' = TRUE

\* A start removes what staging files are left, and nothing else.
initialize ==
  /\ ~running
  /\ running' = TRUE /\ staging' = {}
  /\ UNCHANGED <<up, entry, durable, accepted, batched, coordinator, powerLost, counters>>

UploadStep(u) ==
  \/ begin_stage(u) \/ stage_worker(u)
  \/ sync_file(u) \/ place_no_replace(u) \/ fsync_dir(u) \/ existing_final_facts(u)
  \/ submit(u) \/ batch_sync(u) \/ batch_place(u) \/ batch_barrier(u) \/ await_batch(u)
  \/ commit_chunk(u)

Next ==
  \/ \E u \in Upload : UploadStep(u) \/ \E i \in Chunk, v \in Content : request(u, i, v)
  \/ worker_crash \/ power_loss \/ initialize

Spec == Init /\ [][Next]_vars /\ WF_vars(initialize)
        /\ \A u \in Upload : WF_vars(UploadStep(u))

-----------------------------------------------------------------------------
(* Properties.                                                             *)

\* Every file and entry has a value of its type, a durable entry is one the
\* directory shows, and, without the coordinator, no staging file outlives its
\* upload while the Worker runs: every way out of finalize removes it.
TypeOK ==
  /\ staging \subseteq Upload \X Chunk
  /\ entry \in [Chunk -> MaybeContent]
  /\ durable \in [Chunk -> MaybeContent]
  /\ accepted \in [Chunk -> MaybeContent]
  /\ \A i \in Chunk : durable[i] # None => entry[i] = durable[i]
  /\ \A b \in Batch : Cardinality(batches[b].members) < BatchSize
  /\ running /\ ~batched =>
       \A f \in staging : up[f[1]].at \notin {"Idle", "Authorized", "Finalized"}

\* What the Server has accepted is on disk with the accepted bytes, through
\* concurrent uploads of other bytes, failures, crashes of the Worker and
\* restarts; after a power loss this holds for the entries that were
\* synchronized (StorePromise).
AcceptedSurvivesRestart ==
  ~powerLost => \A i \in Chunk : accepted[i] # None => entry[i] = accepted[i]

\* Under the coordinator no member reports its chunk finalized, and the Server
\* accepts none, before the directory sync of its group.
BatchIsDurable ==
  batched => \A u \in Upload : up[u].at = "Finalized" => durable[up[u].chunk] = up[u].bytes

\* The store keeps the promise of StorePromise: an entry never changes its
\* content, and an accepted and synchronized one never disappears.
Promise == INSTANCE StorePromise
  WITH final <- entry, promised <- {i \in Chunk : accepted[i] # None /\ durable[i] # None}
KeepsPromise == Promise!Spec

\* Every upload ends, also the ones that wait for the rest of their group.
UploadsEnd == \A u \in Upload : up[u].at # "Idle" ~> up[u].at = "Idle"
=============================================================================
