-------------------------- MODULE ChunkStoreProofs --------------------------
(***************************************************************************)
(* Proofs about ChunkStore, for any number of uploads, chunks, contents,   *)
(* faults and PUTs and any group size: the types, that what the Server     *)
(* accepted stays, that a group is durable before it is reported, and that *)
(* the store implements StorePromise.                                      *)
(*                                                                         *)
(* The invariant is about the time between a link and the acceptance.  An  *)
(* entry is never replaced, so what a handler linked or compared stays     *)
(* true without any lock.  In a group the chain is longer: who waits is in *)
(* the group (and contaminates the Transfer by leaving it), the leader has *)
(* placed the member's bytes or is still to place them, and when it has    *)
(* none left one directory sync makes all of them durable.                 *)
(***************************************************************************)
EXTENDS ChunkStore, FiniteSetTheorems, TLAPS

\* The time limit of the solver, in seconds, for every leaf that names no other
\* prover.
USE SMTT(60)

Files == Upload \X Chunk
Leader == {"BatchSync", "BatchPlace", "BatchBarrier"}
Grouped == Leader \cup {"Waiting"}
Alone == {"Synced", "Linked", "Exists"}
Place == {"Authorized", "Staging", "Staged", "Finalized"} \cup Alone \cup Grouped

Handlers == [at : Place, chunk : Chunk, bytes : Content, todo : SUBSET (Files \X Content)]
Groups == [members : SUBSET Files, finalizing : BOOLEAN, result : {"None", "Ok", "Failed"}]

StoreTypes ==
  /\ up \in [Upload -> Handlers \cup {Idle}]
  /\ staging \subseteq Files
  /\ entry \in [Chunk -> MaybeContent]
  /\ durable \in [Chunk -> MaybeContent]
  /\ accepted \in [Chunk -> MaybeContent]
  /\ batches \in [Batch -> Groups]
  /\ batched \in BOOLEAN /\ failed \in BOOLEAN /\ powerLost \in BOOLEAN

\* A durable entry is one the directory shows.
DurableIsShown == \A i \in Chunk : durable[i] # None => entry[i] = durable[i]

\* A group is finalized when its last member is there: what waits is fewer.
GroupsAreSmall ==
  \A b \in Batch :
    IsFiniteSet(batches[b].members) /\ Cardinality(batches[b].members) < BatchSize

\* Without the coordinator, a staging file is that of an upload under way.
StagingIsOwned ==
  running /\ ~batched =>
    \A f \in staging : /\ up[f[1]].at \notin {"Idle", "Authorized", "Finalized"}
                       /\ up[f[1]].chunk = f[2]

\* Some uploads are finalized alone, the others in groups.
OneWay == \A u \in Upload : IF batched THEN up[u].at \notin Alone ELSE up[u].at \notin Grouped

\* What a handler has linked, or found, is what the directory shows.
Linked ==
  \A u \in Upload :
    up[u].at \in {"Linked", "Finalized"} => entry[up[u].chunk] = up[u].bytes

\* u's chunk has been placed, or w is still to place it.
Served(w, u) ==
  entry[up[u].chunk] = up[u].bytes \/ <<File(u), up[u].bytes>> \in up[w].todo

Leads(w, b) == up[w].at \in Leader /\ GroupOf(w) = b

\* A group that is finalized has one leader, which serves itself.
LeadersLead ==
  \A w \in Upload :
    up[w].at \in Leader =>
      /\ batches[GroupOf(w)].finalizing
      /\ Served(w, w)
      /\ up[w].at = "BatchBarrier" => up[w].todo = {}
      /\ \A v \in Upload : Leads(v, GroupOf(w)) => v = w

\* Who is in a group that is still filling up waits for it.
MembersWait ==
  ~failed => \A b \in Batch : batches[b].result = "None" =>
    \A m \in batches[b].members :
      up[m[1]].at = "Waiting" /\ up[m[1]].chunk = m[2] /\ GroupOf(m[1]) = b

\* A member that waits is in its group; once the group is being finalized its
\* leader serves the member, and once it is finalized the chunk is durable.
MembersAreServed ==
  \A u \in Upload :
    up[u].at = "Waiting" /\ ~failed =>
      \/ /\ batches[GroupOf(u)].result = "None"
         /\ IF batches[GroupOf(u)].finalizing
            THEN \A w \in Upload : Leads(w, GroupOf(u)) => Served(w, u)
            ELSE File(u) \in batches[GroupOf(u)].members
      \/ durable[up[u].chunk] = up[u].bytes

CInv ==
  /\ StoreTypes
  /\ DurableIsShown
  /\ GroupsAreSmall
  /\ StagingIsOwned
  /\ OneWay
  /\ Linked
  /\ LeadersLead
  /\ MembersWait
  /\ MembersAreServed
  /\ AcceptedSurvivesRestart
  /\ BatchIsDurable

-----------------------------------------------------------------------------
(* Records, and what the coordinator's operations do to them.              *)

\* The handler without an upload.
LEMMA IdleAt == Idle.at = "Idle"
BY DEF Idle

\* A handler that is not idle has a chunk, bytes and members to place.
LEMMA HandlerTypes ==
  /\ \A h \in Handlers \cup {Idle} : h.at # "Idle" => h \in Handlers
  /\ \A h \in Handlers : /\ h.at \in Place /\ h.at # "Idle" /\ h.chunk \in Chunk
                         /\ h.bytes \in Content /\ h.todo \in SUBSET (Files \X Content)
  /\ \A p \in Place, i \in Chunk, v \in Content, todo \in SUBSET (Files \X Content) :
       Handling(p, i, v, todo) \in Handlers
<1>1. "Idle" \notin Place
  BY DEF Place, Alone, Grouped, Leader
<1>2. Idle.at = "Idle"
  BY DEF Idle
<1>3. \A h \in Handlers : /\ h.at \in Place /\ h.chunk \in Chunk
                          /\ h.bytes \in Content /\ h.todo \in SUBSET (Files \X Content)
  BY DEF Handlers
<1>4. \A p \in Place, i \in Chunk, v \in Content, todo \in SUBSET (Files \X Content) :
        Handling(p, i, v, todo) \in Handlers
  BY DEF Handling, Handlers
<1>5. QED  BY Zenon, <1>1, <1>2, <1>3, <1>4

\* The same for groups.
LEMMA GroupTypes ==
  /\ \A g \in Groups : /\ g.members \in SUBSET Files /\ g.finalizing \in BOOLEAN
                       /\ g.result \in {"None", "Ok", "Failed"}
  /\ \A m \in SUBSET Files, f \in BOOLEAN, r \in {"None", "Ok", "Failed"} :
       Group(m, f, r) \in Groups
<1>1. \A g \in Groups : /\ g.members \in SUBSET Files /\ g.finalizing \in BOOLEAN
                        /\ g.result \in {"None", "Ok", "Failed"}
  BY DEF Groups
<1>2. \A m \in SUBSET Files, f \in BOOLEAN, r \in {"None", "Ok", "Failed"} :
        Group(m, f, r) \in Groups
  BY DEF Group, Groups
<1>3. QED  BY Zenon, <1>1, <1>2

\* An upload under way has its chunk in one group.
LEMMA Under ==
  ASSUME StoreTypes, NEW u \in Upload, up[u].at # "Idle"
  PROVE  /\ up[u] \in Handlers /\ up[u].at \in Place /\ up[u].chunk \in Chunk
         /\ up[u].bytes \in Content /\ up[u].bytes # None
         /\ up[u].todo \in SUBSET (Files \X Content)
         /\ GroupOf(u) \in Batch /\ File(u) \in Files
<1>1. up[u] \in Handlers
  BY Zenon, HandlerTypes DEF StoreTypes
<1>2. /\ up[u].at \in Place /\ up[u].chunk \in Chunk /\ up[u].bytes \in Content
      /\ up[u].todo \in SUBSET (Files \X Content)
  BY Zenon, <1>1, HandlerTypes
<1>3. QED  BY Zenon, <1>1, <1>2, NoContentAssumption DEF GroupOf, File, Files, Batch

\* A handler that moves on keeps its chunk, its bytes and its members.
LEMMA GoFacts ==
  ASSUME StoreTypes, NEW u \in Upload, up[u].at # "Idle", NEW p \in Place, Go(u, p)
  PROVE  /\ up' \in [Upload -> Handlers \cup {Idle}]
         /\ up'[u].at = p /\ up'[u].chunk = up[u].chunk /\ up'[u].bytes = up[u].bytes
         /\ up'[u].todo = up[u].todo
         /\ \A x \in Upload \ {u} : up'[x] = up[x]
<1>1. PICK h : h = Handling(p, up[u].chunk, up[u].bytes, up[u].todo)
  BY Zenon
<1>2. h \in Handlers
  BY Zenon, <1>1, Under, HandlerTypes
<1>3. up' = [up EXCEPT ![u] = h]
  BY Zenon, <1>1 DEF Go
<1>4. up \in [Upload -> Handlers \cup {Idle}]
  BY Zenon DEF StoreTypes
<1>5. up' \in [Upload -> Handlers \cup {Idle}] /\ up'[u] = h
      /\ \A x \in Upload \ {u} : up'[x] = up[x]
  BY Zenon, <1>2, <1>3, <1>4
<1>6. h.at = p /\ h.chunk = up[u].chunk /\ h.bytes = up[u].bytes /\ h.todo = up[u].todo
  BY <1>1 DEF Handling
<1>7. QED  BY Zenon, <1>5, <1>6

\* A handler that ends is idle.
LEMMA IdleFacts ==
  ASSUME StoreTypes, NEW u \in Upload, up' = [up EXCEPT ![u] = Idle]
  PROVE  /\ up' \in [Upload -> Handlers \cup {Idle}]
         /\ up'[u] = Idle /\ up'[u].at = "Idle"
         /\ \A x \in Upload \ {u} : up'[x] = up[x]
<1>1. up \in [Upload -> Handlers \cup {Idle}]
  BY Zenon DEF StoreTypes
<1>2. up' \in [Upload -> Handlers \cup {Idle}] /\ up'[u] = Idle
      /\ \A x \in Upload \ {u} : up'[x] = up[x]
  BY Zenon, <1>1
<1>3. QED  BY Zenon, <1>2, IdleAt

\* A contaminated Transfer gives up the groups that are not being finalized,
\* and no other.
LEMMA FailFacts ==
  ASSUME StoreTypes, fail
  PROVE  /\ failed' = TRUE /\ batches' \in [Batch -> Groups]
         /\ \A b \in Batch : /\ batches'[b].finalizing = batches[b].finalizing
                             /\ \/ batches'[b] = batches[b]
                                \/ batches'[b].members = {}
<1>1. PICK g : g = Group({}, FALSE, "Failed")
  BY Zenon
<1>2. g \in Groups /\ g.members = {} /\ g.finalizing = FALSE
  <2>1. g.members = {} /\ g.finalizing = FALSE
    BY <1>1 DEF Group
  <2>2. QED  BY Zenon, <1>1, <2>1, GroupTypes
<1>3. batches' = [b \in Batch |-> IF Waiting(b) THEN g ELSE batches[b]]
  BY Zenon, <1>1 DEF fail
<1>4. batches \in [Batch -> Groups]
  BY Zenon DEF StoreTypes
<1>5. ASSUME NEW b \in Batch
      PROVE  /\ batches'[b] \in Groups
             /\ batches'[b].finalizing = batches[b].finalizing
             /\ batches'[b] = batches[b] \/ batches'[b].members = {}
  <2>1. batches[b] \in Groups /\ batches[b].finalizing \in BOOLEAN
    BY Zenon, <1>4, GroupTypes
  <2>2. batches'[b] = IF Waiting(b) THEN g ELSE batches[b]
    BY Zenon, <1>3
  <2>3. CASE batches[b].finalizing = TRUE
    BY Zenon, <2>1, <2>2, <2>3 DEF Waiting
  <2>4. CASE batches[b].finalizing = FALSE
    BY Zenon, <1>2, <2>1, <2>2, <2>4 DEF Waiting
  <2>5. QED  BY Zenon, <2>1, <2>3, <2>4
<1>6. batches' \in [Batch -> Groups]
  <2>1. \A b \in Batch : (IF Waiting(b) THEN g ELSE batches[b]) \in Groups
    BY Zenon, <1>2, <1>4
  <2>2. QED  BY Zenon, <1>3, <2>1
<1>7. QED  BY Zenon, <1>5, <1>6 DEF fail

\* The handler that ends without a commit.
LEMMA EndFacts ==
  ASSUME StoreTypes, NEW u \in Upload, NEW files, EndUpload(u, files)
  PROVE  /\ up' = [up EXCEPT ![u] = Idle]
         /\ entry' = entry /\ durable' = durable
         /\ staging' \subseteq staging /\ staging' \cap files = {}
         /\ batches' \in [Batch -> Groups]
         /\ \A b \in Batch : /\ batches'[b].finalizing = batches[b].finalizing
                             /\ batches'[b] = batches[b] \/ batches'[b].members = {}
         /\ failed' = TRUE \/ (failed' = failed /\ batches' = batches)
<1>1. up' = [up EXCEPT ![u] = Idle] /\ entry' = entry /\ durable' = durable
  BY Zenon DEF EndUpload
<1>2. CASE batched
  <2>1. fail /\ staging' = staging \ (files \cup GivenUp)
    BY Zenon, <1>2 DEF EndUpload
  <2>2. staging' \subseteq staging /\ staging' \cap files = {}
    BY Zenon, <2>1
  <2>3. QED  BY Zenon, <1>1, <2>1, <2>2, FailFacts
<1>3. CASE ~batched
  <2>1. staging' = staging \ files /\ batches' = batches /\ failed' = failed
    BY Zenon, <1>3 DEF EndUpload
  <2>2. staging' \subseteq staging /\ staging' \cap files = {}
    BY Zenon, <2>1
  <2>3. QED  BY Zenon, <1>1, <2>1, <2>2 DEF StoreTypes
<1>4. QED  BY Zenon, <1>2, <1>3

\* The leader's return: its group is no longer being finalized, the others are
\* as before, except that a failure contaminates the Transfer.
LEMMA FinishFacts ==
  ASSUME StoreTypes, NEW u \in Upload, up[u].at # "Idle", NEW ok \in BOOLEAN, FinishBatch(u, ok)
  PROVE  /\ batches' \in [Batch -> Groups]
         /\ \A c \in Batch : c # GroupOf(u) =>
              /\ batches'[c].finalizing = batches[c].finalizing
              /\ batches'[c].members = batches[c].members
         /\ batches'[GroupOf(u)].members = {}
         /\ ok /\ ~failed => /\ Go(u, "Finalized") /\ failed' = failed
                             /\ \A c \in Batch : c # GroupOf(u) => batches'[c] = batches[c]
         /\ ~(ok /\ ~failed) => up' = [up EXCEPT ![u] = Idle] /\ failed' = TRUE
<1> DEFINE good == ok /\ ~failed
<1>1. PICK g : g = Group({}, FALSE, IF good THEN "Ok" ELSE "Failed")
  BY Zenon
<1>2. g \in Groups /\ g.members = {}
  <2>1. g.members = {}
    BY <1>1 DEF Group
  <2>2. (IF good THEN "Ok" ELSE "Failed") \in {"None", "Ok", "Failed"}
    BY Zenon
  <2>3. QED  BY Zenon, <1>1, <2>1, <2>2, GroupTypes
<1>3. batches' = [c \in Batch |->
         IF c = GroupOf(u) THEN g
         ELSE IF Waiting(c) /\ ~good THEN Group(batches[c].members, FALSE, "Failed")
         ELSE batches[c]]
  BY Zenon, <1>1 DEF FinishBatch
<1>4. ASSUME NEW c \in Batch
      PROVE  LET h == Group(batches[c].members, FALSE, "Failed")
             IN /\ batches[c] \in Groups
                /\ h \in Groups /\ h.members = batches[c].members /\ h.finalizing = FALSE
  <2>1. batches[c] \in Groups /\ batches[c].members \in SUBSET Files
    BY Zenon, GroupTypes DEF StoreTypes
  <2>2. PICK h : h = Group(batches[c].members, FALSE, "Failed")
    BY Zenon
  <2>3. h.members = batches[c].members /\ h.finalizing = FALSE
    BY <2>2 DEF Group
  <2>4. h \in Groups
    BY Zenon, <2>1, <2>2, GroupTypes
  <2>5. QED  BY Zenon, <2>1, <2>2, <2>3, <2>4
<1>5. batches' \in [Batch -> Groups]
  BY Zenon, <1>2, <1>3, <1>4
<1>6. ASSUME NEW c \in Batch, c # GroupOf(u)
      PROVE  /\ batches'[c].finalizing = batches[c].finalizing
             /\ batches'[c].members = batches[c].members
             /\ good => batches'[c] = batches[c]
  <2>1. batches[c].finalizing \in BOOLEAN
    BY Zenon, GroupTypes DEF StoreTypes
  <2>2. batches'[c] = IF Waiting(c) /\ ~good THEN Group(batches[c].members, FALSE, "Failed")
                      ELSE batches[c]
    BY Zenon, <1>3, <1>6
  <2>3. QED  BY Zenon, <1>4, <2>1, <2>2 DEF Waiting
<1>7. batches'[GroupOf(u)].members = {}
  BY Zenon, <1>2, <1>3, Under
<1>8. /\ good => Go(u, "Finalized") /\ failed' = failed
      /\ ~good => up' = [up EXCEPT ![u] = Idle] /\ failed' = TRUE
  BY Zenon DEF FinishBatch
<1>9. QED  BY Zenon, <1>5, <1>6, <1>7, <1>8

-----------------------------------------------------------------------------
(* The kinds of step, by what they do to handlers, directory and groups.   *)

rest == <<entry, durable, batches, failed>>

\* A handler moves on with nothing but its place changed.
Moves(u, p) ==
  /\ Go(u, p) /\ UNCHANGED rest
  /\ \/ up[u].at \in {"Authorized", "Staging"} /\ p \in {"Staging", "Staged"}
     \/ up[u].at \in {"Staged", "Synced"} /\ p \in {"Synced", "Exists"} /\ ~batched
     \/ /\ up[u].at \in {"Exists", "Waiting"} /\ p = "Finalized"
        /\ entry[up[u].chunk] = up[u].bytes
        /\ batched => durable[up[u].chunk] = up[u].bytes
        /\ up[u].at = "Waiting" => batches[GroupOf(u)].result # "None"
     \/ up[u].at = "BatchSync" /\ p = "BatchPlace"
     \/ up[u].at = "BatchPlace" /\ p = "BatchBarrier" /\ up[u].todo = {}

Links(u) ==
  /\ up[u].at = "Synced" /\ entry[up[u].chunk] = None
  /\ entry' = [entry EXCEPT ![up[u].chunk] = up[u].bytes] /\ Go(u, "Linked")
  /\ UNCHANGED <<durable, batches, failed>>

Syncs(u) ==
  /\ up[u].at = "Linked" /\ durable' = entry /\ Go(u, "Finalized")
  /\ UNCHANGED <<entry, batches, failed>>

Ends(u) ==
  /\ up' = [up EXCEPT ![u] = Idle] /\ UNCHANGED <<entry, durable>>
  /\ batches' \in [Batch -> Groups]
  /\ \A b \in Batch : /\ batches'[b].finalizing = batches[b].finalizing
                      /\ batches'[b] = batches[b] \/ batches'[b].members = {}
  /\ failed' = TRUE \/ (failed' = failed /\ batches' = batches /\ up[u].at # "Waiting")

\* u is admitted to its group: no leader is there yet.
Admits(u) ==
  /\ up[u].at = "Staged" /\ batched /\ ~failed
  /\ ~batches[GroupOf(u)].finalizing /\ batches[GroupOf(u)].result = "None"
  /\ \A m \in batches[GroupOf(u)].members : m[2] # up[u].chunk
  /\ UNCHANGED <<entry, durable, failed>>

Joins(u) ==
  /\ Admits(u) /\ Go(u, "Waiting")
  /\ Cardinality(batches[GroupOf(u)].members \cup {File(u)}) # BatchSize
  /\ batches' = [batches EXCEPT ![GroupOf(u)] =
                   Group(batches[GroupOf(u)].members \cup {File(u)}, FALSE, "None")]

Completes(u) ==
  /\ Admits(u)
  /\ up' = [up EXCEPT ![u] =
       Handling("BatchSync", up[u].chunk, up[u].bytes,
                {<<m, up[m[1]].bytes>> : m \in batches[GroupOf(u)].members \cup {File(u)}})]
  /\ batches' = [batches EXCEPT ![GroupOf(u)] = Group({}, TRUE, "None")]

Aborts(u) == up[u].at \in Leader /\ FinishBatch(u, FALSE) /\ UNCHANGED <<entry, durable>>

Places(u, m) ==
  /\ up[u].at = "BatchPlace" /\ m \in up[u].todo /\ entry[m[1][2]] = None
  /\ entry' = [entry EXCEPT ![m[1][2]] = m[2]]
  /\ up' = [up EXCEPT ![u] = Handling("BatchPlace", up[u].chunk, up[u].bytes, up[u].todo \ {m})]
  /\ UNCHANGED <<durable, batches, failed>>

Seals(u) ==
  /\ up[u].at = "BatchBarrier" /\ durable' = entry /\ FinishBatch(u, TRUE) /\ UNCHANGED entry

Kind(u) ==
  \/ \E p \in Place : Moves(u, p)
  \/ Links(u) \/ Syncs(u) \/ Ends(u) \/ Joins(u) \/ Completes(u) \/ Aborts(u)
  \/ \E m \in up[u].todo : Places(u, m)
  \/ Seals(u)

\* Every step of a handler is of one of these kinds.
LEMMA StepKinds ==
  ASSUME CInv, NEW u \in Upload, UploadStep(u)
  PROVE  up[u].at # "Idle" /\ batched' = batched /\ powerLost' = powerLost
         /\ running /\ running' = running /\ Kind(u)
<1>1. StoreTypes /\ OneWay /\ MembersAreServed /\ DurableIsShown
  BY Zenon DEF CInv
<1>2. {"Staging", "Staged", "Synced", "Exists", "Finalized", "BatchPlace", "BatchBarrier"}
        \subseteq Place
  BY DEF Place, Alone, Grouped, Leader
<1>3. up[u].at # "Idle" /\ batched' = batched /\ powerLost' = powerLost
      /\ running /\ running' = running
  BY Zenon DEF UploadStep, begin_stage, stage_worker, sync_file, place_no_replace, fsync_dir,
     existing_final_facts, submit, batch_sync, batch_place, batch_barrier, await_batch,
     commit_chunk, At, Fixed
<1>4. ASSUME NEW files, EndUpload(u, files) PROVE Ends(u)
  <2>1. CASE batched
    BY Zenon, <1>1, <1>4, <2>1, EndFacts DEF Ends, EndUpload, fail
  <2>2. CASE ~batched
    BY Zenon, <1>1, <1>4, <2>2, EndFacts DEF Ends, OneWay, Grouped
  <2>3. QED  BY Zenon, <2>1, <2>2
<1>5. CASE begin_stage(u)
  <2>1. Moves(u, "Staging")
    BY Zenon, <1>5 DEF begin_stage, Moves, At, rest, coordinator
  <2>2. QED  BY Zenon, <1>2, <1>3, <2>1 DEF Kind
<1>6. CASE stage_worker(u)
  <2>1. Moves(u, "Staged") \/ EndUpload(u, {File(u)})
    BY Zenon, <1>6 DEF stage_worker, Moves, At, rest, coordinator, store
  <2>2. QED  BY Zenon, <1>2, <1>3, <1>4, <2>1 DEF Kind
<1>7. CASE sync_file(u)
  <2>1. Moves(u, "Synced") \/ EndUpload(u, {File(u)})
    BY Zenon, <1>7 DEF sync_file, Moves, At, rest, coordinator, store
  <2>2. QED  BY Zenon, <1>2, <1>3, <1>4, <2>1 DEF Kind
<1>8. CASE place_no_replace(u)
  <2>1. ~batched
    BY Zenon, <1>1, <1>8 DEF place_no_replace, At, OneWay, Alone
  <2>2. Links(u) \/ Moves(u, "Exists")
    BY Zenon, <1>8, <2>1 DEF place_no_replace, Links, Moves, At, rest, coordinator
  <2>3. QED  BY Zenon, <1>2, <1>3, <2>2 DEF Kind
<1>9. CASE fsync_dir(u)
  <2>1. Syncs(u) \/ EndUpload(u, {File(u)})
    BY Zenon, <1>9 DEF fsync_dir, Syncs, At, coordinator
  <2>2. QED  BY Zenon, <1>3, <1>4, <2>1 DEF Kind
<1>10. CASE existing_final_facts(u)
  <2>1. ~batched
    BY Zenon, <1>1, <1>10 DEF existing_final_facts, At, OneWay, Alone
  <2>2. Moves(u, "Finalized") \/ EndUpload(u, {File(u)})
    BY Zenon, <1>10, <2>1 DEF existing_final_facts, Moves, At, rest, coordinator
  <2>3. QED  BY Zenon, <1>2, <1>3, <1>4, <2>2 DEF Kind
<1>11. CASE submit(u)
  <2>1. EndUpload(u, {File(u)}) \/ Joins(u) \/ Completes(u)
    BY Zenon, <1>11 DEF submit, Joins, Completes, Admits, At, store
  <2>2. QED  BY Zenon, <1>3, <1>4, <2>1 DEF Kind
<1>12. CASE batch_sync(u)
  <2>1. Moves(u, "BatchPlace") \/ Aborts(u)
    BY Zenon, <1>12 DEF batch_sync, Moves, Aborts, At, rest, coordinator, store, Leader
  <2>2. QED  BY Zenon, <1>2, <1>3, <2>1 DEF Kind
<1>13. CASE batch_place(u)
  <2>1. Moves(u, "BatchBarrier") \/ Aborts(u) \/ \E m \in up[u].todo : Places(u, m)
    BY Zenon, <1>13 DEF batch_place, Moves, Aborts, Places, At, rest, coordinator, Leader
  <2>2. QED  BY Zenon, <1>2, <1>3, <2>1 DEF Kind
<1>14. CASE batch_barrier(u)
  <2>1. Seals(u) \/ Aborts(u)
    BY Zenon, <1>14 DEF batch_barrier, Seals, Aborts, At, store, Leader
  <2>2. QED  BY Zenon, <1>3, <2>1 DEF Kind
<1>15. CASE await_batch(u)
  <2>1. EndUpload(u, {}) \/ (Go(u, "Finalized") /\ UNCHANGED rest /\ ~failed
                             /\ up[u].at = "Waiting" /\ batches[GroupOf(u)].result = "Ok")
    BY Zenon, <1>15 DEF await_batch, At, rest, coordinator, store
  <2>2. ASSUME Go(u, "Finalized"), UNCHANGED rest, ~failed, up[u].at = "Waiting",
               batches[GroupOf(u)].result = "Ok"
        PROVE  Moves(u, "Finalized")
    <3>1. "Ok" # "None"
      OBVIOUS
    <3>2. durable[up[u].chunk] = up[u].bytes
      BY Zenon, <1>1, <2>2, <3>1 DEF MembersAreServed
    <3>3. entry[up[u].chunk] = up[u].bytes
      BY Zenon, <1>1, <1>3, <3>2, Under DEF DurableIsShown
    <3>4. QED  BY Zenon, <2>2, <3>1, <3>2, <3>3 DEF Moves
  <2>3. QED  BY Zenon, <1>2, <1>3, <1>4, <2>1, <2>2 DEF Kind
<1>16. CASE commit_chunk(u)
  <2>1. \/ EndUpload(u, {})
        \/ /\ up' = [up EXCEPT ![u] = Idle] /\ UNCHANGED <<entry, durable, batches, failed>>
           /\ up[u].at = "Finalized"
    BY Zenon, <1>16 DEF commit_chunk, store, coordinator, At
  <2>2. ASSUME up' = [up EXCEPT ![u] = Idle], UNCHANGED <<entry, durable, batches, failed>>,
               up[u].at = "Finalized"
        PROVE  Ends(u)
    BY Zenon, <1>1, <2>2 DEF Ends, StoreTypes
  <2>3. QED  BY Zenon, <1>3, <1>4, <2>1, <2>2 DEF Kind
<1>17. QED
  BY Zenon, <1>5, <1>6, <1>7, <1>8, <1>9, <1>10, <1>11, <1>12, <1>13, <1>14, <1>15, <1>16
     DEF UploadStep

\* The leader's members are uploads that wait, with the bytes they have.
LEMMA CompleteFacts ==
  ASSUME CInv, NEW u \in Upload, up[u].at # "Idle", Completes(u)
  PROVE  /\ up' \in [Upload -> Handlers \cup {Idle}]
         /\ up'[u].at = "BatchSync" /\ up'[u].chunk = up[u].chunk /\ up'[u].bytes = up[u].bytes
         /\ up'[u].todo =
              {<<m, up[m[1]].bytes>> : m \in batches[GroupOf(u)].members \cup {File(u)}}
         /\ \A x \in Upload \ {u} : up'[x] = up[x]
<1>1. StoreTypes /\ MembersWait
  BY Zenon DEF CInv
<1>2. PICK todo :
        todo = {<<m, up[m[1]].bytes>> : m \in batches[GroupOf(u)].members \cup {File(u)}}
  BY Zenon
<1>3. PICK h : h = Handling("BatchSync", up[u].chunk, up[u].bytes, todo)
  BY Zenon
<1>4. GroupOf(u) \in Batch /\ File(u) \in Files
  BY Zenon, <1>1, Under
<1>5. ASSUME NEW m \in batches[GroupOf(u)].members \cup {File(u)}
      PROVE  <<m, up[m[1]].bytes>> \in Files \X Content
  <2>1. CASE m = File(u)
    <3>1. m[1] = u
      BY Zenon, <2>1 DEF File
    <3>2. QED  BY Zenon, <1>1, <1>4, <2>1, <3>1, Under
  <2>2. CASE m \in batches[GroupOf(u)].members
    <3>1. m \in Files
      BY Zenon, <1>1, <1>4, <2>2, GroupTypes DEF StoreTypes
    <3>2. m[1] \in Upload
      BY <3>1 DEF Files
    <3>3. up[m[1]].at = "Waiting"
      BY Zenon, <1>1, <1>4, <2>2 DEF MembersWait, Completes, Admits
    <3>4. QED  BY Zenon, <1>1, <3>1, <3>2, <3>3, Under
  <2>3. QED  BY Zenon, <1>5, <2>1, <2>2
<1>6. todo \in SUBSET (Files \X Content)
  BY Zenon, <1>2, <1>5
<1>7. h \in Handlers
  <2>1. "BatchSync" \in Place
    BY DEF Place, Grouped, Leader
  <2>2. QED  BY Zenon, <1>1, <1>3, <1>6, <2>1, HandlerTypes, Under
<1>8. up' = [up EXCEPT ![u] = h]
  BY Zenon, <1>2, <1>3 DEF Completes
<1>9. up \in [Upload -> Handlers \cup {Idle}]
  BY Zenon, <1>1 DEF StoreTypes
<1>10. up' \in [Upload -> Handlers \cup {Idle}] /\ up'[u] = h
       /\ \A x \in Upload \ {u} : up'[x] = up[x]
  BY Zenon, <1>7, <1>8, <1>9
<1>11. h.at = "BatchSync" /\ h.chunk = up[u].chunk /\ h.bytes = up[u].bytes /\ h.todo = todo
  BY <1>3 DEF Handling
<1>12. QED  BY Zenon, <1>2, <1>10, <1>11

\* The leader places one member and has the others still to place.
LEMMA PlaceFacts ==
  ASSUME CInv, NEW u \in Upload, up[u].at # "Idle", NEW m \in up[u].todo, Places(u, m)
  PROVE  /\ up' \in [Upload -> Handlers \cup {Idle}]
         /\ up'[u].at = "BatchPlace" /\ up'[u].chunk = up[u].chunk /\ up'[u].bytes = up[u].bytes
         /\ up'[u].todo = up[u].todo \ {m}
         /\ \A x \in Upload \ {u} : up'[x] = up[x]
         /\ m[1][2] \in Chunk /\ m[2] \in Content
<1>1. StoreTypes
  BY Zenon DEF CInv
<1>2. PICK h : h = Handling("BatchPlace", up[u].chunk, up[u].bytes, up[u].todo \ {m})
  BY Zenon
<1>3. h \in Handlers
  <2>1. "BatchPlace" \in Place
    BY DEF Place, Grouped, Leader
  <2>2. up[u].todo \ {m} \in SUBSET (Files \X Content)
    BY Zenon, <1>1, Under
  <2>3. QED  BY Zenon, <1>1, <1>2, <2>1, <2>2, HandlerTypes, Under
<1>4. up' = [up EXCEPT ![u] = h]
  BY Zenon, <1>2 DEF Places
<1>5. up \in [Upload -> Handlers \cup {Idle}]
  BY Zenon, <1>1 DEF StoreTypes
<1>6. up' \in [Upload -> Handlers \cup {Idle}] /\ up'[u] = h
      /\ \A x \in Upload \ {u} : up'[x] = up[x]
  BY Zenon, <1>3, <1>4, <1>5
<1>7. h.at = "BatchPlace" /\ h.chunk = up[u].chunk /\ h.bytes = up[u].bytes
      /\ h.todo = up[u].todo \ {m}
  BY <1>2 DEF Handling
<1>8. m[1][2] \in Chunk /\ m[2] \in Content
  <2>1. m \in Files \X Content
    BY Zenon, <1>1, Under
  <2>2. QED  BY <2>1 DEF Files
<1>9. QED  BY Zenon, <1>6, <1>7, <1>8

\* What every kind of handler step does: it changes no other handler, takes no
\* entry away and replaces none, and what is durable is shown.
LEMMA KindFacts ==
  ASSUME CInv, NEW u \in Upload, up[u].at # "Idle", Kind(u)
  PROVE  /\ up' \in [Upload -> Handlers \cup {Idle}]
         /\ \A x \in Upload \ {u} : up'[x] = up[x]
         /\ up'[u].at = "Idle" \/ (up'[u].chunk = up[u].chunk /\ up'[u].bytes = up[u].bytes)
         /\ entry' \in [Chunk -> MaybeContent] /\ durable' \in [Chunk -> MaybeContent]
         /\ \A i \in Chunk : entry[i] # None => entry'[i] = entry[i]
         /\ \A i \in Chunk : durable[i] # None => durable'[i] = durable[i]
         /\ DurableIsShown'
         /\ batches' \in [Batch -> Groups] /\ failed' \in BOOLEAN
<1> DEFINE Goal == /\ up' \in [Upload -> Handlers \cup {Idle}]
                   /\ \A x \in Upload \ {u} : up'[x] = up[x]
                   /\ \/ up'[u].at = "Idle"
                      \/ up'[u].chunk = up[u].chunk /\ up'[u].bytes = up[u].bytes
<1>1. StoreTypes /\ DurableIsShown
  BY Zenon DEF CInv
<1>2. {"Linked", "Finalized", "Waiting"} \subseteq Place
  BY DEF Place, Alone, Grouped
<1>3. Goal
  <2>1. ASSUME NEW p \in Place, Go(u, p) PROVE Goal
    BY Zenon, <1>1, <2>1, GoFacts
  <2>2. CASE Ends(u)
    BY Zenon, <1>1, <2>2, IdleFacts DEF Ends
  <2>3. CASE Completes(u)
    BY Zenon, <2>3, CompleteFacts
  <2>4. CASE \E m \in up[u].todo : Places(u, m)
    BY Zenon, <2>4, PlaceFacts
  <2>5. ASSUME NEW ok \in BOOLEAN, FinishBatch(u, ok) PROVE Goal
    BY Zenon, <1>1, <1>2, <2>1, <2>5, FinishFacts, IdleFacts
  <2>6. CASE Aborts(u) \/ Seals(u)
    BY Zenon, <2>5, <2>6 DEF Aborts, Seals
  <2>7. QED
    BY Zenon, <1>2, <2>1, <2>2, <2>3, <2>4, <2>6 DEF Kind, Moves, Links, Syncs, Joins
<1>4. /\ entry' \in [Chunk -> MaybeContent]
      /\ \A i \in Chunk : entry[i] # None => entry'[i] = entry[i]
  <2>1. ASSUME NEW i \in Chunk, NEW v \in Content, entry[i] = None,
               entry' = [entry EXCEPT ![i] = v]
        PROVE  /\ entry' \in [Chunk -> MaybeContent]
               /\ \A k \in Chunk : entry[k] # None => entry'[k] = entry[k]
    BY Zenon, <1>1, <2>1 DEF StoreTypes, MaybeContent
  <2>2. CASE Links(u)
    BY Zenon, <1>1, <2>1, <2>2, Under DEF Links
  <2>3. CASE \E m \in up[u].todo : Places(u, m)
    BY ZenonT(40), <2>1, <2>3, PlaceFacts DEF Places
  <2>4. CASE entry' = entry
    BY Zenon, <1>1, <2>4 DEF StoreTypes
  <2>5. QED
    BY Zenon, <2>2, <2>3, <2>4
       DEF Kind, Moves, rest, Syncs, Ends, Joins, Completes, Admits, Aborts, Seals
<1>5. durable' = durable \/ (durable' = entry /\ entry' = entry)
  BY Zenon DEF Kind, Moves, rest, Links, Syncs, Ends, Joins, Completes, Admits, Aborts, Places,
     Seals
<1>6. /\ durable' \in [Chunk -> MaybeContent] /\ DurableIsShown'
      /\ \A i \in Chunk : durable[i] # None => durable'[i] = durable[i]
  BY Zenon, <1>1, <1>4, <1>5 DEF StoreTypes, DurableIsShown
<1>7. batches' \in [Batch -> Groups]
  <2>1. ASSUME NEW g \in Groups, batches' = [batches EXCEPT ![GroupOf(u)] = g]
        PROVE  batches' \in [Batch -> Groups]
    BY Zenon, <1>1, <2>1 DEF StoreTypes
  <2>2. CASE Joins(u)
    <3>1. batches[GroupOf(u)].members \cup {File(u)} \in SUBSET Files
      BY Zenon, <1>1, Under, GroupTypes DEF StoreTypes
    <3>2. Group(batches[GroupOf(u)].members \cup {File(u)}, FALSE, "None") \in Groups
      BY Zenon, <3>1, GroupTypes
    <3>3. QED  BY Zenon, <2>1, <2>2, <3>2 DEF Joins
  <2>3. CASE Completes(u)
    <3>1. Group({}, TRUE, "None") \in Groups
      BY Zenon, GroupTypes
    <3>2. QED  BY Zenon, <2>1, <2>3, <3>1 DEF Completes
  <2>4. CASE Aborts(u) \/ Seals(u)
    BY Zenon, <1>1, <2>4, FinishFacts DEF Aborts, Seals
  <2>5. CASE batches' = batches
    BY Zenon, <1>1, <2>5 DEF StoreTypes
  <2>6. QED
    BY Zenon, <2>2, <2>3, <2>4, <2>5 DEF Kind, Moves, rest, Links, Syncs, Ends, Places
<1>8. failed' \in BOOLEAN
  <2>1. failed' = failed \/ failed' = TRUE \/ Aborts(u) \/ Seals(u)
    BY Zenon DEF Kind, Moves, rest, Links, Syncs, Ends, Joins, Completes, Admits, Places
  <2>2. CASE Aborts(u) \/ Seals(u)
    BY Zenon, <1>1, <2>2, FinishFacts DEF Aborts, Seals, StoreTypes
  <2>3. QED  BY Zenon, <1>1, <2>1, <2>2 DEF StoreTypes
<1>9. QED  BY Zenon, <1>3, <1>4, <1>6, <1>7, <1>8

\* Where a handler is after its step, and what is true there.
LEMMA After ==
  ASSUME CInv, NEW u \in Upload, up[u].at # "Idle", Kind(u)
  PROVE  \/ up'[u].at \in {"Idle", "Staging", "Staged"}
         \/ /\ up'[u].at \in Alone /\ ~batched
            /\ up'[u].at = "Linked" => entry'[up[u].chunk] = up[u].bytes
         \/ /\ up'[u].at = "Finalized" /\ entry'[up[u].chunk] = up[u].bytes
            /\ batched => durable'[up[u].chunk] = up[u].bytes
         \/ up'[u].at \in Grouped /\ batched
<1> DEFINE Goal ==
      \/ up'[u].at \in {"Idle", "Staging", "Staged"}
      \/ /\ up'[u].at \in Alone /\ ~batched
         /\ up'[u].at = "Linked" => entry'[up[u].chunk] = up[u].bytes
      \/ /\ up'[u].at = "Finalized" /\ entry'[up[u].chunk] = up[u].bytes
         /\ batched => durable'[up[u].chunk] = up[u].bytes
      \/ up'[u].at \in Grouped /\ batched
<1>1. StoreTypes /\ OneWay /\ Linked /\ LeadersLead /\ BatchIsDurable
  BY Zenon DEF CInv
<1>2. up[u].chunk \in Chunk /\ up[u].bytes \in Content /\ up[u].bytes # None
  BY Zenon, <1>1, Under
<1>3. {"Linked", "Finalized", "Waiting"} \subseteq Place
  BY DEF Place, Alone, Grouped
<1>4. ASSUME NEW p \in Place, Moves(u, p) PROVE Goal
  <2>1. up'[u].at = p /\ entry' = entry /\ durable' = durable
    BY Zenon, <1>1, <1>4, GoFacts DEF Moves, rest
  <2>2. up[u].at \in {"BatchSync", "BatchPlace"} => batched
    BY Zenon, <1>1 DEF OneWay, Grouped, Leader
  <2>3. "Synced" # "Linked" /\ "Exists" # "Linked"
    OBVIOUS
  <2>4. QED  BY Zenon, <1>4, <2>1, <2>2, <2>3 DEF Moves, Alone, Grouped, Leader
<1>5. CASE Links(u)
  <2>1. up'[u].at = "Linked"
    BY Zenon, <1>1, <1>3, <1>5, GoFacts DEF Links
  <2>2. ~batched
    BY Zenon, <1>1, <1>5 DEF Links, OneWay, Alone
  <2>3. entry'[up[u].chunk] = up[u].bytes
    BY Zenon, <1>1, <1>2, <1>5 DEF Links, StoreTypes
  <2>4. QED  BY Zenon, <2>1, <2>2, <2>3 DEF Alone
<1>6. CASE Syncs(u)
  <2>1. up'[u].at = "Finalized"
    BY Zenon, <1>1, <1>3, <1>6, GoFacts DEF Syncs
  <2>2. entry[up[u].chunk] = up[u].bytes
    BY Zenon, <1>1, <1>6 DEF Syncs, Linked
  <2>3. QED  BY Zenon, <1>6, <2>1, <2>2 DEF Syncs
<1>7. CASE Ends(u)
  BY Zenon, <1>1, <1>7, IdleFacts DEF Ends
<1>8. CASE Joins(u)
  BY Zenon, <1>1, <1>3, <1>8, GoFacts DEF Joins, Admits, Grouped
<1>9. CASE Completes(u)
  BY Zenon, <1>9, CompleteFacts DEF Completes, Admits, Grouped, Leader
<1>10. ASSUME NEW m \in up[u].todo, Places(u, m) PROVE Goal
  <2>1. up'[u].at = "BatchPlace"
    BY Zenon, <1>10, PlaceFacts
  <2>2. batched
    BY Zenon, <1>1, <1>10 DEF Places, OneWay, Grouped, Leader
  <2>3. QED  BY Zenon, <2>1, <2>2 DEF Grouped, Leader
<1>11. CASE Aborts(u)
  BY Zenon, <1>1, <1>11, FinishFacts, IdleFacts DEF Aborts
<1>12. CASE Seals(u)
  <2>1. up'[u].at = "Idle" \/ up'[u].at = "Finalized"
    BY Zenon, <1>1, <1>3, <1>12, FinishFacts, IdleFacts, GoFacts DEF Seals
  <2>2. entry[up[u].chunk] = up[u].bytes
    BY Zenon, <1>1, <1>12 DEF Seals, LeadersLead, Served, Leader
  <2>3. QED  BY Zenon, <1>12, <2>1, <2>2 DEF Seals
<1>13. QED
  BY Zenon, <1>4, <1>5, <1>6, <1>7, <1>8, <1>9, <1>10, <1>11, <1>12 DEF Kind

\* So uploads are finalized one way, and what is finalized is in the directory
\* and, for groups, durable.
LEMMA KindKeepsPlaces ==
  ASSUME CInv, NEW u \in Upload, up[u].at # "Idle", Kind(u), batched' = batched
  PROVE  OneWay' /\ Linked' /\ BatchIsDurable'
<1>1. StoreTypes /\ OneWay /\ Linked /\ BatchIsDurable
  BY Zenon DEF CInv
<1>2. ASSUME NEW x \in Upload, x # u
      PROVE  /\ up'[x] = up[x]
             /\ up[x].at # "Idle" =>
                  /\ entry[up[x].chunk] = up[x].bytes => entry'[up[x].chunk] = up[x].bytes
                  /\ durable[up[x].chunk] = up[x].bytes => durable'[up[x].chunk] = up[x].bytes
  BY Zenon, <1>1, <1>2, KindFacts, Under
<1>3. OneWay'
  <2>1. \A p \in {"Idle", "Staging", "Staged", "Finalized"} : p \notin Alone /\ p \notin Grouped
    BY DEF Alone, Grouped, Leader
  <2>2. \A p : ~(p \in Alone /\ p \in Grouped)
    BY DEF Alone, Grouped, Leader
  <2>3. IF batched THEN up'[u].at \notin Alone ELSE up'[u].at \notin Grouped
    BY Zenon, <2>1, <2>2, After
  <2>4. QED  BY Zenon, <1>1, <1>2, <2>3 DEF OneWay
<1>4. /\ up'[u].at = "Idle" \/ (up'[u].chunk = up[u].chunk /\ up'[u].bytes = up[u].bytes)
      /\ up'[u].at \in {"Linked", "Finalized"} => entry'[up[u].chunk] = up[u].bytes
      /\ up'[u].at = "Finalized" /\ batched => durable'[up[u].chunk] = up[u].bytes
  <2>1. \A p \in {"Linked", "Finalized"} :
          p \notin {"Idle", "Staging", "Staged"} /\ p \notin Grouped
    BY DEF Grouped, Leader
  <2>2. "Finalized" \notin Alone
    BY DEF Alone
  <2>3. up'[u].at = "Idle" \/ (up'[u].chunk = up[u].chunk /\ up'[u].bytes = up[u].bytes)
    BY Zenon, KindFacts
  <2>4. QED  BY Zenon, <2>1, <2>2, <2>3, After
<1>5. "Linked" # "Idle" /\ "Finalized" # "Idle"
  OBVIOUS
<1>6. Linked'
  BY Zenon, <1>1, <1>2, <1>4, <1>5 DEF Linked
<1>7. BatchIsDurable'
  BY Zenon, <1>1, <1>2, <1>4, <1>5 DEF BatchIsDurable
<1>8. QED  BY Zenon, <1>3, <1>6, <1>7

-----------------------------------------------------------------------------
(* Groups and their leaders.                                               *)

\* What a leader was to place it has still to place, or it has placed it.
LEMMA ServedStays ==
  ASSUME CInv, NEW u \in Upload, up[u].at # "Idle", Kind(u),
         NEW w \in Upload, up[w].at \in Leader, up'[w].at \in Leader,
         NEW x \in Upload, up[x].at # "Idle",
         up'[x].chunk = up[x].chunk, up'[x].bytes = up[x].bytes, Served(w, x)
  PROVE  Served(w, x)'
<1>1. StoreTypes
  BY Zenon DEF CInv
<1>2. up[x].chunk \in Chunk /\ up[x].bytes # None
  BY Zenon, <1>1, Under
<1>3. CASE entry[up[x].chunk] = up[x].bytes
  BY Zenon, <1>2, <1>3, KindFacts DEF Served
<1>4. CASE <<File(x), up[x].bytes>> \in up[w].todo
  <2>1. File(x)' = File(x)
    BY Zenon DEF File
  <2>2. CASE w # u
    <3>1. up'[w] = up[w]
      BY Zenon, <2>2, KindFacts
    <3>2. QED  BY Zenon, <1>4, <2>1, <3>1 DEF Served
  <2>3. ASSUME NEW m \in up[u].todo, Places(u, m), w = u PROVE Served(w, x)'
    <3>1. CASE m = <<File(x), up[x].bytes>>
      <4>1. m[1][2] = up[x].chunk /\ m[2] = up[x].bytes
        BY <3>1 DEF File
      <4>2. entry'[up[x].chunk] = up[x].bytes
        BY Zenon, <1>1, <1>2, <2>3, <4>1 DEF Places, StoreTypes
      <4>3. QED  BY Zenon, <4>2 DEF Served
    <3>2. CASE m # <<File(x), up[x].bytes>>
      <4>1. up'[w].todo = up[w].todo \ {m}
        BY Zenon, <2>3, PlaceFacts
      <4>2. <<File(x), up[x].bytes>> \in up'[w].todo
        BY Zenon, <1>4, <3>2, <4>1
      <4>3. QED  BY Zenon, <2>1, <4>2 DEF Served
    <3>3. QED  BY Zenon, <3>1, <3>2
  <2>4. ASSUME NEW p \in Place, Moves(u, p), w = u PROVE Served(w, x)'
    <3>1. up'[w].todo = up[w].todo
      BY Zenon, <1>1, <2>4, GoFacts DEF Moves
    <3>2. QED  BY Zenon, <1>4, <2>1, <3>1 DEF Served
  <2>5. ASSUME w = u PROVE (\E p \in Place : Moves(u, p)) \/ \E m \in up[u].todo : Places(u, m)
    <3>1. up'[u].at # "Idle" /\ up'[u].at # "Finalized" /\ up[u].at # "Synced"
          /\ up[u].at # "Linked" /\ up[u].at # "Staged"
      BY <2>5 DEF Leader
    <3>2. "Finalized" \in Place
      BY DEF Place
    <3>3. ~Links(u) /\ ~Syncs(u) /\ ~Joins(u) /\ ~Completes(u)
      BY Zenon, <3>1 DEF Links, Syncs, Joins, Completes, Admits
    <3>4. ~Ends(u)
      BY Zenon, <1>1, <3>1, IdleFacts DEF Ends
    <3>5. ~Aborts(u) /\ ~Seals(u)
      BY Zenon, <1>1, <3>1, <3>2, IdleFacts, GoFacts, FinishFacts DEF Aborts, Seals
    <3>6. QED  BY Zenon, <3>3, <3>4, <3>5 DEF Kind
  <2>6. QED  BY Zenon, <2>2, <2>3, <2>4, <2>5
<1>5. QED  BY Zenon, <1>3, <1>4 DEF Served

\* A handler that leads led before, with the groups as they are, or has just
\* completed its group.
LEMMA WhoLeads ==
  ASSUME CInv, NEW u \in Upload, up[u].at # "Idle", Kind(u), up'[u].at \in Leader
  PROVE  \/ up[u].at \in Leader /\ batches' = batches /\ failed' = failed
         \/ Completes(u)
<1>1. StoreTypes
  BY Zenon DEF CInv
<1>2. {"Linked", "Finalized", "Waiting"} \subseteq Place
  BY DEF Place, Alone, Grouped
<1>3. up'[u].at \notin {"Idle", "Finalized", "Linked", "Waiting", "Staging", "Staged", "Synced",
                        "Exists"}
  BY DEF Leader
<1>4. ~Links(u) /\ ~Syncs(u) /\ ~Joins(u)
  BY Zenon, <1>1, <1>2, <1>3, GoFacts DEF Links, Syncs, Joins
<1>5. ~Ends(u)
  BY Zenon, <1>1, <1>3, IdleFacts DEF Ends
<1>6. ~Aborts(u) /\ ~Seals(u)
  BY Zenon, <1>1, <1>2, <1>3, IdleFacts, GoFacts, FinishFacts DEF Aborts, Seals
<1>7. ASSUME NEW p \in Place, Moves(u, p)
      PROVE  up[u].at \in Leader /\ batches' = batches /\ failed' = failed
  <2>1. up'[u].at = p
    BY Zenon, <1>1, <1>7, GoFacts DEF Moves
  <2>2. QED  BY Zenon, <1>3, <1>7, <2>1 DEF Moves, rest, Leader
<1>8. ASSUME NEW m \in up[u].todo, Places(u, m)
      PROVE  up[u].at \in Leader /\ batches' = batches /\ failed' = failed
  BY Zenon, <1>8 DEF Places, Leader
<1>9. QED  BY Zenon, <1>4, <1>5, <1>6, <1>7, <1>8 DEF Kind

\* No step of another handler ends the finalization of a group.
LEMMA FinalizingStays ==
  ASSUME CInv, NEW u \in Upload, up[u].at # "Idle", Kind(u),
         NEW w \in Upload, w # u, up[w].at \in Leader
  PROVE  /\ up'[w] = up[w] /\ GroupOf(w)' = GroupOf(w)
         /\ batches'[GroupOf(w)].finalizing
         /\ ~Leads(u, GroupOf(w)) /\ ~Leads(u, GroupOf(w))'
<1>1. StoreTypes /\ LeadersLead
  BY Zenon DEF CInv
<1>2. up'[w] = up[w]
  BY Zenon, KindFacts
<1>3. GroupOf(w)' = GroupOf(w)
  BY Zenon, <1>2 DEF GroupOf
<1>4. batches[GroupOf(w)].finalizing /\ ~Leads(u, GroupOf(w))
  BY Zenon, <1>1 DEF LeadersLead
<1>5. GroupOf(w) \in Batch /\ GroupOf(u) \in Batch
  <2>1. up[w].at # "Idle"
    BY DEF Leader
  <2>2. QED  BY Zenon, <1>1, <2>1, Under
<1>6. batches'[GroupOf(w)].finalizing
  <2>1. CASE batches' = batches
    BY Zenon, <1>4, <2>1
  <2>2. CASE Ends(u)
    BY Zenon, <1>4, <1>5, <2>2 DEF Ends
  <2>3. CASE Joins(u) \/ Completes(u)
    <3>1. GroupOf(w) # GroupOf(u)
      BY Zenon, <1>4, <2>3 DEF Joins, Completes, Admits
    <3>2. QED  BY Zenon, <1>1, <1>4, <1>5, <2>3, <3>1 DEF Joins, Completes, StoreTypes
  <2>4. CASE Aborts(u) \/ Seals(u)
    <3>1. GroupOf(w) # GroupOf(u)
      BY Zenon, <1>4, <2>4 DEF Aborts, Seals, Leads, Leader
    <3>2. QED  BY Zenon, <1>1, <1>4, <1>5, <2>4, <3>1, FinishFacts DEF Aborts, Seals
  <2>5. QED
    BY Zenon, <2>1, <2>2, <2>3, <2>4 DEF Kind, Moves, rest, Links, Syncs, Places
<1>7. ASSUME Leads(u, GroupOf(w))' PROVE FALSE
  <2>1. up'[u].at \in Leader /\ GroupOf(u)' = GroupOf(w)
    BY Zenon, <1>3, <1>7 DEF Leads
  <2>2. GroupOf(u)' = GroupOf(u)
    <3>1. up'[u].at # "Idle"
      BY <2>1 DEF Leader
    <3>2. QED  BY Zenon, <3>1, KindFacts DEF GroupOf
  <2>3. CASE Completes(u)
    BY Zenon, <1>4, <2>1, <2>2, <2>3 DEF Completes, Admits
  <2>4. CASE up[u].at \in Leader
    BY Zenon, <1>4, <2>1, <2>2, <2>4 DEF Leads
  <2>5. QED  BY Zenon, <2>1, <2>3, <2>4, WhoLeads
<1>8. QED  BY Zenon, <1>2, <1>3, <1>4, <1>6, <1>7

\* A group that is finalized keeps its one leader.
LEMMA KindKeepsLeaders ==
  ASSUME CInv, NEW u \in Upload, up[u].at # "Idle", Kind(u)
  PROVE  LeadersLead'
<1>1. StoreTypes /\ LeadersLead
  BY Zenon DEF CInv
<1> SUFFICES ASSUME NEW w \in Upload, up'[w].at \in Leader
             PROVE  /\ batches'[GroupOf(w)'].finalizing
                    /\ Served(w, w)'
                    /\ up'[w].at = "BatchBarrier" => up'[w].todo = {}
                    /\ \A v \in Upload : Leads(v, GroupOf(w))' => v = w
  BY Zenon DEF LeadersLead
<1>2. up'[w].at # "Idle" /\ \A p \in Leader : p # "Idle"
  BY DEF Leader
<1>3. CASE w # u
  <2>1. up'[w] = up[w] /\ up[w].at \in Leader
    BY Zenon, <1>3, KindFacts
  <2>2. /\ GroupOf(w)' = GroupOf(w) /\ batches'[GroupOf(w)].finalizing
        /\ ~Leads(u, GroupOf(w))'
    BY Zenon, <1>3, <2>1, FinalizingStays
  <2>3. Served(w, w)'
    BY Zenon, <1>1, <1>2, <2>1, ServedStays DEF LeadersLead
  <2>4. ASSUME NEW v \in Upload, Leads(v, GroupOf(w))' PROVE v = w
    <3>1. v # u
      BY Zenon, <2>2, <2>4
    <3>2. up'[v] = up[v]
      BY Zenon, <3>1, KindFacts
    <3>3. Leads(v, GroupOf(w))
      BY Zenon, <2>2, <2>4, <3>2 DEF Leads, GroupOf
    <3>4. QED  BY Zenon, <1>1, <2>1, <3>3 DEF LeadersLead
  <2>5. up'[w].at = "BatchBarrier" => up'[w].todo = {}
    BY Zenon, <1>1, <2>1 DEF LeadersLead
  <2>6. QED  BY Zenon, <2>2, <2>3, <2>4, <2>5
<1>4. CASE w = u
  <2>1. up'[u].chunk = up[u].chunk /\ up'[u].bytes = up[u].bytes
    BY Zenon, <1>2, <1>4, KindFacts
  <2>2. GroupOf(u)' = GroupOf(u) /\ File(u)' = File(u)
    BY Zenon, <2>1 DEF GroupOf, File
  <2>3. ASSUME NEW v \in Upload, Leads(v, GroupOf(w))' PROVE v = w
    <3>1. SUFFICES ASSUME v # u PROVE FALSE
      BY Zenon, <1>4
    <3>2. up'[v] = up[v] /\ up[v].at \in Leader /\ GroupOf(v) = GroupOf(u)
      BY Zenon, <1>4, <2>2, <2>3, <3>1, KindFacts DEF Leads, GroupOf
    <3>3. ~Leads(u, GroupOf(v))'
      BY Zenon, <3>1, <3>2, FinalizingStays
    <3>4. Leads(u, GroupOf(v))'
      <4>1. GroupOf(v)' = GroupOf(v)
        BY Zenon, <3>2 DEF GroupOf
      <4>2. QED  BY Zenon, <1>4, <2>2, <3>2, <4>1 DEF Leads
    <3>5. QED  BY Zenon, <3>3, <3>4
  <2>4. CASE Completes(u)
    <3>1. batches'[GroupOf(u)].finalizing
      <4>1. Group({}, TRUE, "None").finalizing = TRUE
        BY DEF Group
      <4>2. GroupOf(u) \in Batch
        BY Zenon, <1>1, Under
      <4>3. QED  BY Zenon, <1>1, <2>4, <4>1, <4>2 DEF Completes, StoreTypes
    <3>2. Served(u, u)'
      <4>1. File(u)[1] = u
        BY DEF File
      <4>2. <<File(u), up[File(u)[1]].bytes>> \in up'[u].todo
        BY Zenon, <2>4, CompleteFacts
      <4>3. QED  BY Zenon, <2>1, <2>2, <4>1, <4>2 DEF Served
    <3>3. up'[u].at # "BatchBarrier"
      BY Zenon, <2>4, CompleteFacts
    <3>4. QED  BY Zenon, <1>4, <2>2, <2>3, <3>1, <3>2, <3>3
  <2>5. CASE up[u].at \in Leader /\ batches' = batches
    <3>1. batches'[GroupOf(u)].finalizing
      BY Zenon, <1>1, <2>5 DEF LeadersLead
    <3>2. Served(u, u)'
      BY Zenon, <1>1, <1>2, <1>4, <2>1, <2>5, ServedStays DEF LeadersLead
    <3>3. up'[u].at = "BatchBarrier" => up'[u].todo = {}
      <4>1. ASSUME NEW p \in Place, Moves(u, p), p = "BatchBarrier" PROVE up'[u].todo = {}
        BY Zenon, <1>1, <4>1, GoFacts DEF Moves
      <4>2. ASSUME NEW p \in Place, Moves(u, p) PROVE up'[u].at = p
        BY Zenon, <1>1, <4>2, GoFacts DEF Moves
      <4>3. ASSUME NEW m \in up[u].todo, Places(u, m) PROVE up'[u].at # "BatchBarrier"
        BY Zenon, <4>3, PlaceFacts
      <4>4. ~Links(u) /\ ~Syncs(u) /\ ~Joins(u) /\ ~Completes(u)
        BY Zenon, <2>5 DEF Links, Syncs, Joins, Completes, Admits, Leader
      <4>5. ~Ends(u)
        BY Zenon, <1>1, <1>2, <1>4, IdleFacts DEF Ends
      <4>6. ASSUME Aborts(u) \/ Seals(u) PROVE up'[u].at # "BatchBarrier"
        <5>1. "Finalized" \in Place
          BY DEF Place
        <5>2. QED
          BY Zenon, <1>1, <4>6, <5>1, IdleFacts, GoFacts, FinishFacts DEF Aborts, Seals
      <4>7. QED  BY Zenon, <4>1, <4>2, <4>3, <4>4, <4>5, <4>6 DEF Kind
    <3>4. QED  BY Zenon, <1>4, <2>2, <2>3, <3>1, <3>2, <3>3
  <2>6. QED  BY Zenon, <1>4, <2>4, <2>5, WhoLeads
<1>5. QED  BY Zenon, <1>3, <1>4

\* What a handler step does to the group b, as long as the Transfer is not
\* contaminated.
LEMMA GroupSteps ==
  ASSUME CInv, NEW u \in Upload, up[u].at # "Idle", Kind(u), ~failed', NEW b \in Batch
  PROVE  /\ ~failed
         /\ \/ batches'[b] = batches[b]
            \/ /\ Joins(u) /\ b = GroupOf(u)
               /\ batches'[b].members = batches[b].members \cup {File(u)}
               /\ ~batches'[b].finalizing /\ batches'[b].result = "None"
            \/ /\ Completes(u) /\ b = GroupOf(u)
               /\ batches'[b].members = {}
               /\ batches'[b].finalizing /\ batches'[b].result = "None"
            \/ /\ Seals(u) /\ b = GroupOf(u)
               /\ batches'[b].members = {}
<1>1. StoreTypes
  BY Zenon DEF CInv
<1>2. ~Aborts(u)
  BY Zenon, <1>1, FinishFacts DEF Aborts
<1>3. CASE Seals(u)
  <2>1. ~failed
    BY Zenon, <1>1, <1>3, FinishFacts DEF Seals
  <2>2. b # GroupOf(u) => batches'[b] = batches[b]
    BY Zenon, <1>1, <1>3, <2>1, FinishFacts DEF Seals
  <2>3. batches'[GroupOf(u)].members = {}
    BY Zenon, <1>1, <1>3, FinishFacts DEF Seals
  <2>4. QED  BY Zenon, <1>3, <2>1, <2>2, <2>3
<1>4. CASE Joins(u)
  <2>1. PICK g : g = Group(batches[GroupOf(u)].members \cup {File(u)}, FALSE, "None")
    BY Zenon
  <2>2. /\ g.members = batches[GroupOf(u)].members \cup {File(u)}
        /\ g.finalizing = FALSE /\ g.result = "None"
    BY <2>1 DEF Group
  <2>3. batches'[b] = IF b = GroupOf(u) THEN g ELSE batches[b]
    BY Zenon, <1>1, <1>4, <2>1 DEF Joins, StoreTypes
  <2>4. QED  BY Zenon, <1>4, <2>2, <2>3 DEF Joins, Admits
<1>5. CASE Completes(u)
  <2>1. PICK g : g = Group({}, TRUE, "None")
    BY Zenon
  <2>2. g.members = {} /\ g.finalizing = TRUE /\ g.result = "None"
    BY <2>1 DEF Group
  <2>3. batches'[b] = IF b = GroupOf(u) THEN g ELSE batches[b]
    BY Zenon, <1>1, <1>5, <2>1 DEF Completes, StoreTypes
  <2>4. QED  BY Zenon, <1>5, <2>2, <2>3 DEF Completes, Admits
<1>6. CASE failed' = failed /\ batches' = batches
  BY Zenon, <1>6
<1>7. QED
  BY Zenon, <1>2, <1>3, <1>4, <1>5, <1>6 DEF Kind, Moves, rest, Links, Syncs, Ends, Places

\* Who leaves a group that is filling up contaminates the Transfer.
LEMMA KindKeepsMembers ==
  ASSUME CInv, NEW u \in Upload, up[u].at # "Idle", Kind(u)
  PROVE  MembersWait'
<1>1. StoreTypes /\ MembersWait
  BY Zenon DEF CInv
<1> SUFFICES ASSUME ~failed', NEW b \in Batch, batches'[b].result = "None",
                    NEW m \in batches'[b].members
             PROVE  up'[m[1]].at = "Waiting" /\ up'[m[1]].chunk = m[2] /\ GroupOf(m[1])' = b
  BY Zenon DEF MembersWait
<1>2. ~failed
  BY Zenon, GroupSteps
<1>3. ASSUME m \in batches[b].members, batches[b].result = "None"
      PROVE  up'[m[1]].at = "Waiting" /\ up'[m[1]].chunk = m[2] /\ GroupOf(m[1])' = b
  <2>1. up[m[1]].at = "Waiting" /\ up[m[1]].chunk = m[2] /\ GroupOf(m[1]) = b
    BY Zenon, <1>1, <1>2, <1>3 DEF MembersWait
  <2>2. m[1] \in Upload
    <3>1. m \in Files
      BY Zenon, <1>1, <1>3, GroupTypes DEF StoreTypes
    <3>2. QED  BY <3>1 DEF Files
  <2>3. m[1] # u
    <3>1. SUFFICES ASSUME up[u].at = "Waiting", GroupOf(u) = b PROVE FALSE
      BY Zenon, <2>1
    <3>2. ~\E p \in Place : Moves(u, p)
      BY Zenon, <1>3, <3>1 DEF Moves
    <3>3. /\ ~Links(u) /\ ~Syncs(u) /\ ~Joins(u) /\ ~Completes(u) /\ ~Aborts(u) /\ ~Seals(u)
          /\ ~\E k \in up[u].todo : Places(u, k)
      BY Zenon, <3>1 DEF Links, Syncs, Joins, Completes, Admits, Aborts, Seals, Places, Leader
    <3>4. ~Ends(u)
      BY Zenon, <3>1 DEF Ends
    <3>5. QED  BY Zenon, <3>2, <3>3, <3>4 DEF Kind
  <2>4. up'[m[1]] = up[m[1]]
    BY Zenon, <2>2, <2>3, KindFacts
  <2>5. QED  BY Zenon, <2>1, <2>4 DEF GroupOf
<1>4. CASE Joins(u) /\ b = GroupOf(u) /\ m = File(u)
  <2>1. m[1] = u /\ m[2] = up[u].chunk
    BY <1>4 DEF File
  <2>2. "Waiting" \in Place
    BY DEF Place, Grouped
  <2>3. up'[u].at = "Waiting" /\ up'[u].chunk = up[u].chunk
    BY Zenon, <1>1, <1>4, <2>2, GoFacts DEF Joins
  <2>4. QED  BY Zenon, <1>4, <2>1, <2>3 DEF GroupOf
<1>5. \/ m \in batches[b].members /\ batches[b].result = "None"
      \/ Joins(u) /\ b = GroupOf(u) /\ m = File(u)
  <2>1. CASE batches'[b] = batches[b]
    BY Zenon, <2>1
  <2>2. CASE Joins(u) /\ b = GroupOf(u)
             /\ batches'[b].members = batches[b].members \cup {File(u)}
    BY Zenon, <2>2 DEF Joins, Admits
  <2>3. batches'[b].members # {}
    BY Zenon
  <2>4. QED  BY Zenon, <2>1, <2>2, <2>3, GroupSteps
<1>6. QED  BY Zenon, <1>3, <1>4, <1>5

\* A member that waits stays served.
LEMMA KindKeepsServed ==
  ASSUME CInv, NEW u \in Upload, up[u].at # "Idle", Kind(u)
  PROVE  MembersAreServed'
<1>1. StoreTypes /\ MembersAreServed /\ LeadersLead
  BY Zenon DEF CInv
<1> SUFFICES ASSUME NEW x \in Upload, up'[x].at = "Waiting", ~failed'
             PROVE  \/ /\ batches'[GroupOf(x)'].result = "None"
                       /\ IF batches'[GroupOf(x)'].finalizing
                          THEN \A w \in Upload : Leads(w, GroupOf(x))' => Served(w, x)'
                          ELSE File(x)' \in batches'[GroupOf(x)'].members
                    \/ durable'[up'[x].chunk] = up'[x].bytes
  BY Zenon DEF MembersAreServed
<1>2. CASE x = u
  <2>1. Joins(u)
    <3>1. {"Linked", "Finalized", "Waiting"} \subseteq Place
      BY DEF Place, Alone, Grouped
    <3>2. ~\E p \in Place : Moves(u, p)
      BY Zenon, <1>1, <1>2, GoFacts DEF Moves
    <3>3. ~Links(u) /\ ~Syncs(u)
      BY Zenon, <1>1, <1>2, <3>1, GoFacts DEF Links, Syncs
    <3>4. ~Ends(u)
      BY Zenon, <1>1, <1>2, IdleFacts DEF Ends
    <3>5. ~Aborts(u) /\ ~Seals(u)
      BY Zenon, <1>1, <1>2, <3>1, IdleFacts, GoFacts, FinishFacts DEF Aborts, Seals
    <3>6. ~Completes(u) /\ ~\E m \in up[u].todo : Places(u, m)
      BY Zenon, <1>2, CompleteFacts, PlaceFacts
    <3>7. QED  BY Zenon, <3>2, <3>3, <3>4, <3>5, <3>6 DEF Kind
  <2>2. up'[u].chunk = up[u].chunk
    BY Zenon, <1>2, KindFacts
  <2>3. GroupOf(u)' = GroupOf(u) /\ File(u)' = File(u)
    BY Zenon, <2>2 DEF GroupOf, File
  <2>4. GroupOf(u) \in Batch
    BY Zenon, <1>1, Under
  <2>5. PICK g : g = Group(batches[GroupOf(u)].members \cup {File(u)}, FALSE, "None")
    BY Zenon
  <2>6. /\ g.members = batches[GroupOf(u)].members \cup {File(u)}
        /\ g.finalizing = FALSE /\ g.result = "None"
    BY <2>5 DEF Group
  <2>7. batches'[GroupOf(u)] = g
    BY Zenon, <1>1, <2>1, <2>4, <2>5 DEF Joins, StoreTypes
  <2>8. QED  BY Zenon, <1>2, <2>3, <2>6, <2>7
<1>3. CASE x # u
  <2>1. up'[x] = up[x] /\ up[x].at = "Waiting"
    BY Zenon, <1>3, KindFacts
  <2>2. GroupOf(x)' = GroupOf(x) /\ File(x)' = File(x)
    BY Zenon, <2>1 DEF GroupOf, File
  <2>3. up[x].chunk \in Chunk /\ up[x].bytes # None /\ GroupOf(x) \in Batch /\ up[x].at # "Idle"
    BY Zenon, <1>1, <2>1, Under
  <2>4. ~failed
    BY Zenon, <2>3, GroupSteps
  <2>5. CASE durable[up[x].chunk] = up[x].bytes
    BY Zenon, <2>1, <2>3, <2>5, KindFacts
  <2>6. CASE batches[GroupOf(x)].result = "None" /\ ~batches[GroupOf(x)].finalizing
             /\ File(x) \in batches[GroupOf(x)].members
    <3>1. CASE batches'[GroupOf(x)] = batches[GroupOf(x)]
      BY Zenon, <2>2, <2>6, <3>1
    <3>2. CASE Joins(u)
               /\ batches'[GroupOf(x)].members = batches[GroupOf(x)].members \cup {File(u)}
               /\ ~batches'[GroupOf(x)].finalizing /\ batches'[GroupOf(x)].result = "None"
      BY Zenon, <2>2, <2>6, <3>2
    <3>3. CASE Completes(u) /\ GroupOf(x) = GroupOf(u)
               /\ batches'[GroupOf(x)].finalizing /\ batches'[GroupOf(x)].result = "None"
      <4>1. ASSUME NEW w \in Upload, Leads(w, GroupOf(x))' PROVE Served(w, x)'
        <5>1. w = u
          <6>1. SUFFICES ASSUME w # u PROVE FALSE
            BY Zenon
          <6>2. up'[w] = up[w]
            BY Zenon, <6>1, KindFacts
          <6>3. up[w].at \in Leader /\ GroupOf(w) = GroupOf(x)
            BY Zenon, <2>2, <4>1, <6>2 DEF Leads, GroupOf
          <6>4. QED  BY Zenon, <1>1, <2>6, <6>3 DEF LeadersLead
        <5>2. File(x)[1] = x
          BY DEF File
        <5>3. <<File(x), up[File(x)[1]].bytes>> \in up'[u].todo
          BY Zenon, <2>6, <3>3, CompleteFacts
        <5>4. QED  BY Zenon, <2>1, <2>2, <5>1, <5>2, <5>3 DEF Served
      <4>2. QED  BY Zenon, <2>2, <3>3, <4>1
    <3>4. ASSUME Seals(u), GroupOf(x) = GroupOf(u) PROVE FALSE
      BY Zenon, <1>1, <2>6, <3>4 DEF Seals, LeadersLead, Leader
    <3>5. QED  BY Zenon, <2>3, <3>1, <3>2, <3>3, <3>4, GroupSteps
  <2>7. CASE batches[GroupOf(x)].result = "None" /\ batches[GroupOf(x)].finalizing
             /\ \A w \in Upload : Leads(w, GroupOf(x)) => Served(w, x)
    <3>1. CASE Seals(u) /\ GroupOf(x) = GroupOf(u)
      <4>1. Served(u, x) /\ up[u].todo = {}
        BY Zenon, <1>1, <2>7, <3>1 DEF Seals, LeadersLead, Leads, Leader
      <4>2. entry[up[x].chunk] = up[x].bytes
        BY Zenon, <4>1 DEF Served
      <4>3. QED  BY Zenon, <2>1, <3>1, <4>2 DEF Seals
    <3>2. CASE batches'[GroupOf(x)] = batches[GroupOf(x)]
      <4>1. ASSUME NEW w \in Upload, Leads(w, GroupOf(x))' PROVE Served(w, x)'
        <5>1. up'[w].at \in Leader /\ GroupOf(w)' = GroupOf(x)
          BY Zenon, <2>2, <4>1 DEF Leads
        <5>2. up'[w].at # "Idle"
          BY <5>1 DEF Leader
        <5>3. GroupOf(w)' = GroupOf(w)
          BY Zenon, <5>2, KindFacts DEF GroupOf
        <5>4. up[w].at \in Leader
          <6>1. CASE w # u
            BY Zenon, <5>1, <6>1, KindFacts
          <6>2. CASE w = u
            <7>1. ~Completes(u)
              BY Zenon, <2>7, <5>1, <5>3, <6>2 DEF Completes, Admits
            <7>2. QED  BY Zenon, <5>1, <6>2, <7>1, WhoLeads
          <6>3. QED  BY Zenon, <6>1, <6>2
        <5>5. Served(w, x)
          BY Zenon, <2>7, <5>1, <5>3, <5>4 DEF Leads
        <5>6. QED  BY Zenon, <2>1, <2>3, <5>1, <5>4, <5>5, ServedStays
      <4>2. QED  BY Zenon, <2>2, <2>7, <3>2, <4>1
    <3>3. ASSUME Joins(u) \/ Completes(u), GroupOf(x) = GroupOf(u) PROVE FALSE
      BY Zenon, <2>7, <3>3 DEF Joins, Completes, Admits
    <3>4. QED  BY Zenon, <2>3, <3>1, <3>2, <3>3, GroupSteps
  <2>8. QED  BY Zenon, <1>1, <2>1, <2>4, <2>5, <2>6, <2>7 DEF MembersAreServed
<1>4. QED  BY Zenon, <1>2, <1>3

\* A group stays smaller than its size: the member that fills it takes all of
\* them out.
LEMMA KindKeepsSizes ==
  ASSUME CInv, NEW u \in Upload, up[u].at # "Idle", Kind(u)
  PROVE  GroupsAreSmall'
<1>1. StoreTypes /\ GroupsAreSmall
  BY Zenon DEF CInv
<1>2. IsFiniteSet({}) /\ Cardinality({}) < BatchSize
  BY FS_EmptySet, SizeAssumption
<1>3. GroupOf(u) \in Batch
  BY Zenon, <1>1, Under
<1> SUFFICES ASSUME NEW b \in Batch
             PROVE  /\ IsFiniteSet(batches'[b].members)
                    /\ Cardinality(batches'[b].members) < BatchSize
  BY Zenon DEF GroupsAreSmall
<1>4. CASE batches'[b].members = batches[b].members \/ batches'[b].members = {}
  BY Zenon, <1>1, <1>2, <1>4 DEF GroupsAreSmall
<1>5. CASE Joins(u) /\ b = GroupOf(u)
  <2>1. PICK g : g = Group(batches[b].members \cup {File(u)}, FALSE, "None")
    BY Zenon
  <2>2. g.members = batches[b].members \cup {File(u)}
    BY <2>1 DEF Group
  <2>3. batches'[b].members = batches[b].members \cup {File(u)}
    BY Zenon, <1>1, <1>3, <1>5, <2>1, <2>2 DEF Joins, StoreTypes
  <2>4. PICK S : S = batches[b].members
    BY Zenon
  <2>5. IsFiniteSet(S) /\ Cardinality(S) < BatchSize
    BY Zenon, <1>1, <2>4 DEF GroupsAreSmall
  <2>6. Cardinality(S \cup {File(u)}) # BatchSize
    BY Zenon, <1>5, <2>4 DEF Joins
  <2>7. File(u) \notin S
    <3>1. File(u)[2] = up[u].chunk
      BY DEF File
    <3>2. QED  BY Zenon, <1>5, <2>4, <3>1 DEF Joins, Admits
  <2>8. /\ IsFiniteSet(S \cup {File(u)})
        /\ Cardinality(S \cup {File(u)}) = Cardinality(S) + 1
    BY <2>5, <2>7, FS_AddElement
  <2>9. Cardinality(S) \in Nat
    BY <2>5, FS_CardinalityType
  <2>10. Cardinality(S \cup {File(u)}) < BatchSize
    BY <2>5, <2>6, <2>8, <2>9, SizeAssumption
  <2>11. QED  BY Zenon, <2>3, <2>4, <2>8, <2>10
<1>6. CASE Completes(u) /\ b = GroupOf(u)
  <2>1. Group({}, TRUE, "None").members = {}
    BY DEF Group
  <2>2. batches'[b].members = {}
    BY Zenon, <1>1, <1>3, <1>6, <2>1 DEF Completes, StoreTypes
  <2>3. QED  BY Zenon, <1>4, <2>2
<1>7. CASE (Joins(u) \/ Completes(u)) /\ b # GroupOf(u)
  <2>1. batches'[b] = batches[b]
    BY Zenon, <1>1, <1>3, <1>7 DEF Joins, Completes, StoreTypes
  <2>2. QED  BY Zenon, <1>4, <2>1
<1>8. CASE Aborts(u) \/ Seals(u)
  <2>1. batches'[b].members = batches[b].members \/ batches'[b].members = {}
    BY Zenon, <1>1, <1>8, FinishFacts DEF Aborts, Seals
  <2>2. QED  BY Zenon, <1>4, <2>1
<1>9. CASE Ends(u)
  BY Zenon, <1>4, <1>9 DEF Ends
<1>10. QED
  BY Zenon, <1>4, <1>5, <1>6, <1>7, <1>8, <1>9 DEF Kind, Moves, rest, Links, Syncs, Places

\* Without the coordinator, whoever ends or finalizes has removed its staging
\* file.
LEMMA StepKeepsStaging ==
  ASSUME CInv, NEW u \in Upload, UploadStep(u)
  PROVE  StagingIsOwned' /\ staging' \subseteq Files
<1>1. StoreTypes /\ StagingIsOwned /\ OneWay
  BY Zenon DEF CInv
<1>2. up[u].at # "Idle" /\ batched' = batched /\ running /\ Kind(u)
  BY Zenon, StepKinds
<1>3. File(u) \in Files /\ File(u)[1] = u /\ File(u)[2] = up[u].chunk
  <2>1. File(u)[1] = u /\ File(u)[2] = up[u].chunk
    BY DEF File
  <2>2. QED  BY Zenon, <1>1, <1>2, <2>1, Under
<1>4. staging' \subseteq staging \cup {File(u)}
  <2>1. ASSUME NEW files, EndUpload(u, files) PROVE staging' \subseteq staging
    BY Zenon, <1>1, <2>1, EndFacts
  <2>2. \/ begin_stage(u) \/ staging' \subseteq staging
        \/ \E files : EndUpload(u, files)
    <3>1. ASSUME batch_sync(u) \/ batch_barrier(u) PROVE staging' \subseteq staging
      BY Zenon, <3>1 DEF batch_sync, batch_barrier, store
    <3>2. ASSUME batch_place(u) \/ place_no_replace(u) PROVE staging' \subseteq staging
      BY Zenon, <3>2 DEF batch_place, place_no_replace
    <3>3. ASSUME stage_worker(u) \/ sync_file(u) \/ commit_chunk(u) \/ await_batch(u)
                 \/ submit(u)
          PROVE  staging' \subseteq staging \/ \E files : EndUpload(u, files)
      BY Zenon, <3>3 DEF stage_worker, sync_file, commit_chunk, await_batch, submit, store
    <3>4. ASSUME fsync_dir(u) \/ existing_final_facts(u)
          PROVE  staging' \subseteq staging \/ \E files : EndUpload(u, files)
      BY Zenon, <3>4 DEF fsync_dir, existing_final_facts
    <3>5. QED  BY Zenon, <3>1, <3>2, <3>3, <3>4 DEF UploadStep
  <2>3. QED  BY Zenon, <2>1, <2>2 DEF begin_stage
<1>5. staging' \subseteq Files
  BY Zenon, <1>1, <1>3, <1>4 DEF StoreTypes
<1>6. SUFFICES ASSUME ~batched, NEW f \in staging'
               PROVE  /\ up'[f[1]].at \notin {"Idle", "Authorized", "Finalized"}
                      /\ up'[f[1]].chunk = f[2]
  BY Zenon, <1>2, <1>5 DEF StagingIsOwned
<1>7. f[1] \in Upload /\ f = <<f[1], f[2]>>
  BY <1>5 DEF Files
<1>8. CASE f[1] # u
  <2>1. f \in staging /\ up'[f[1]] = up[f[1]]
    BY Zenon, <1>2, <1>3, <1>4, <1>7, <1>8, KindFacts
  <2>2. QED  BY Zenon, <1>1, <1>2, <1>6, <2>1 DEF StagingIsOwned
<1>9. CASE f[1] = u
  <2>1. f = File(u)
    <3>1. f \in staging => f[2] = up[u].chunk
      BY Zenon, <1>1, <1>2, <1>6, <1>9 DEF StagingIsOwned
    <3>2. CASE f \in staging
      BY <1>7, <1>9, <3>1, <3>2 DEF File
    <3>3. QED  BY Zenon, <1>4, <3>2
  <2>2. ASSUME NEW p \in Place, Go(u, p), p \notin {"Idle", "Authorized", "Finalized"}
        PROVE  /\ up'[f[1]].at \notin {"Idle", "Authorized", "Finalized"}
               /\ up'[f[1]].chunk = f[2]
    BY Zenon, <1>1, <1>2, <1>3, <1>9, <2>1, <2>2, GoFacts
  <2>3. {"Staging", "Staged", "Synced", "Exists", "Linked"} \subseteq Place
    BY DEF Place, Alone
  <2>4. ~EndUpload(u, {File(u)})
    BY Zenon, <1>1, <2>1, EndFacts
  <2>5. up[u].at \notin Grouped
    BY Zenon, <1>1, <1>6 DEF OneWay
  <2>6. ~batch_sync(u) /\ ~batch_place(u) /\ ~batch_barrier(u) /\ ~await_batch(u) /\ ~submit(u)
    BY Zenon, <1>6, <2>5
       DEF batch_sync, batch_place, batch_barrier, await_batch, submit, At, Grouped, Leader
  <2>7. ASSUME commit_chunk(u) PROVE FALSE
    <3>1. up[u].at = "Finalized"
      BY Zenon, <2>7 DEF commit_chunk, At
    <3>2. staging' \subseteq staging
      <4>1. ASSUME EndUpload(u, {}) PROVE staging' \subseteq staging
        BY Zenon, <1>1, <4>1, EndFacts
      <4>2. QED  BY Zenon, <2>7, <4>1 DEF commit_chunk, store
    <3>3. QED  BY Zenon, <1>1, <1>2, <1>6, <1>9, <3>1, <3>2 DEF StagingIsOwned
  <2>8. ASSUME fsync_dir(u) \/ existing_final_facts(u) PROVE FALSE
    BY Zenon, <2>1, <2>4, <2>8 DEF fsync_dir, existing_final_facts
  <2>9. ASSUME begin_stage(u) \/ stage_worker(u) \/ sync_file(u) \/ place_no_replace(u)
        PROVE  Go(u, "Staging") \/ Go(u, "Staged") \/ Go(u, "Synced") \/ Go(u, "Exists")
               \/ Go(u, "Linked")
    BY Zenon, <2>4, <2>9 DEF begin_stage, stage_worker, sync_file, place_no_replace
  <2>10. QED
    BY Zenon, <2>2, <2>3, <2>6, <2>7, <2>8, <2>9 DEF UploadStep
<1>10. QED  BY Zenon, <1>8, <1>9

\* The Server accepts what the directory shows.
LEMMA StepKeepsAccepted ==
  ASSUME CInv, NEW u \in Upload, UploadStep(u)
  PROVE  AcceptedSurvivesRestart' /\ accepted' \in [Chunk -> MaybeContent]
<1>1. StoreTypes /\ Linked /\ AcceptedSurvivesRestart
  BY Zenon DEF CInv
<1>2. up[u].at # "Idle" /\ powerLost' = powerLost /\ Kind(u)
  BY Zenon, StepKinds
<1>3. up[u].chunk \in Chunk /\ up[u].bytes \in Content /\ up[u].bytes # None
  BY Zenon, <1>1, <1>2, Under
<1>4. \A i \in Chunk : entry[i] # None => entry'[i] = entry[i]
  BY Zenon, <1>2, KindFacts
<1>5. CASE commit_chunk(u)
  <2>1. entry[up[u].chunk] = up[u].bytes
    BY Zenon, <1>1, <1>5 DEF commit_chunk, At, Linked
  <2>2. \/ accepted' = [accepted EXCEPT ![up[u].chunk] = up[u].bytes]
        \/ accepted' = accepted
    BY Zenon, <1>5 DEF commit_chunk
  <2>3. QED
    BY Zenon, <1>1, <1>2, <1>3, <1>4, <2>1, <2>2
       DEF AcceptedSurvivesRestart, StoreTypes, MaybeContent
<1>6. CASE accepted' = accepted
  BY Zenon, <1>1, <1>2, <1>4, <1>6 DEF AcceptedSurvivesRestart, StoreTypes
<1>7. accepted' = accepted \/ commit_chunk(u)
  BY Zenon DEF UploadStep, begin_stage, stage_worker, sync_file, place_no_replace, fsync_dir,
     existing_final_facts, submit, batch_sync, batch_place, batch_barrier, await_batch, Fixed
<1>8. QED  BY Zenon, <1>5, <1>6, <1>7

-----------------------------------------------------------------------------
(* The other steps, and the invariant.                                     *)

\* A handler step preserves the invariant.
LEMMA HandlerKeeps ==
  ASSUME CInv, NEW u \in Upload, UploadStep(u)
  PROVE  CInv'
<1>1. /\ up[u].at # "Idle" /\ batched' = batched /\ powerLost' = powerLost /\ Kind(u)
  BY Zenon, StepKinds
<1>2. StoreTypes' /\ DurableIsShown'
  <2>1. StoreTypes
    BY Zenon DEF CInv
  <2>2. QED
    BY Zenon, <1>1, <2>1, KindFacts, StepKeepsStaging, StepKeepsAccepted DEF StoreTypes
<1>3. QED
  BY Zenon, <1>1, <1>2, KindKeepsSizes, StepKeepsStaging, KindKeepsPlaces, KindKeepsLeaders,
     KindKeepsMembers, KindKeepsServed, StepKeepsAccepted DEF CInv

\* A PUT is denied, which contaminates the Transfer, or starts a handler.
LEMMA RequestKeeps ==
  ASSUME CInv, NEW u \in Upload, NEW i \in Chunk, NEW v \in Content, request(u, i, v)
  PROVE  CInv'
<1>1. /\ StoreTypes /\ DurableIsShown /\ GroupsAreSmall /\ StagingIsOwned /\ OneWay /\ Linked
      /\ LeadersLead /\ MembersWait /\ MembersAreServed /\ AcceptedSurvivesRestart
      /\ BatchIsDurable
  BY Zenon DEF CInv
<1>2. UNCHANGED <<entry, durable, accepted, batched, running, powerLost>> /\ up[u] = Idle
  BY Zenon DEF request
<1>3. AcceptedSurvivesRestart' /\ DurableIsShown'
  BY Zenon, <1>1, <1>2 DEF AcceptedSurvivesRestart, DurableIsShown
<1>4. CASE fail /\ staging' = staging \ GivenUp /\ UNCHANGED up /\ batched
  <2>1. /\ failed' = TRUE /\ batches' \in [Batch -> Groups]
        /\ \A b \in Batch : /\ batches'[b].finalizing = batches[b].finalizing
                            /\ \/ batches'[b] = batches[b]
                               \/ batches'[b].members = {}
    BY Zenon, <1>1, <1>4, FailFacts
  <2>2. staging' \subseteq Files
    BY Zenon, <1>1, <1>4 DEF StoreTypes
  <2>3. StoreTypes'
    BY Zenon, <1>1, <1>2, <1>4, <2>1, <2>2 DEF StoreTypes
  <2>4. GroupsAreSmall'
    <3>1. IsFiniteSet({}) /\ Cardinality({}) < BatchSize
      BY FS_EmptySet, SizeAssumption
    <3>2. QED  BY Zenon, <1>1, <2>1, <3>1 DEF GroupsAreSmall
  <2>5. StagingIsOwned'
    BY Zenon, <1>2, <1>4 DEF StagingIsOwned
  <2>6. OneWay' /\ Linked' /\ BatchIsDurable'
    BY Zenon, <1>1, <1>2, <1>4 DEF OneWay, Linked, BatchIsDurable
  <2>7. LeadersLead'
    <3>1. ASSUME NEW w \in Upload, up[w].at \in Leader PROVE GroupOf(w) \in Batch
      <4>1. up[w].at # "Idle"
        BY <3>1 DEF Leader
      <4>2. QED  BY Zenon, <1>1, <4>1, Under
    <3>2. QED
      BY Zenon, <1>1, <1>2, <1>4, <2>1, <3>1 DEF LeadersLead, Served, Leads, GroupOf, File
  <2>8. MembersWait' /\ MembersAreServed'
    BY Zenon, <2>1 DEF MembersWait, MembersAreServed
  <2>9. QED  BY Zenon, <1>3, <2>3, <2>4, <2>5, <2>6, <2>7, <2>8 DEF CInv
<1>5. CASE up' = [up EXCEPT ![u] = Handling("Authorized", i, v, {})]
           /\ UNCHANGED <<batches, failed, staging>>
  <2>1. PICK h : h = Handling("Authorized", i, v, {})
    BY Zenon
  <2>2. h.at = "Authorized"
    BY <2>1 DEF Handling
  <2>3. h \in Handlers
    <3>1. "Authorized" \in Place
      BY DEF Place
    <3>2. QED  BY Zenon, <2>1, <3>1, HandlerTypes
  <2>4. /\ up' \in [Upload -> Handlers \cup {Idle}] /\ up'[u].at = "Authorized"
        /\ \A x \in Upload \ {u} : up'[x] = up[x]
    BY Zenon, <1>1, <1>5, <2>1, <2>2, <2>3 DEF StoreTypes
  <2>5. StoreTypes' /\ GroupsAreSmall'
    BY Zenon, <1>1, <1>2, <1>5, <2>4 DEF StoreTypes, GroupsAreSmall
  <2>6. up[u].at = "Idle"
    BY Zenon, <1>2, IdleAt
  <2>7. StagingIsOwned'
    <3>1. ASSUME NEW f \in staging PROVE f[1] \in Upload
      <4>1. f \in Files
        BY Zenon, <1>1 DEF StoreTypes
      <4>2. QED  BY <4>1 DEF Files
    <3>2. ASSUME running, ~batched, NEW f \in staging PROVE up'[f[1]] = up[f[1]]
      BY Zenon, <1>1, <2>4, <2>6, <3>1, <3>2 DEF StagingIsOwned
    <3>3. QED  BY Zenon, <1>1, <1>2, <1>5, <3>2 DEF StagingIsOwned
  <2>8. OneWay'
    <3>1. "Authorized" \notin Alone /\ "Authorized" \notin Grouped
      BY DEF Alone, Grouped, Leader
    <3>2. QED  BY Zenon, <1>1, <1>2, <2>4, <3>1 DEF OneWay
  <2>9. Linked' /\ BatchIsDurable'
    BY Zenon, <1>1, <1>2, <2>4 DEF Linked, BatchIsDurable
  <2>10. ASSUME NEW w \in Upload, up'[w].at \in Grouped PROVE up'[w] = up[w] /\ w # u
    <3>1. "Authorized" \notin Grouped
      BY DEF Grouped, Leader
    <3>2. QED  BY Zenon, <2>4, <2>10, <3>1
  <2>11. \A p \in Leader : p \in Grouped
    BY Zenon DEF Grouped
  <2>12. LeadersLead'
    <3>1. ASSUME NEW w \in Upload, up'[w].at \in Leader
          PROVE  /\ batches'[GroupOf(w)'].finalizing
                 /\ Served(w, w)'
                 /\ up'[w].at = "BatchBarrier" => up'[w].todo = {}
                 /\ \A x \in Upload : Leads(x, GroupOf(w))' => x = w
      <4>1. up'[w] = up[w]
        BY Zenon, <2>10, <2>11, <3>1
      <4>2. ASSUME NEW x \in Upload, Leads(x, GroupOf(w))' PROVE Leads(x, GroupOf(w))
        BY Zenon, <2>10, <2>11, <4>1, <4>2 DEF Leads, GroupOf
      <4>3. QED
        BY Zenon, <1>1, <1>2, <1>5, <3>1, <4>1, <4>2 DEF LeadersLead, Served, GroupOf, File
    <3>2. QED  BY Zenon, <3>1 DEF LeadersLead
  <2>13. MembersWait'
    <3>1. SUFFICES ASSUME ~failed', NEW b \in Batch, batches'[b].result = "None",
                          NEW m \in batches'[b].members
                   PROVE  /\ up'[m[1]].at = "Waiting" /\ up'[m[1]].chunk = m[2]
                          /\ GroupOf(m[1])' = b
      BY Zenon DEF MembersWait
    <3>2. m \in batches[b].members
      BY Zenon, <1>5
    <3>3. up[m[1]].at = "Waiting" /\ up[m[1]].chunk = m[2] /\ GroupOf(m[1]) = b
      BY Zenon, <1>1, <1>5, <3>1, <3>2 DEF MembersWait
    <3>4. m[1] \in Upload
      <4>1. m \in Files
        BY Zenon, <1>1, <3>2, GroupTypes DEF StoreTypes
      <4>2. QED  BY <4>1 DEF Files
    <3>5. up'[m[1]] = up[m[1]]
      BY Zenon, <2>4, <2>6, <3>3, <3>4
    <3>6. QED  BY Zenon, <3>3, <3>5 DEF GroupOf
  <2>14. MembersAreServed'
    <3>1. SUFFICES ASSUME NEW x \in Upload, up'[x].at = "Waiting", ~failed'
                   PROVE  \/ /\ batches'[GroupOf(x)'].result = "None"
                             /\ IF batches'[GroupOf(x)'].finalizing
                                THEN \A w \in Upload : Leads(w, GroupOf(x))' => Served(w, x)'
                                ELSE File(x)' \in batches'[GroupOf(x)'].members
                          \/ durable'[up'[x].chunk] = up'[x].bytes
      BY Zenon DEF MembersAreServed
    <3>2. up'[x] = up[x]
      BY Zenon, <2>10, <3>1 DEF Grouped
    <3>3. ASSUME NEW w \in Upload, Leads(w, GroupOf(x))'
          PROVE  Leads(w, GroupOf(x)) /\ up'[w] = up[w]
      BY Zenon, <2>10, <2>11, <3>2, <3>3 DEF Leads, GroupOf
    <3>4. \/ /\ batches[GroupOf(x)].result = "None"
             /\ IF batches[GroupOf(x)].finalizing
                THEN \A w \in Upload : Leads(w, GroupOf(x)) => Served(w, x)
                ELSE File(x) \in batches[GroupOf(x)].members
          \/ durable[up[x].chunk] = up[x].bytes
      BY Zenon, <1>1, <1>5, <3>1, <3>2 DEF MembersAreServed
    <3>5. ASSUME NEW w \in Upload, Leads(w, GroupOf(x))', Served(w, x) PROVE Served(w, x)'
      BY Zenon, <1>2, <3>2, <3>3, <3>5 DEF Served, File
    <3>6. GroupOf(x)' = GroupOf(x) /\ File(x)' = File(x)
      BY Zenon, <3>2 DEF GroupOf, File
    <3>7. QED  BY Zenon, <1>2, <1>5, <3>2, <3>3, <3>4, <3>5, <3>6
  <2>15. QED  BY Zenon, <1>3, <2>5, <2>7, <2>8, <2>9, <2>12, <2>13, <2>14 DEF CInv
<1>6. QED  BY Zenon, <1>4, <1>5 DEF request

\* The group without members.
LEMMA EmptyFacts ==
  /\ EmptyGroup \in Groups /\ EmptyGroup.members = {}
  /\ IsFiniteSet({}) /\ Cardinality({}) < BatchSize
<1>1. EmptyGroup.members = {}
  BY DEF EmptyGroup, Group
<1>2. EmptyGroup \in Groups
  BY Zenon, GroupTypes DEF EmptyGroup
<1>3. IsFiniteSet({}) /\ Cardinality({}) < BatchSize
  BY FS_EmptySet, SizeAssumption
<1>4. QED  BY Zenon, <1>1, <1>2, <1>3

\* After a stop no handler and no group knows anything; the disk does.
LEMMA StopKeeps ==
  ASSUME CInv, worker_crash \/ power_loss
  PROVE  CInv'
<1>1. StoreTypes /\ DurableIsShown /\ AcceptedSurvivesRestart
  BY Zenon DEF CInv
<1>2. Stop
  BY Zenon DEF worker_crash, power_loss
<1>3. /\ up' = [u \in Upload |-> Idle] /\ batches' = [b \in Batch |-> EmptyGroup]
      /\ failed' = FALSE /\ running' = FALSE /\ staging' = staging
      /\ accepted' = accepted /\ batched' = batched
  BY Zenon, <1>2 DEF Stop
<1>4. \A u \in Upload : up'[u] = Idle /\ up'[u].at = "Idle"
  BY Zenon, <1>3, IdleAt
<1>5. /\ entry' \in [Chunk -> MaybeContent] /\ durable' \in [Chunk -> MaybeContent]
      /\ DurableIsShown' /\ powerLost' \in BOOLEAN /\ AcceptedSurvivesRestart'
  <2>1. CASE worker_crash
    BY Zenon, <1>1, <1>3, <2>1
       DEF worker_crash, StoreTypes, DurableIsShown, AcceptedSurvivesRestart
  <2>2. CASE power_loss
    <3>1. PICK kept \in SUBSET Chunk :
            entry' = [i \in Chunk |-> IF i \in kept THEN entry[i] ELSE durable[i]]
      BY Zenon, <2>2 DEF power_loss
    <3>2. entry' \in [Chunk -> MaybeContent]
      BY Zenon, <1>1, <3>1 DEF StoreTypes
    <3>3. durable' = entry' /\ powerLost' = TRUE
      BY Zenon, <2>2 DEF power_loss
    <3>4. QED  BY Zenon, <3>2, <3>3 DEF DurableIsShown, AcceptedSurvivesRestart
  <2>3. QED  BY Zenon, <2>1, <2>2
<1>6. up' \in [Upload -> Handlers \cup {Idle}] /\ batches' \in [Batch -> Groups]
  BY Zenon, <1>3, EmptyFacts
<1>7. StoreTypes'
  BY Zenon, <1>1, <1>3, <1>5, <1>6 DEF StoreTypes
<1>8. GroupsAreSmall'
  BY Zenon, <1>3, EmptyFacts DEF GroupsAreSmall
<1>9. "Idle" \notin Alone \cup Grouped /\ "Idle" \notin Leader
  BY DEF Alone, Grouped, Leader
<1>10. OneWay' /\ Linked' /\ BatchIsDurable' /\ LeadersLead' /\ MembersAreServed'
  BY Zenon, <1>4, <1>9 DEF OneWay, Linked, BatchIsDurable, LeadersLead, MembersAreServed
<1>11. MembersWait'
  BY Zenon, <1>3, EmptyFacts DEF MembersWait
<1>12. StagingIsOwned'
  BY Zenon, <1>3 DEF StagingIsOwned
<1>13. QED
  BY Zenon, <1>5, <1>7, <1>8, <1>10, <1>11, <1>12 DEF CInv

\* A start, or a step that changes nothing.
LEMMA RestKeeps ==
  ASSUME CInv, initialize \/ UNCHANGED vars
  PROVE  CInv'
<1>1. /\ UNCHANGED <<up, entry, durable, accepted, batched, batches, failed, powerLost>>
      /\ staging' = {} \/ (staging' = staging /\ running' = running)
  BY Zenon DEF initialize, vars, store, coordinator
<1>2. StoreTypes' /\ DurableIsShown' /\ GroupsAreSmall'
  <2>1. {} \subseteq Files
    BY Zenon
  <2>2. QED  BY Zenon, <1>1, <2>1 DEF CInv, StoreTypes, DurableIsShown, GroupsAreSmall
<1>3. StagingIsOwned'
  <2>1. CASE staging' = {}
    BY Zenon, <2>1 DEF StagingIsOwned
  <2>2. CASE staging' = staging /\ running' = running
    BY Zenon, <1>1, <2>2 DEF CInv, StagingIsOwned
  <2>3. QED  BY Zenon, <1>1, <2>1, <2>2
<1>4. OneWay' /\ Linked' /\ BatchIsDurable' /\ AcceptedSurvivesRestart'
  BY Zenon, <1>1 DEF CInv, OneWay, Linked, BatchIsDurable, AcceptedSurvivesRestart
<1>5. LeadersLead'
  BY Zenon, <1>1 DEF CInv, LeadersLead, Leads, Served, GroupOf, File
<1>6. MembersWait'
  BY Zenon, <1>1 DEF CInv, MembersWait, GroupOf
<1>7. MembersAreServed'
  BY Zenon, <1>1 DEF CInv, MembersAreServed, Leads, Served, GroupOf, File
<1>8. QED  BY Zenon, <1>2, <1>3, <1>4, <1>5, <1>6, <1>7 DEF CInv

\* Nothing is stored at first.
LEMMA InitCInv == Init => CInv
<1> SUFFICES ASSUME Init PROVE CInv
  BY Zenon
<1>1. \A u \in Upload : up[u] = Idle /\ up[u].at = "Idle"
  BY Zenon, IdleAt DEF Init
<1>2. StoreTypes
  BY Zenon, EmptyFacts DEF Init, StoreTypes, MaybeContent
<1>3. GroupsAreSmall
  BY Zenon, EmptyFacts DEF Init, GroupsAreSmall
<1>4. "Idle" \notin Alone \cup Grouped /\ "Idle" \notin Leader
  BY DEF Alone, Grouped, Leader
<1>5. OneWay /\ Linked /\ BatchIsDurable /\ LeadersLead /\ MembersAreServed
  BY Zenon, <1>1, <1>4 DEF OneWay, Linked, BatchIsDurable, LeadersLead, MembersAreServed
<1>6. MembersWait
  BY Zenon, EmptyFacts DEF Init, MembersWait
<1>7. StagingIsOwned /\ DurableIsShown /\ AcceptedSurvivesRestart
  BY Zenon DEF Init, StagingIsOwned, DurableIsShown, AcceptedSurvivesRestart
<1>8. QED  BY Zenon, <1>2, <1>3, <1>5, <1>6, <1>7 DEF CInv

\* The inductive invariant of uploads, directory and groups holds for any number
\* of uploads, chunks, contents and any group size, through the failures, crashes
\* and power losses of fs_store.rs and i63_batch.rs.
THEOREM StoreInvariance == Spec => []CInv
<1>1. CInv /\ [Next]_vars => CInv'
  BY Zenon, HandlerKeeps, RequestKeeps, StopKeeps, RestKeeps DEF Next
<1>2. QED  BY <1>1, InitCInv, PTL DEF Spec

\* The store is well typed, a durable entry is one the directory shows, a group
\* never holds as many members as finalize it, and without the coordinator every
\* way out of finalize removes the staging file.
THEOREM StoreTypeCorrect == Spec => []TypeOK
<1>1. CInv => TypeOK
  BY Zenon DEF CInv, StoreTypes, DurableIsShown, GroupsAreSmall, StagingIsOwned, TypeOK, Files
<1>2. QED  BY <1>1, StoreInvariance, PTL

\* What the Server accepted in commit_chunk is on disk with the accepted bytes as
\* long as there is no power loss.
THEOREM AcceptedChunksSurvive == Spec => []AcceptedSurvivesRestart
<1>1. CInv => AcceptedSurvivesRestart
  BY Zenon DEF CInv
<1>2. QED  BY <1>1, StoreInvariance, PTL

\* No member of a group reports its chunk finalized before the directory sync
\* that i63_batch.rs does for the group.
THEOREM BatchesAreDurable == Spec => []BatchIsDurable
<1>1. CInv => BatchIsDurable
  BY Zenon DEF CInv
<1>2. QED  BY <1>1, StoreInvariance, PTL

-----------------------------------------------------------------------------
(* The promise.                                                            *)

\* How the directory, what of it is durable and what the Server accepted can
\* change: an upload is placed; or the directory is synchronized, or the Server
\* accepts; or the machine loses power.
LEMMA StoreSteps ==
  ASSUME CInv, Next
  PROVE  \/ UNCHANGED <<entry, durable, accepted>>
         \/ /\ \E i \in Chunk, v \in Content :
                 entry[i] = None /\ entry' = [entry EXCEPT ![i] = v]
            /\ UNCHANGED <<durable, accepted>>
         \/ entry' = entry /\ durable' = entry /\ accepted' = accepted
         \/ /\ UNCHANGED <<entry, durable>>
            /\ \E i \in Chunk, v \in Content :
                 accepted[i] = None /\ accepted' = [accepted EXCEPT ![i] = v]
         \/ power_loss
<1> DEFINE Goal ==
      \/ UNCHANGED <<entry, durable, accepted>>
      \/ /\ \E i \in Chunk, v \in Content :
              entry[i] = None /\ entry' = [entry EXCEPT ![i] = v]
         /\ UNCHANGED <<durable, accepted>>
      \/ entry' = entry /\ durable' = entry /\ accepted' = accepted
      \/ /\ UNCHANGED <<entry, durable>>
         /\ \E i \in Chunk, v \in Content :
              accepted[i] = None /\ accepted' = [accepted EXCEPT ![i] = v]
      \/ power_loss
<1>1. ASSUME NEW u \in Upload, NEW i \in Chunk, NEW v \in Content, request(u, i, v)
      PROVE  Goal
  BY Zenon, <1>1 DEF request
<1>2. CASE worker_crash \/ power_loss \/ initialize
  BY Zenon, <1>2 DEF worker_crash, Stop, initialize
<1>3. ASSUME NEW u \in Upload, UploadStep(u) PROVE Goal
  <2>1. StoreTypes
    BY Zenon DEF CInv
  <2>2. up[u].at # "Idle" /\ Kind(u)
    BY Zenon, <1>3, StepKinds
  <2>3. up[u].chunk \in Chunk /\ up[u].bytes \in Content
    BY Zenon, <2>1, <2>2, Under
  <2>4. CASE commit_chunk(u)
    <3>1. entry' = entry /\ durable' = durable
      BY Zenon, <2>4 DEF commit_chunk, EndUpload, store
    <3>2. QED  BY Zenon, <2>3, <2>4, <3>1 DEF commit_chunk
  <2>5. CASE ~commit_chunk(u)
    <3>1. accepted' = accepted
      BY Zenon, <1>3, <2>5 DEF UploadStep, begin_stage, stage_worker, sync_file,
         place_no_replace, fsync_dir, existing_final_facts, submit, batch_sync, batch_place,
         batch_barrier, await_batch, Fixed
    <3>2. CASE Links(u)
      BY Zenon, <2>3, <3>1, <3>2 DEF Links
    <3>3. ASSUME NEW m \in up[u].todo, Places(u, m) PROVE Goal
      <4>1. m[1][2] \in Chunk /\ m[2] \in Content
        BY Zenon, <2>2, <3>3, PlaceFacts
      <4>2. QED  BY Zenon, <3>1, <3>3, <4>1 DEF Places
    <3>4. CASE entry' = entry /\ (durable' = entry \/ durable' = durable)
      BY Zenon, <3>1, <3>4
    <3>5. QED
      BY Zenon, <2>2, <3>2, <3>3, <3>4
         DEF Kind, Moves, rest, Syncs, Ends, Joins, Completes, Admits, Aborts, Seals
  <2>6. QED  BY Zenon, <2>4, <2>5
<1>4. QED  BY Zenon, <1>1, <1>2, <1>3 DEF Next

\* Each of these is a step of StorePromise.
LEMMA StepsKeepPromise ==
  ASSUME CInv, [Next]_vars
  PROVE  [Promise!Next]_<<entry, {i \in Chunk : accepted[i] # None /\ durable[i] # None}>>
<1> DEFINE safe == {i \in Chunk : accepted[i] # None /\ durable[i] # None}
<1>1. StoreTypes /\ DurableIsShown
  BY Zenon DEF CInv
<1>2. CASE UNCHANGED <<entry, durable, accepted>>
  BY Zenon, <1>2
<1>3. CASE UNCHANGED vars
  BY Zenon, <1>2, <1>3 DEF vars, store
<1>4. ASSUME NEW i \in Chunk, NEW v \in Content, entry[i] = None,
             entry' = [entry EXCEPT ![i] = v], UNCHANGED <<durable, accepted>>
      PROVE  Promise!Next
  <2>1. Promise!install(i, v)
    BY Zenon, <1>4 DEF Promise!install
  <2>2. QED  BY Zenon, <2>1 DEF Promise!Next
<1>5. ASSUME entry' = entry, safe \subseteq safe', \A i \in safe' : entry[i] # None
      PROVE  Promise!Next
  <2>1. PICK new \in SUBSET Chunk : new = safe'
    BY Zenon
  <2>2. safe' = safe \cup new /\ \A i \in new : entry[i] # None
    BY Zenon, <1>5, <2>1
  <2>3. Promise!promise(new)
    BY Zenon, <1>5, <2>2 DEF Promise!promise
  <2>4. QED  BY Zenon, <2>3 DEF Promise!Next
<1>6. CASE entry' = entry /\ durable' = entry /\ accepted' = accepted
  <2>1. safe \subseteq safe' /\ \A i \in safe' : entry[i] # None
    BY Zenon, <1>1, <1>6 DEF DurableIsShown
  <2>2. QED  BY Zenon, <1>5, <1>6, <2>1
<1>7. ASSUME UNCHANGED <<entry, durable>>, NEW i \in Chunk, NEW v \in Content,
             accepted[i] = None, accepted' = [accepted EXCEPT ![i] = v]
      PROVE  Promise!Next
  <2>1. \A k \in Chunk : accepted[k] # None => accepted'[k] # None
    BY Zenon, <1>1, <1>7 DEF StoreTypes
  <2>2. safe \subseteq safe' /\ \A k \in safe' : entry[k] # None
    BY Zenon, <1>1, <1>7, <2>1 DEF DurableIsShown
  <2>3. QED  BY Zenon, <1>5, <1>7, <2>2
<1>8. CASE power_loss
  <2>1. PICK kept \in SUBSET Chunk :
          entry' = [i \in Chunk |-> IF i \in kept THEN entry[i] ELSE durable[i]]
    BY Zenon, <1>8 DEF power_loss
  <2>2. durable' = entry' /\ accepted' = accepted
    BY Zenon, <1>8 DEF power_loss, Stop
  <2>3. PICK gone \in SUBSET Chunk : gone = {i \in Chunk : entry'[i] = None}
    BY Zenon
  <2>4. gone \cap safe = {}
    BY Zenon, <1>1, <2>1, <2>3 DEF DurableIsShown
  <2>5. entry' = [i \in Chunk |-> IF i \in gone THEN None ELSE entry[i]]
    <3>1. \A i \in Chunk : entry'[i] = IF i \in gone THEN None ELSE entry[i]
      BY Zenon, <1>1, <2>1, <2>3 DEF DurableIsShown
    <3>2. QED  BY Zenon, <2>1, <3>1
  <2>6. safe \subseteq safe' /\ \A i \in safe' : entry'[i] # None
    BY Zenon, <1>1, <2>1, <2>2 DEF DurableIsShown
  <2>7. Promise!lose(gone)
    BY Zenon, <2>4, <2>5, <2>6 DEF Promise!lose
  <2>8. QED  BY Zenon, <2>3, <2>7 DEF Promise!Next
<1>9. QED
  BY Zenon, <1>2, <1>3, <1>4, <1>6, <1>7, <1>8, StoreSteps

\* The store of fs_store.rs, under overlapping uploads, groups, failures, crashes
\* and power losses, implements StorePromise: a chunk file is installed once, and
\* one that is accepted and synchronized stays as it is for ever.
THEOREM StoreKeepsPromise == Spec => KeepsPromise
<1>1. Init => Promise!Init
  <2> SUFFICES ASSUME Init PROVE {i \in Chunk : accepted[i] # None /\ durable[i] # None} = {}
    BY Zenon DEF Init, Promise!Init
  <2>1. \A i \in Chunk : accepted[i] = None
    BY Zenon DEF Init
  <2>2. QED  BY Zenon, <2>1
<1>2. CInv /\ [Next]_vars =>
        [Promise!Next]_<<entry, {i \in Chunk : accepted[i] # None /\ durable[i] # None}>>
  BY Zenon, StepsKeepPromise
<1>3. QED  BY <1>1, <1>2, StoreInvariance, PTL DEF Spec, KeepsPromise, Promise!Spec
=============================================================================
