# A TLA+ model of Bamep

Bamep provisions bare-metal Endpoints. A Server (`bamepd`, PostgreSQL) decides
what may happen to an Endpoint; an Agent on the Endpoint performs the actions it
is sent over an authenticated WebSocket session; a Worker process receives the
data of capture transfers and stores it in files. This directory models the
parts of that system that keep state together, checks them with TLC on small
instances and proves most of their safety properties with TLAPS for instances of
every size.

Contents: [the system](#the-system) · [modules](#modules) · [runs](#runs) ·
[bounds](#bounds) · [fairness](#fairness) · [proofs](#proofs) ·
[only model-checked](#only-model-checked) ·
[where the code and its documentation differ](#where-the-code-and-its-documentation-differ)
· [what is left out](#what-is-left-out)

## The system

| part | state | meets |
|---|---|---|
| Job lifecycle (`domain/{job,attempt,action_evidence,cancellation,...}.rs`, `job_repository.rs`) | rows of `jobs`, `job_steps`, `attempts` | everything |
| Dispatch, evidence, cancellation and reconciliation services (`application/mod.rs`) | calls in progress | lifecycle, arbiter, sessions |
| Arbiter and reservation registry (`runtime/`) | held units, Attempt → reservation; lost at restart | dispatch, evidence |
| Session directory and gateway task (`outbound_sessions.rs`, `agent_gateway.rs`) | live sessions, dispatch correlation, queued commands | lifecycle, Agent |
| Agent actions (`simulator/src/action.rs`) | record per action; lost at restart | gateway |
| Identity (`domain/{endpoint,credential,boot_context,transitions}.rs`, `credential_redemption_repository.rs`, `shared.rs`) | Endpoint rows, credential chain and its lookup projection, boot contexts | gateway, gate |
| Destructive gate (`FinalDispatchService`, `DestructiveIntentService`, `inventory_repository.rs`, `presence.rs`) | inventory revisions, intents, presence, target | identity, lifecycle |
| Transfers (`domain/{transfer,artifact,chunk_manifest}.rs`, `transfer_repository.rs`) | `transfers`, `artifacts`, chunk identities | lifecycle, Worker |
| Transfer authorization (`transfer_authorization.rs`, `capability_store.rs`, `replay_cache.rs`) | capabilities, spent proofs, clock | Agent, Worker |
| Worker control connection (`worker_control_plane.rs`, `worker_authority.rs`, `transient_worker_operations.rs`, `worker/src/ipc/`, `worker_supervisor.rs`) | connection generation, handles, resume snapshots, pending requests | Worker, Server |
| Worker data plane and chunk store (`worker/src/data_plane/`, `worker/src/storage/`) | staged and final files | control connection, Agent |

What makes it hard:

* every durable decision is *lock, read afresh, decide, persist, commit*, but a
  business step is several such transactions with messages between them, and a
  transaction itself is several statements that see different snapshots;
* messages are sent after the commit, so each can be lost, late or repeated;
* reservations, sessions, capabilities, handles and snapshots are process memory:
  a restart of one side loses them while the other side goes on;
* an Endpoint can have several live sessions at once, an old HTTP handler can
  outlive the run that sent its request, and an old control connection can
  outlive the one that replaced it.

`PROJECT.json` lists the hazards line by line with the properties that cover
them, and for each definition the source lines it translates.

## Modules

**JobDomain** – the pure lifecycle decisions. States carry the names of the Rust
enums. A decision takes the locked facts and returns the facts to persist; a
duplicate, conflict or invalid decision returns them unchanged, because the
repositories persist nothing then.

**JobLifecycle** – the three tables and every transaction on them, one action per
repository operation and named after it. `"Absent"` is a row that does not exist
yet. Anything outside may call any operation at any time and repeatedly, with one
restriction: a CancelAck answers a CancelAction the Server issued
(`cancelActions`); ActionExecution discharges it.

**JobTransactions** – the same operations taken apart: `begin_*` starts a
transaction, `lock_row` takes one row lock and reads the row, `commit_*` and
`decide_dispatch` decide from what was *read* and write. `scan`, `still_active` and `rescan` are the passes
of `request_cancellation`; `abort` is PostgreSQL's deadlock detector. It implements
JobLifecycle: `RefinesJobLifecycle`.

**ActionExecution** – JobLifecycle composed with the services around it: acquire,
commit, register, send; messages both ways; evidence and the release after it;
cancellation, reconciliation, restarts of either side. The history variables
`performed` and `executions` say what really happened on the Endpoint.

**AgentSessions** – one Endpoint's sessions. Each await of
`run_authenticated_session` and of `OutboundSessionDirectory::send` is a point
where others run: `resolve` and `enqueue` are the halves of `send`; a session task
passes `Live → Ended → Captured → Unregistered → Marked → Gone`; committing
evidence and rebinding the correlation are two steps.

**TransferDomain, TransferLifecycle** – decisions about Transfer, Artifact and
chunk manifest, and their tables beside the Job records (TransferLifecycle extends
JobLifecycle; the transactions that end an Attempt together with its Artifact are
here).

**DataPlane** – a capture from end to end on top of TransferLifecycle: the Agent's
run (resume discovery, uploads, seal), the Worker's handlers as sequences of
control requests and file operations, timeouts, stopping handlers, lost answers
and a source that changes. A Server restart acts on a capture as `Disconnect` and
`handler_stops`. It implements TransferLifecycle.

**ChunkStore** – staging, synchronization, placement without replacement and group
finalization of chunk files, with crashes and power loss: `entry` is the directory
as processes see it, `durable` what has reached the disk. **StorePromise** is what it
implements: a file is installed once and, once promised, stays. A `commit_chunk` whose
call fails or is rejected ends the upload, whether the Server accepted the chunk or not.

**WorkerControl** – the control connection: handshake, generations, correlation,
deadlines, handles and resume snapshots with their capacities, Worker exit,
supervision and shutdown. What the database decides is a choice. Each lock of the
registries is a step of its own: a discovery reads the database, registers its
snapshot, mints its cursor, and drops the snapshot again when that fails or its last
page is sent, and its connection may be superseded between any two of them. So
`TypeOK` says that a snapshot has a cursor of the *current* generation or a handler
that is about to mint or drop; a superseded one may keep a snapshot nobody can reach.

**Authorization** – capabilities, proofs, the freshness window and the replay cache
against a clock that can be set back, with each store read as its own step. The
Transfer is bound once (`bind_attempt`); its Attempt is Dispatched, InProgress once
acknowledged, can go to AwaitingReconciliation and back, and ends for good. The
history variables are `swept`, the latest clock a request swept the cache with since
the last restart, and what `approved` records of each approval.

**Identity** – redemption of a credential statement by statement. The last statement
locks the Endpoint's rows but joins `endpoint_credential_lookups` without locking it,
so after a wait the projection is that of the statement's snapshot. Reboots,
revocation, approval and bootstrap evidence are one-lock transactions.
**EndpointFacts** is what the rest of the Server relies on; Identity implements it
and DestructiveGate builds on it.

**DestructiveGate** – the unlocked reads an intent is recorded from, and the
revalidation under the locks of the dispatch transaction. A session is authenticated
(`begin_session`) and registered as present in two steps, so one of an older boot or
with a credential revoked since can still be registered.

`...Proofs` modules hold theorems. `MC...` modules add the sets and symmetries of a
run. Definitions named `Faulty...` are deliberately wrong variants of the definition
that follows; each is put in its place to confirm that a property notices. No
specification uses them.

## Runs

| run | distinct states | properties | shows |
|---|---|---|---|
| job_lifecycle | 311,995 | `RefinesJobLifecycle`, `NoStrandedWork`, `TerminalIsFinal`, `PassesSuffice`, `TransactionsEnd` | the transactions, lock by lock, do what the one-step ones do; every call ends |
| actions | 1,618,040 | `OutcomeIsTrue`, `ExclusiveExecution`, `AtMostOnceExecution`, `ExecRefinesJobLifecycle` | a recorded outcome is what happened; one action at a time, each started once |
| sessions | 132,976 | `InProgressHasSession`, `OnlyCarrierMarks`, `UncertainIsResolved` | some session answers for an InProgress Attempt; a lost session makes uncertain only what it carried; uncertainty is resolved |
| transfers | 302,467 | `VerifiedIsComplete`, `DurablePromises` | only a full sealed manifest is verified; nothing recorded is taken back |
| data_plane | 232,964 | `HeldIsStored`, `VerifiedIsOneSource`, `OutcomeMatchesArtifact`, `RefinesTransferLifecycle`, `CaptureEnds` | what is held is on disk; a Verified Artifact is one source; a capture ends |
| chunk_store | 206,413 | `TypeOK`, `AcceptedSurvivesRestart`, `BatchIsDurable`, `KeepsPromise`, `UploadsEnd` | accepted chunks survive a crash; the store keeps StorePromise |
| worker_control | 173,782 | `TypeOK`, `AnswerIsTrue`, `ResumeIsSnapshot`, `StaleIsPowerless`, `CallsEnd`, `ShutdownCompletes` | an answer is the answer of its request; an old connection changes nothing |
| authorization | 4,575,680 | `RepeatOnlyWhenOvertaken`, `OverIsNeverApproved` | a proof is approved twice only in the case [below](#where-the-code-and-its-documentation-differ); nothing that arrives after the end of its Transfer is approved |
| identity | 371,980 | `TypeOK`, `AcceptedIsCurrent`, `ChainIsOfBoot`, `NeverStranded`, `RedemptionEnds`, `RefinesEndpointFacts` | redemptions that race never accept a superseded credential nor strand an Agent |
| gate | 529,612 | `NoTornDispatch`, `CommitIsGated` | facts that were never true together are never dispatched on |
| session_stranded, data_plane_lost_response | – | one each | refuted, [below](#where-the-code-and-its-documentation-differ) |

Runs that say `CHECK_DEADLOCK FALSE` are of systems that stop: a capture, the
uploads and the requests of an instance come to an end, and counters reach their
bound.

`OutcomeIsTrue`, `ExclusiveExecution` and `AtMostOnceExecution` are stated for one
dispatch call per Attempt (`MaxTriggers` = 1): the registration that makes a second
call a no-op is taken away by terminal evidence, so a later call sends again, and an
Agent that has restarted in between would execute again. `InProgressHasSession` names
its exceptions: an operator's cancellation, which can end an Attempt before its
dispatch call has resolved a session, and a failed mark.

## Bounds

* job_lifecycle: 1 Job of 2 steps, 2 Attempts, 2 connections: two transactions that
  meet on every pair of rows, including in opposite lock orders. The Attempts are
  taken in order (`InOrder`): nothing in the model compares two Attempts, so this
  loses only renamings of them. `MAX_PASSES` is the code's 8.
* actions: 2 Jobs of 1 step on 1 Endpoint, 2 units, 1 answer in flight. An answer
  that finds no room is lost, which can happen to it anyway.
* sessions: 2 sessions, so that they overlap and replace each other; 1 Attempt for
  liveness. The safety properties also hold with 2 Attempts (2,730,351 states), where
  a correlation can be stale; the proofs cover any number.
* transfers: 2 Transfers that name one JobStep, 2 chunks, 2 contents, 2 digests.
* data_plane: 1 capture of 2 chunks, 2 contents, 2 requests (an old handler beside
  the current one), each of 11 faults once and 3 in all.
* chunk_store: 2 uploads at once and 4 in all, groups of 2, 2 faults. With 3 uploads
  at once and 3 faults the same properties hold (2,129,852 states).
* worker_control: 2 calls, 2 connections, 3 chunks in pages of 1, capacities of 1
  and 2, so that every store fills up; the database holds no chunk, chunks 0 and 2, or
  all three at the start (`HeldBefore`), so that discoveries have one page, several
  pages, and pages across a chunk that is accepted meanwhile.
* authorization: 2 capabilities, proofs and requests, a capability store of 1 and a
  replay cache of 2, time to 3 with a window of 1 and a time to live of 2: expiry, a
  full store and a clock set back all meet. With a cache of 1, which fills up, the
  same properties hold (3,440,150 states), but there the entry of the
  request that swept leaves no room for a repeated one; the proofs cover any capacity.
* identity: 1 machine that boots twice, 2 Endpoints, 2 requests, 3 minted credentials.
* gate: 1 Endpoint, 2 boots, 2 authorizations, 3 inventory revisions, 2 targets
  (7,809,030 states without symmetry).

Symmetry is used only in runs without liveness. The proofs remove the bounds from
what they state.

## Fairness

* JobTransactions: strong fairness of a connection's next statement. PostgreSQL
  queues those that wait for a row, and a transaction that can go on does.
* AgentSessions: weak fairness of the Server's own task steps (tokio does not starve
  a ready task) and of a connected Agent's answers. `ConnectionReturns` says that the
  connection eventually stays up; without it every query may be lost.
* DataPlane: weak fairness of handlers and of the Agent's next step; faults are
  bounded by `MaxFaults`, none is forced.
* ChunkStore: weak fairness of an upload's next step and of the Worker's start.
* WorkerControl: weak fairness of the tasks of both processes, of the expiry of a
  deadline, and of the exit of a Worker that is being shut down (the supervisor
  kills it).
* Identity: weak fairness of a redemption's next statement, strong fairness of its
  lock acquisitions.

Nothing forces an operator, a session start, a restart or a fault.

## Proofs

Every theorem is checked by TLAPS and holds for every value of the constants that
satisfies the named `ASSUME`s (sizes are natural numbers, some of them not zero;
`None` is not a member of the sets it is added to; fault sets are subsets of the
faults the module knows). TLC evaluates the assumptions on its instances. The
pattern is the same throughout: an inductive invariant, one lemma per action or
kind of action, and the properties as consequences. The larger
invariants (`IdentityInv`, `PInv`, `CInv`) were checked by TLC on the instances of the
runs before they were proved.

**JobLifecycleProofs** (`IInv`). A decision is *soft*, leaving Job and JobStep alone
and an active Attempt active, or it *ends* an active Attempt together with its
JobStep. `IInv` ties the state of each JobStep to that of its only Attempt; without
that tie nothing excludes a second Attempt of a JobStep that was reverted. From it:
`TypeCorrect`, `NoRedispatch` (one Attempt per JobStep), `Linearity`,
`ActiveMeansLive`, `EndpointExclusivity`, `NothingStranded`, `OutcomesHaveEvidence`
and, as an action property, `Finality`.

**JobServicesProofs**, on JobTransactions (`TxInv`). Two-phase locking: a row has one
holder, a commit changes only rows its call has locked or creates new ones, so what
a call has read is still so when it commits (`Current`); and a call has locked, or is
still to lock, every row its decision depends on (`Purpose`). Hence
`TransactionsRefine`: every commit is one step of JobLifecycle. On ActionExecution:
`RInv` gives `ExecTypeCorrect`, `ReservationsAreHeld` (no reservation is released
while its Attempt is active) and `ExecRefines`. `XInv`, for `MaxTriggers` = 1, says
that what the Agent did, what the messages in flight say and what the records say of
an Attempt agree (`StoriesAgree`); it gives `OutcomesAreTrue`, `StartedAtMostOnce`
and `ExecutionIsExclusive`.

**AgentSessionsProofs** (`SInv`). The correlation of an active Attempt is overwritten
only in its favour (`Faithful`), as long as no fault happened: `InProgressIsAnswered`,
`MarksAreOfCarriers`.

**DestructiveGateProofs** (`GInv`). Revision numbers only grow, so an intent whose two
facts were not current together is behind from the start and stays so; what a
dispatch accepted cannot change under its locks (`Accepted`): `TornIsNeverDispatched`,
`CommitsAreGated`, `StaleStaysDead`.

**IdentityProofs** (`IdentityInv`). One conjunct per kind of object: what a redemption
knows at each statement (`TxOK`), what a chain is made of (`RowOK`), what a resolved
context names (`ContextOK`), what the Agent of the current boot holds (`BootOK`), and
that locks have one holder (`LocksOK`). `StaleJoinIsHarmless` (a join on an outdated
lookup never accepts a superseded credential), `ChainsAreOfTheirBoot`,
`AgentsAreNeverStranded`, and `IdentityRefines`: Identity implements EndpointFacts.

**AuthorizationProofs** (`AInv`). An Attempt, a credential and an Artifact that are over
stay over, and a request that arrived then finds them so when it loads; a spent proof is
in the cache unless a request that read the clock past its window has swept it since
the last restart, or its capability is gone for good (`Spent`): `ProofsAreSpentOnce`,
`NothingIsApprovedOnceOver`.

**TransferProofs**, on TransferLifecycle (`TInv`). Every operation is of one of five
kinds on the transfer records: `VerifiedArtifactsAreComplete`, `BindingsAreOwn`,
`PromisesAreDurable`, and `TransfersRefine` (it implements JobLifecycle). On DataPlane
(`PInv`): what each request in progress and each run of the Agent may know. Files,
sources, verdicts and bindings only accumulate, so what was known once stays true
while others act; that is what makes a handler of a run that was given up harmless.
`HeldChunksAreStored`, `VerifiedArtifactsAreOneSource`, `OutcomesMatchArtifacts`, and
`CaptureRefines` (it implements TransferLifecycle).

**ChunkStoreProofs** (`CInv`). An entry is never replaced, so what a handler linked or
compared stays true without a lock. In a group the chain is longer: who waits is in
the group, the leader has placed the member's bytes or is still to place them, and one
directory sync makes them durable when none is left (`MembersWait`,
`MembersAreServed`). `StoreTypeCorrect`, `AcceptedChunksSurvive`, `BatchesAreDurable`,
and `StoreKeepsPromise`: ChunkStore implements StorePromise.

## Only model-checked

* Liveness: `TransactionsEnd`, `UncertainIsResolved`, `CaptureEnds`, `UploadsEnd`,
  `CallsEnd`, `ShutdownCompletes`, `RedemptionEnds`. TLAPS cannot reason about
  fairness and `ENABLED`.
* WorkerControl: `TypeOK`, `AnswerIsTrue`, `ResumeIsSnapshot` and the action property
  `StaleIsPowerless`.
* `PassesSuffice`: it is true of the instance, not of every value of the constants.
  Each pass that is not the last is one in which the Job's active Attempt changed;
  workflows of three steps stay within seven passes, a longer one can need more.

## Where the code and its documentation differ

Two runs refute a sentence of the specifications:

* `session_stranded`: an Attempt whose send finds no session stays Dispatched and
  nothing but a Server restart resolves it (`outbound_sessions.rs:358`), where
  `m0-job-lifecycle-and-scheduling.md:115` and `:152` promise an acknowledgment timeout.
* `data_plane_lost_response`: when the answer to a committed verification is lost, the
  retry is denied, because no operation is current for a terminal Artifact
  (`transfer_authorization.rs:695`), where `m0-data-plane-and-storage-contracts.md:968`
  says that a lost response is idempotent on retry.

Met while modelling, and part of the model:

* `replay_cache.rs:4` says that "concurrent duplicate proof use cannot both succeed",
  and `:32` that every proof "that can still pass `proof_is_fresh` is still in the
  cache", also when the clock moves backwards. A request reads the clock once, before
  it loads the durable state (`application/mod.rs:4062`), and brings that instant to
  the cache. Two requests with one proof read it within the window; the first is
  approved; a request with another proof that read the clock after the window sweeps
  the entry; the second, whose load was slow, still has the earlier instant, finds no
  entry, and is approved. A clock set back has the same effect. It takes a cache with
  room for two entries. `RepeatOnlyWhenOvertaken` says that this is the only way, and
  TLC reaches it at the instance of the run.
* A second dispatch call after terminal evidence sends again (`application/mod.rs:1148`).
* A CancelAck can leave its Attempt AwaitingReconciliation, and no StatusQuery
  follows until a session starts (`application/mod.rs:2249`).
* A StatusQuery is routed to the newest session even when that one is ending
  (`outbound_sessions.rs:356`).
* The comments at `job_repository.rs:640` and `:976` say that no lock cycle is
  reachable. JobTransactions reaches one: a dispatch holds the Job and waits for a
  JobStep, late or repeated evidence about an earlier Attempt holds that Attempt and
  its JobStep and waits for the Job. PostgreSQL aborts one of the two calls; nothing
  is lost, and the caller sees an error.

## What is left out

* A transfer dispatch that the Agent rejects (it leaves the Artifact Incomplete): the
  modelled Agent rejects no valid dispatch. A source always has `MaxChunks` chunks.
* The transfer rows in JobTransactions: the transactions of `transfer_repository.rs` are
  single steps of TransferLifecycle.
* The branch of `request_cancellation` that gives up after `MAX_PASSES`: unreachable
  at the instance (`PassesSuffice`).
* `identity::retire`, which has no caller. Dispatch is called by tests and lab programs
  and not yet by `bamepd`; the model calls it at any time.
* Power loss in AcceptedSurvivesRestart: `fs_store.rs:439` disclaims it. KeepsPromise
  says what remains true then.
* The contents of messages and their codecs, TLS, configuration, the web application,
  the image builders, the virtual-endpoint crate, scripts and the integration lab
  programs. They hold no state that the parts above share. Together they are more than
  half of the repository's lines; of the Server, domain, Worker and Agent code about a
  third is mapped line by line in `PROJECT.json`.
