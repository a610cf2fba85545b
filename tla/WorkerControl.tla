--------------------------- MODULE WorkerControl ---------------------------
(***************************************************************************)
(* The control connection between the Worker and bamepd: the Worker's      *)
(* driver and its requests (worker/src/ipc/control.rs), bamepd's           *)
(* connection tasks (adapters/worker_control_plane.rs), the registry of    *)
(* the current connection generation (runtime/worker_authority.rs), the    *)
(* transient handles of a generation                                       *)
(* (runtime/transient_worker_operations.rs) and the supervisor that        *)
(* restarts the Worker (runtime/worker_supervisor.rs).                     *)
(*                                                                         *)
(* A call is one HTTP handler of the Worker.  It sends an authorizing      *)
(* request, gets a handle, and sends follow-ups that spend the handle: one *)
(* for "Chunk" and "Seal", one per further page for "Resume".  What the    *)
(* database decides is a choice here; what it stores is `held' (accepted   *)
(* chunks) and `verdicts' (verification committed).  Connections are       *)
(* numbered in the order in which the Worker opens them.                   *)
(***************************************************************************)
EXTENDS Naturals, Sequences, FiniteSets, SequencesExt, FiniteSetsExt

CONSTANTS
  Call,             \* HTTP handlers
  Offers,           \* what each of them may be: handler, operation and chunk
  MaxConns,         \* bound on the connections of one behaviour
  MaxChunks,        \* chunks of the Transfer
  HeldBefore,       \* what the database may hold when the Worker starts
  PageSize,         \* held chunks of one ResumeDiscoveryPage
  Capacity,         \* handles of one generation
  SnapshotCapacity, \* resume snapshots of one generation
  PendingCapacity,  \* requests the driver waits for at once
  MaxBreaks         \* bound on lost connections and Worker exits

ASSUME SizesAssumption ==
  /\ MaxConns \in Nat /\ MaxChunks \in Nat /\ MaxBreaks \in Nat
  /\ PageSize \in Nat \ {0} /\ PendingCapacity \in Nat \ {0}
  /\ Capacity \in Nat /\ SnapshotCapacity \in Nat
ASSUME OffersAssumption ==
  Offers \subseteq Call \X {"Chunk", "Seal", "Resume"} \X (0..(MaxChunks - 1))
ASSUME HeldBeforeAssumption == HeldBefore \subseteq SUBSET (0..(MaxChunks - 1))

Conn == 1..MaxConns
Chunk == 0..(MaxChunks - 1)

VARIABLES
  call,       \* the handlers
  phase,      \* the driver's phase, and "Down" while no Worker process runs
  wconn,      \* the connection the driver uses, 0 for none
  opened,     \* connections opened so far
  open,       \* connections whose Worker end is open
  pending,    \* requests the driver waits for
  conn,       \* bamepd's connection tasks
  toServer, toWorker,   \* bytes under way, in order
  busy,       \* the request a connection task is in the middle of
  current,    \* registry: the current generation, 0 for NoConnection
  handles,    \* live handles of each generation
  snapshots,  \* live resume snapshots of each generation
  held, verdicts,   \* the database
  shutdown,   \* shutdown was requested
  breaks      \* lost connections and exits so far

wires == <<toServer, toWorker>>
driver == <<phase, wconn, opened, open, pending>>
server == <<conn, busy, current, handles, snapshots>>
database == <<held, verdicts>>
vars == <<call, driver, wires, server, database, shutdown, breaks>>

\* A call: `n' counts its requests, `on' is the connection of its ticket,
\* `next' the cursor to send, `got' the pages so far, `saw' (history) the
\* held chunks when its discovery was authorized.
Unused == [op |-> "Chunk", chunk |-> 0, at |-> "Idle", n |-> 0, on |-> 0,
           next |-> 0, got |-> <<>>, saw |-> {}]

\* Where a connection task is in the middle of a request, and the held chunks
\* that a discovery read (ResumeSnapshotFacts).
Doing(at, msg, facts) == [at |-> at, msg |-> msg, facts |-> facts]
Free == Doing("None", <<>>, {})

Init ==
  /\ call = [c \in Call |-> Unused]
  /\ phase = "Disconnected" /\ wconn = 0 /\ opened = 0
  /\ open = {} /\ pending = {}
  /\ conn = [k \in Conn |-> "None"]
  /\ toServer = [k \in Conn |-> <<>>] /\ toWorker = [k \in Conn |-> <<>>]
  /\ busy = [k \in Conn |-> Free]
  /\ current = 0
  /\ handles = [k \in Conn |-> {}] /\ snapshots = [k \in Conn |-> {}]
  /\ held \in HeldBefore /\ verdicts = {}
  /\ shutdown = FALSE /\ breaks = 0

\* A call that ends without success; what it knew is forgotten.
Ended(rec, how) == [Unused EXCEPT !.op = rec.op, !.chunk = rec.chunk, !.at = how]

Waiting(c) == call[c].at = "Waiting"
InFlight(c) == call[c].at \in {"Waiting", "Between"}

-----------------------------------------------------------------------------
\* The Worker's handlers and the driver's request arm.

\* The request reaches the driver of the published channel: too many waiting
\* requests is an error, and so is a connection bamepd has closed; otherwise
\* it is registered and sent.
Send(c, rec, handle) ==
  IF Cardinality(pending) < PendingCapacity /\ conn[wconn] # "Closed"
  THEN /\ call' = [call EXCEPT ![c] = rec]
       /\ pending' = pending \cup {<<c, rec.n>>}
       /\ toServer' = [toServer EXCEPT
            ![wconn] = Append(@, [call |-> c, n |-> rec.n, handle |-> handle])]
  ELSE /\ call' = [call EXCEPT ![c] = Ended(call[c], "Error")]
       /\ UNCHANGED <<pending, toServer>>

send_request(c, op, i) ==
  /\ phase # "Down" /\ call[c].at = "Idle"
  /\ LET rec == [Unused EXCEPT !.op = op, !.chunk = i, !.at = "Waiting", !.on = wconn]
     IN IF phase = "Ready"
        THEN Send(c, rec, <<>>)
        ELSE /\ call' = [call EXCEPT ![c] = Ended(call[c], "Error")]
             /\ UNCHANGED <<pending, toServer>>
  /\ UNCHANGED <<phase, wconn, opened, open, toWorker, server, database, shutdown, breaks>>

\* A follow-up goes out only on the connection that issued its ticket.
send_scoped_request(c) ==
  /\ call[c].at = "Between"
  /\ LET rec == [call[c] EXCEPT !.at = "Waiting", !.n = @ + 1]
     IN IF phase = "Ready" /\ wconn = call[c].on
        THEN Send(c, rec, <<c, call[c].next>>)
        ELSE /\ call' = [call EXCEPT ![c] = Ended(@, "Error")]
             /\ UNCHANGED <<pending, toServer>>
  /\ UNCHANGED <<phase, wconn, opened, open, toWorker, server, database, shutdown, breaks>>

\* What a handler does with the answer to its request.
Answered(rec, m) ==
  CASE ~m.ok -> Ended(rec, "Denied")
    [] rec.op = "Resume" ->
         [rec EXCEPT !.got = @ \o m.page, !.next = m.next,
                     !.at = IF m.next = 0 THEN "Ok" ELSE "Between"]
    [] OTHER -> [rec EXCEPT !.at = IF rec.n = 0 THEN "Between" ELSE "Ok"]

\* Faulty variant: an answer completes any waiting request of its kind.
FaultyInbound(m) ==
  \E p \in pending :
    /\ p[2] = m.n /\ call[p[1]].op = call[m.call].op
    /\ pending' = pending \ {p}
    /\ call' = [call EXCEPT ![p[1]] = Answered(@, m)]

\* The driver's inbound arm: a late answer matches no waiting request and
\* is ignored.
classify_inbound(m) ==
  IF <<m.call, m.n>> \in pending
  THEN /\ pending' = pending \ {<<m.call, m.n>>}
       /\ call' = [call EXCEPT ![m.call] = Answered(@, m)]
  ELSE UNCHANGED <<pending, call>>

receive(k) ==
  /\ wconn = k /\ phase = "Ready" /\ toWorker[k] # <<>>
  /\ classify_inbound(Head(toWorker[k]))
  /\ toWorker' = [toWorker EXCEPT ![k] = Tail(@)]
  /\ UNCHANGED <<phase, wconn, opened, open, toServer, server, database, shutdown, breaks>>

deadline(c) ==
  /\ Waiting(c) /\ <<c, call[c].n>> \in pending
  /\ pending' = pending \ {<<c, call[c].n>>}
  /\ call' = [call EXCEPT ![c] = Ended(@, "Error")]
  /\ UNCHANGED <<phase, wconn, opened, open, wires, server, database, shutdown, breaks>>

-----------------------------------------------------------------------------
\* The driver's connections, and the Worker process.

connect ==
  /\ phase = "Disconnected" /\ opened < MaxConns /\ ~shutdown
  /\ opened' = opened + 1 /\ wconn' = opened + 1
  /\ open' = open \cup {opened + 1}
  /\ phase' = "Handshaking"
  /\ conn' = [conn EXCEPT ![opened + 1] = "Accepted"]
  /\ UNCHANGED <<call, pending, wires, busy, current, handles, snapshots,
                 database, shutdown, breaks>>

\* The ServerHello arrives: the driver publishes its channel.
perform_handshake ==
  /\ phase = "Handshaking" /\ conn[wconn] \in {"Hello", "Serving"}
  /\ phase' = "Ready"
  /\ UNCHANGED <<call, wconn, opened, open, pending, wires, server, database,
                 shutdown, breaks>>

\* The driver leaves the connection: every waiting request is ConnectionLost.
Disconnect(to) ==
  /\ phase' = to /\ wconn' = 0 /\ pending' = {}
  /\ open' = open \ {wconn}
  /\ toWorker' = [k \in Conn |-> IF k = wconn THEN <<>> ELSE toWorker[k]]
  /\ UNCHANGED <<opened, toServer>>

\* Faulty variant: the waiting requests are forgotten without an answer.
FaultyRunConnection ==
  /\ wconn # 0
  /\ \/ conn[wconn] = "Closed" /\ UNCHANGED breaks
     \/ breaks < MaxBreaks /\ breaks' = breaks + 1
  /\ Disconnect("Disconnected")
  /\ UNCHANGED <<call, server, database, shutdown>>

\* End of run_one_connection: bamepd closed it (answers not yet read may be
\* lost), or an input or an output of it failed.
run_one_connection ==
  /\ wconn # 0
  /\ \/ conn[wconn] = "Closed" /\ UNCHANGED breaks
     \/ breaks < MaxBreaks /\ breaks' = breaks + 1
  /\ Disconnect("Disconnected")
  /\ call' = [c \in Call |-> IF <<c, call[c].n>> \in pending
                             THEN Ended(call[c], "Error") ELSE call[c]]
  /\ UNCHANGED <<server, database, shutdown>>

\* The Worker process ends, by itself or killed by the supervisor, and its
\* handlers with it.
worker_exits ==
  /\ phase # "Down"
  /\ \/ shutdown /\ UNCHANGED breaks
     \/ breaks < MaxBreaks /\ breaks' = breaks + 1
  /\ Disconnect("Down")
  /\ call' = [c \in Call |-> IF InFlight(c) THEN Ended(call[c], "Error")
                             ELSE call[c]]
  /\ UNCHANGED <<server, database, shutdown>>

\* Faulty variant: the restart loop does not look at the shutdown.
FaultySupervise ==
  /\ phase = "Down"
  /\ phase' = "Disconnected"
  /\ UNCHANGED <<call, wconn, opened, open, pending, wires, server, database,
                 shutdown, breaks>>

\* WorkerSupervisor::run: after the restart delay the Worker is spawned again.
supervise ==
  /\ phase = "Down" /\ ~shutdown
  /\ phase' = "Disconnected"
  /\ UNCHANGED <<call, wconn, opened, open, pending, wires, server, database,
                 shutdown, breaks>>

request_shutdown ==
  /\ ~shutdown /\ shutdown' = TRUE
  /\ UNCHANGED <<call, driver, wires, server, database, breaks>>

-----------------------------------------------------------------------------
\* bamepd's connection tasks.

\* Faulty variant: the end of any connection clears the registry.
FaultyEndGeneration(k) == current' = 0

\* Only the generation that is still current clears the registry.
end_generation(k) == current' = IF current = k THEN 0 ELSE current

\* The task ends: its guard ends the generation, and the store goes with it.
EndTask(k) ==
  /\ conn' = [conn EXCEPT ![k] = "Closed"]
  /\ busy' = [busy EXCEPT ![k] = Free]
  /\ end_generation(k)
  /\ handles' = [handles EXCEPT ![k] = {}]
  /\ snapshots' = [snapshots EXCEPT ![k] = {}]

\* The WorkerHello is answered; a shutdown, or a Worker that is gone, ends it.
handshake_as_server(k) ==
  /\ conn[k] = "Accepted"
  /\ conn' = [conn EXCEPT ![k] = IF shutdown \/ k \notin open THEN "Closed" ELSE "Hello"]
  /\ UNCHANGED <<call, driver, wires, busy, current, handles, snapshots,
                 database, shutdown, breaks>>

\* The task installs its generation, whatever is current, and starts to serve.
begin_generation(k) ==
  /\ conn[k] = "Hello"
  /\ conn' = [conn EXCEPT ![k] = "Serving"]
  /\ current' = k
  /\ UNCHANGED <<call, driver, wires, busy, handles, snapshots, database,
                 shutdown, breaks>>

\* with_bindings, with_snapshots: under the registry's lock.
with_current_generation(k) == current = k

\* The loop waits for the next message.
Serving(k) == conn[k] = "Serving" /\ busy[k] = Free
Next1(k) == Serving(k) /\ toServer[k] # <<>>
Msg(k) == Head(toServer[k])
Take(k) == toServer' = [toServer EXCEPT ![k] = Tail(@)]

\* A response is written, or the write fails and the task ends.
Reply(k, m, hs, ss) ==
  IF k \in open
  THEN /\ toWorker' = [toWorker EXCEPT ![k] = Append(@, m)]
       /\ busy' = [busy EXCEPT ![k] = Free]
       /\ handles' = [handles EXCEPT ![k] = hs]
       /\ snapshots' = [snapshots EXCEPT ![k] = ss]
       /\ UNCHANGED <<conn, current>>
  ELSE EndTask(k) /\ UNCHANGED toWorker

Silent(k) ==
  /\ busy' = [busy EXCEPT ![k] = Free]
  /\ UNCHANGED <<toWorker, conn, current, handles, snapshots>>

Yes(m) == [call |-> m.call, n |-> m.n, ok |-> TRUE, page |-> <<>>, next |-> 0]
No(m) == [Yes(m) EXCEPT !.ok = FALSE]
Page(m, page, next) == [Yes(m) EXCEPT !.page = page, !.next = next]

\* insert_fresh: the generation is current and its store is not saturated.
CanMint(k) == with_current_generation(k) /\ Cardinality(handles[k]) < Capacity

ServerStep == UNCHANGED <<driver, shutdown, breaks>>

\* AuthorizationQuery: decided by the database, then the handle is minted.
decide_authorization_query(k) ==
  /\ Next1(k) /\ Msg(k).n = 0 /\ call[Msg(k).call].op = "Chunk"
  /\ Take(k)
  /\ \E approved \in BOOLEAN :
       IF approved /\ CanMint(k)
       THEN Reply(k, Yes(Msg(k)), handles[k] \cup {<<Msg(k).call, 0>>}, snapshots[k])
       ELSE Reply(k, No(Msg(k)), handles[k], snapshots[k])
  /\ ServerStep /\ UNCHANGED <<call, database>>

\* The handle of a single-use follow-up is spent before anything is decided.
consume(k) ==
  /\ Next1(k) /\ Msg(k).n > 0 /\ call[Msg(k).call].op # "Resume"
  /\ Take(k)
  /\ IF with_current_generation(k) /\ Msg(k).handle \in handles[k]
     THEN /\ handles' = [handles EXCEPT ![k] = @ \ {Msg(k).handle}]
          /\ busy' = [busy EXCEPT ![k] = Doing("Consumed", Msg(k), {})]
     ELSE UNCHANGED <<handles, busy>>
  /\ ServerStep /\ UNCHANGED <<call, database, toWorker, conn, current, snapshots>>

Busy(k, at, op) ==
  conn[k] = "Serving" /\ busy[k].at = at /\ call[busy[k].msg.call].op = op

\* ChunkAcceptanceRequest: committed, rejected, or no response, where the
\* commit may or may not have taken effect.
handle_chunk_acceptance(k) ==
  /\ Busy(k, "Consumed", "Chunk")
  /\ LET m == busy[k].msg
         grown == held \cup {call[m.call].chunk}
     IN \/ held' = grown /\ Reply(k, Yes(m), handles[k], snapshots[k])
        \/ held' = held /\ Reply(k, No(m), handles[k], snapshots[k])
        \/ held' \in {held, grown} /\ Silent(k)
  /\ ServerStep /\ UNCHANGED <<call, verdicts, toServer>>

\* ManifestSealRequest: the seal is committed first ...
commit_manifest_seal(k) ==
  /\ Next1(k) /\ Msg(k).n = 0 /\ call[Msg(k).call].op = "Seal"
  /\ Take(k)
  /\ \/ /\ busy' = [busy EXCEPT ![k] = Doing("Sealed", Msg(k), {})]
        /\ UNCHANGED <<toWorker, conn, current, handles, snapshots>>
     \/ Reply(k, No(Msg(k)), handles[k], snapshots[k])
     \/ Silent(k)
  /\ ServerStep /\ UNCHANGED <<call, database>>

\* ... and the verification handle minted after it: without one there is no
\* response.
handle_manifest_seal(k) ==
  /\ Busy(k, "Sealed", "Seal")
  /\ LET m == busy[k].msg
     IN IF CanMint(k)
        THEN Reply(k, Yes(m), handles[k] \cup {<<m.call, 0>>}, snapshots[k])
        ELSE Silent(k)
  /\ ServerStep /\ UNCHANGED <<call, database, toServer>>

\* ArtifactVerificationReport: the verdict is committed, or there is no
\* response, where the commit may or may not have taken effect.
handle_artifact_verification(k) ==
  /\ Busy(k, "Consumed", "Seal")
  /\ LET m == busy[k].msg
         grown == verdicts \cup {m.call}
     IN \/ verdicts' = grown /\ Reply(k, Yes(m), handles[k], snapshots[k])
        \/ verdicts' \in {verdicts, grown} /\ Silent(k)
  /\ ServerStep /\ UNCHANGED <<call, held, toServer>>

\* The chunks of one page, and the cursor that remains after it.
Sorted(S) == SetToSortSeq(S, LAMBDA a, b : a < b)
PageFrom(S, next) ==
  LET rest == Sorted({i \in S : i >= next})
  IN SubSeq(rest, 1, IF Len(rest) < PageSize THEN Len(rest) ELSE PageSize)
CursorAfter(S, next) ==
  IF Cardinality({i \in S : i >= next}) <= PageSize
  THEN 0 ELSE Last(PageFrom(S, next)) + 1

\* ResumeDiscoveryQuery: the database authorizes it and reads the held chunks.
authorize_resume_discovery(k) ==
  /\ Next1(k) /\ Msg(k).n = 0 /\ call[Msg(k).call].op = "Resume"
  /\ Take(k)
  /\ \/ /\ busy' = [busy EXCEPT ![k] = Doing("Read", Msg(k), held)]
        /\ call' = [call EXCEPT ![Msg(k).call].saw = held]
        /\ UNCHANGED <<toWorker, conn, current, handles, snapshots>>
     \/ Reply(k, No(Msg(k)), handles[k], snapshots[k]) /\ UNCHANGED call
  /\ ServerStep /\ UNCHANGED database

\* One page answers it, or the snapshot is registered ...
handle_resume_discovery_query(k) ==
  /\ Busy(k, "Read", "Resume")
  /\ LET m == busy[k].msg
         S == busy[k].facts
     IN IF CursorAfter(S, 0) = 0
        THEN Reply(k, Page(m, PageFrom(S, 0), 0), handles[k], snapshots[k])
        ELSE IF with_current_generation(k) /\ Cardinality(snapshots[k]) < SnapshotCapacity
        THEN /\ snapshots' = [snapshots EXCEPT ![k] = @ \cup {[call |-> m.call, held |-> S]}]
             /\ busy' = [busy EXCEPT ![k] = Doing("Registered", m, S)]
             /\ UNCHANGED <<toWorker, conn, current, handles>>
        ELSE Reply(k, No(m), handles[k], snapshots[k])
  /\ ServerStep /\ UNCHANGED <<call, database, toServer>>

\* Faulty variant: a snapshot whose cursor cannot be minted is kept.
FaultyMint(k) ==
  /\ Busy(k, "Registered", "Resume")
  /\ LET m == busy[k].msg
         S == busy[k].facts
         after == CursorAfter(S, 0)
     IN IF CanMint(k)
        THEN Reply(k, Page(m, PageFrom(S, 0), after),
                   handles[k] \cup {<<m.call, after>>}, snapshots[k])
        ELSE Reply(k, No(m), handles[k], snapshots[k])
  /\ ServerStep /\ UNCHANGED <<call, database, toServer>>

\* Before the answer `m' is sent, its snapshot is to be dropped.
ThenDrop(k, m) ==
  /\ busy' = [busy EXCEPT ![k] = Doing("Drop", m, {})]
  /\ UNCHANGED <<toWorker, conn, current, snapshots>>

\* ... and its cursor minted, under the registry's lock again.
mint_resume_cursor(k) ==
  /\ Busy(k, "Registered", "Resume")
  /\ LET m == busy[k].msg
         S == busy[k].facts
         after == CursorAfter(S, 0)
     IN IF CanMint(k)
        THEN Reply(k, Page(m, PageFrom(S, 0), after),
                   handles[k] \cup {<<m.call, after>>}, snapshots[k])
        ELSE ThenDrop(k, No(m)) /\ UNCHANGED handles
  /\ ServerStep /\ UNCHANGED <<call, database, toServer>>

SnapshotOf(k, c) == {s \in snapshots[k] : s.call = c}

\* The third critical section: nothing happens when another generation has
\* become current since.
drop_resume_snapshot(k) ==
  /\ Busy(k, "Drop", "Resume")
  /\ LET m == busy[k].msg
     IN Reply(k, m, handles[k], IF with_current_generation(k)
                                THEN snapshots[k] \ SnapshotOf(k, m.call)
                                ELSE snapshots[k])
  /\ ServerStep /\ UNCHANGED <<call, database, toServer>>

\* Faulty variant: a continuation reads the held chunks again.
FaultyContinue(k) ==
  /\ Next1(k) /\ Msg(k).n > 0 /\ call[Msg(k).call].op = "Resume"
  /\ Take(k)
  /\ LET m == Msg(k)
         page == PageFrom(held, m.handle[2])
         after == CursorAfter(held, m.handle[2])
         rest == handles[k] \ {m.handle}
     IN IF with_current_generation(k) /\ m.handle \in handles[k]
        THEN IF after = 0
             THEN ThenDrop(k, Page(m, page, 0)) /\ handles' = [handles EXCEPT ![k] = rest]
             ELSE Reply(k, Page(m, page, after), rest \cup {<<m.call, after>>},
                        snapshots[k])
        ELSE Reply(k, No(m), handles[k], snapshots[k])
  /\ ServerStep /\ UNCHANGED <<call, database>>

\* The page after the cursor: the cursor is replaced by its successor, and
\* the last page spends it and drops the snapshot.  The reads before
\* advance_resume_cursor are part of this step: a generation that is
\* superseded between them gives the denial it gives when it is superseded
\* before, and a superseded one never is current again.
handle_resume_discovery_continue(k) ==
  /\ Next1(k) /\ Msg(k).n > 0 /\ call[Msg(k).call].op = "Resume"
  /\ Take(k)
  /\ LET m == Msg(k)
         rest == handles[k] \ {m.handle}
     IN IF with_current_generation(k) /\ m.handle \in handles[k]
           /\ SnapshotOf(k, m.call) # {}
        THEN \E s \in SnapshotOf(k, m.call) :
               LET page == PageFrom(s.held, m.handle[2])
                   after == CursorAfter(s.held, m.handle[2])
               IN IF after = 0
                  THEN ThenDrop(k, Page(m, page, 0)) /\ handles' = [handles EXCEPT ![k] = rest]
                  ELSE Reply(k, Page(m, page, after), rest \cup {<<m.call, after>>},
                             snapshots[k])
        ELSE Reply(k, No(m), handles[k], snapshots[k])
  /\ ServerStep /\ UNCHANGED <<call, database>>

\* The loop ends: the Worker's end is closed, or a shutdown was requested.
handle_connection(k) ==
  /\ Serving(k)
  /\ shutdown \/ (toServer[k] = <<>> /\ k \notin open)
  /\ EndTask(k)
  /\ toServer' = [toServer EXCEPT ![k] = <<>>]
  /\ ServerStep /\ UNCHANGED <<call, database, toWorker>>

-----------------------------------------------------------------------------
ServerTask(k) ==
  \/ handshake_as_server(k) \/ begin_generation(k)
  \/ decide_authorization_query(k) \/ consume(k) \/ handle_chunk_acceptance(k)
  \/ commit_manifest_seal(k) \/ handle_manifest_seal(k)
  \/ handle_artifact_verification(k)
  \/ authorize_resume_discovery(k) \/ handle_resume_discovery_query(k)
  \/ mint_resume_cursor(k) \/ drop_resume_snapshot(k)
  \/ handle_resume_discovery_continue(k)
  \/ handle_connection(k)

Next ==
  \/ \E offer \in Offers : send_request(offer[1], offer[2], offer[3])
  \/ \E c \in Call : send_scoped_request(c) \/ deadline(c)
  \/ \E k \in Conn : receive(k) \/ ServerTask(k)
  \/ connect \/ perform_handshake \/ run_one_connection
  \/ worker_exits \/ supervise \/ request_shutdown

Fairness ==
  /\ \A c \in Call : WF_vars(send_scoped_request(c)) /\ WF_vars(deadline(c))
  /\ \A k \in Conn : WF_vars(receive(k)) /\ WF_vars(ServerTask(k))
  /\ WF_vars(shutdown /\ worker_exits)

Spec == Init /\ [][Next]_vars /\ Fairness

-----------------------------------------------------------------------------
Handle == Call \X (0..MaxChunks)

\* The variables keep their types; no store outgrows its capacity
\* (insert_fresh, register_resume_snapshot) and the driver waits for no more
\* requests than it may (run_one_connection).  A resume snapshot of the current
\* generation lives only as long as a cursor can reach it, or the handler that
\* registered it or spent its last cursor is under way: no error path of a
\* query or a continuation leaves one behind that would fill the capacity.  (A
\* generation that is superseded between the critical sections may keep one
\* until its connection ends.)
TypeOK ==
  /\ \A c \in Call : call[c].at \in {"Idle", "Waiting", "Between", "Ok", "Denied", "Error"}
  /\ phase \in {"Down", "Disconnected", "Handshaking", "Ready"}
  /\ wconn \in 0..MaxConns /\ (wconn = 0 <=> phase \in {"Down", "Disconnected"})
  /\ open \subseteq 1..opened
  /\ Cardinality(pending) <= PendingCapacity
  /\ \A k \in Conn :
       /\ conn[k] \in {"None", "Accepted", "Hello", "Serving", "Closed"}
       /\ handles[k] \subseteq Handle /\ Cardinality(handles[k]) <= Capacity
       /\ Cardinality(snapshots[k]) <= SnapshotCapacity
  /\ current \in 0..MaxConns
  /\ held \subseteq Chunk /\ verdicts \subseteq Call
  /\ \A k \in Conn : current = k =>
       \A s \in snapshots[k] :
         \/ \E h \in handles[k] : h[1] = s.call /\ h[2] > 0
         \/ busy[k].at \in {"Registered", "Drop"} /\ busy[k].msg.call = s.call

\* A handler that reports success reports what the database stored: an
\* accepted chunk is held and a verdict was committed for this very seal,
\* although answers may come after their request timed out, and other
\* requests of the same kind are waiting (run_one_connection correlates by
\* message id, ChunkAcceptanceDecision and ArtifactVerificationAck follow the
\* commit).
AnswerIsTrue ==
  \A c \in Call :
    call[c].at = "Ok" =>
      /\ call[c].op = "Chunk" => call[c].chunk \in held
      /\ call[c].op = "Seal" => c \in verdicts

\* The pages a discovery aggregates are exactly the chunks held when it was
\* authorized, each once and in order, whatever is accepted meanwhile, and
\* on whatever generation (discover_resume, the snapshot of
\* handle_resume_discovery_query).
ResumeIsSnapshot ==
  \A c \in Call :
    call[c].at = "Ok" /\ call[c].op = "Resume" => call[c].got = Sorted(call[c].saw)

\* A generation that is not current is powerless: it can neither mint nor
\* spend a handle, its store only changes by being discarded with its
\* connection (with_current_generation holds the registry's lock around
\* both), and its end does not take the current one away: "A stale
\* generation's later disconnect can never revert state back from a newer
\* generation" (worker_authority.rs).
StaleIsPowerless ==
  [][/\ \A k \in Conn :
          handles'[k] # handles[k] => current = k \/ conn'[k] = "Closed"
     /\ current # 0 /\ current' = 0 =>
          conn[current] # "Closed" /\ conn'[current] = "Closed"]_vars

\* Every handler that sent a request is answered in the end, by a decision,
\* a timeout or the loss of the connection, although bamepd leaves some
\* requests without a response (discarded handles, failed commits).
CallsEnd == \A c \in Call : InFlight(c) ~> ~InFlight(c)

\* A requested shutdown ends the Worker and every connection task for good
\* (the supervisor kills and does not restart, the loops watch the shutdown).
ShutdownCompletes ==
  shutdown ~> [](phase = "Down" /\ \A k \in Conn : conn[k] \in {"None", "Closed"})
====
