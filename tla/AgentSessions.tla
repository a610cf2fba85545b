--------------------------- MODULE AgentSessions ---------------------------
(***************************************************************************)
(* Authenticated sessions of one Endpoint: the outbound session directory  *)
(* (server/src/runtime/outbound_sessions.rs) with its dispatch             *)
(* correlation, and the gateway's session task around it                   *)
(* (server/src/adapters/agent_gateway.rs), which decides whether losing a  *)
(* session makes the Endpoint's active Attempt uncertain.                  *)
(*                                                                         *)
(* Every await of the code is a point where other actors may run: between  *)
(* resolving a session and queueing on it, between committing evidence and *)
(* rebinding the correlation, between the end of the message loop, the     *)
(* capture of the correlation, the deregistration, the uncertainty mark    *)
(* and the StatusQuery that follow it.  Attempts are reduced to what       *)
(* sessions see of them; that at most one is active on an Endpoint is      *)
(* OneActiveAttemptPerEndpoint of JobLifecycle.                            *)
(***************************************************************************)
EXTENDS Naturals, Sequences

CONSTANTS Session,      \* session identifiers; one can be drawn again only
                        \* when nothing remembers its previous session
          Attempt,      \* Attempt (= action) identifiers
          None,         \* no session, no Attempt
          Faults        \* which of these can happen:
                        \* "Cancel": an operator cancels a Job whose
                        \*   Attempt is active;
                        \* "MarkFails": the transaction that makes a lost
                        \*   session's Attempt uncertain fails

ASSUME NoneAssumption ==
  None \notin Session \cup Attempt \cup (Session \X Attempt) \cup {"Pending"}
ASSUME PendingAssumption == "Pending" \notin Session
ASSUME FaultsAssumption == Faults \subseteq {"Cancel", "MarkFails"}

VARIABLES
  attempt,      \* attempts.state, all terminal states being "Terminal"
  call,         \* the dispatch call of an Attempt: "Pending" until it has
                \* resolved a session, then that session, None when it is over
  phase,        \* where the session task is
  live,         \* live_sessions, oldest to newest
  correlation,  \* dispatch_correlation: <<session, action>> or None
  channel,      \* commands queued on the session's outbound channel
  rebinding,    \* the action whose evidence the session task has committed
                \* and for which it has not yet rebound the correlation
  captured,     \* dispatch_relevant_action, as read when the loop ended
  starting,     \* a spawned reconcile_on_session_start is still to run
  known,        \* the Agent's record of an action
  asked,        \* sessions on which the Agent has an unanswered StatusQuery
  carriers,     \* sessions that carried or confirmed the action (history)
  faulted       \* the Faults that have happened (history)

dirVars == <<live, correlation>>
taskVars == <<phase, rebinding, captured, starting>>
agentVars == <<known, asked>>
history == <<carriers, faulted>>
vars == <<attempt, call, dirVars, taskVars, channel, agentVars, history>>

\* What the directory and its invariant need of sequences, as SequencesExt
\* defines it (the provers are several times slower in the presence of that
\* whole library).
Last(q) == q[Len(q)]
RemoveAt(q, i) == SubSeq(q, 1, i - 1) \o SubSeq(q, i + 1, Len(q))
ToSet(q) == {q[i] : i \in DOMAIN q}
IsInjective(q) == \A i, j \in DOMAIN q : q[i] = q[j] => i = j

Executing == {"Dispatched", "InProgress"}
Active == Executing \cup {"AwaitingReconciliation"}

Dispatch(a) == [type |-> "ActionDispatch", action |-> a]
Query(a) == [type |-> "StatusQuery", action |-> a]

Init ==
  /\ attempt = [a \in Attempt |-> "Absent"]
  /\ call = [a \in Attempt |-> None]
  /\ phase = [s \in Session |-> "Gone"]
  /\ live = <<>> /\ correlation = None
  /\ channel = [s \in Session |-> {}]
  /\ rebinding = [s \in Session |-> None]
  /\ captured = [s \in Session |-> None]
  /\ starting = {}
  /\ known = [a \in Attempt |-> "Unknown"]
  /\ asked = [a \in Attempt |-> {}]
  /\ carriers = [a \in Attempt |-> {}]
  /\ faulted = {}

-----------------------------------------------------------------------------
(* Dispatch: the commit, then OutboundSessionDirectory::send.              *)

commit_dispatch(a) ==
  /\ attempt[a] = "Absent"
  /\ \A b \in Attempt : attempt[b] \notin Active
  /\ attempt' = [attempt EXCEPT ![a] = "Dispatched"]
  /\ call' = [call EXCEPT ![a] = "Pending"]
  /\ UNCHANGED <<dirVars, taskVars, channel, agentVars, history>>

\* Under the directory's lock: select the newest session, correlate it.
resolve(a) ==
  /\ call[a] = "Pending"
  /\ IF live = <<>>
     THEN /\ call' = [call EXCEPT ![a] = None]
          /\ UNCHANGED <<correlation, carriers>>
     ELSE /\ call' = [call EXCEPT ![a] = Last(live)]
          /\ correlation' = <<Last(live), a>>
          /\ carriers' = [carriers EXCEPT ![a] = @ \cup {Last(live)}]
  /\ UNCHANGED <<attempt, live, taskVars, channel, agentVars, faulted>>

\* A session task that has returned has dropped its receiver.
enqueue(a) ==
  /\ call[a] \in Session
  /\ channel' = IF phase[call[a]] = "Gone" THEN channel
                ELSE [channel EXCEPT ![call[a]] = @ \cup {Dispatch(a)}]
  /\ call' = [call EXCEPT ![a] = None]
  /\ UNCHANGED <<attempt, dirVars, taskVars, agentVars, history>>

-----------------------------------------------------------------------------
(* reconcile_on_session_start: query the AwaitingReconciliation Attempt,   *)
(* if there is one, through whichever session is newest now.               *)

WithStatusQuery ==
  IF live = <<>> THEN channel
  ELSE [channel EXCEPT ![Last(live)] =
          @ \cup {Query(a) : a \in {b \in Attempt :
                                      attempt[b] = "AwaitingReconciliation"}}]

\* Faulty variant: a new session does not ask about uncertain work.
FaultyStart(s) ==
  /\ phase[s] = "Gone"
  /\ correlation # None => correlation[1] # s
  /\ \A a \in Attempt : call[a] # s
  /\ phase' = [phase EXCEPT ![s] = "Live"]
  /\ live' = Append(live, s)
  /\ carriers' = [a \in Attempt |-> carriers[a] \ {s}]
  /\ UNCHANGED <<attempt, call, correlation, rebinding, captured, starting, channel, agentVars, faulted>>

session_start(s) ==
  /\ phase[s] = "Gone"
  /\ correlation # None => correlation[1] # s
  /\ \A a \in Attempt : call[a] # s
  /\ s \notin starting
  /\ phase' = [phase EXCEPT ![s] = "Live"]
  /\ live' = Append(live, s)
  /\ starting' = starting \cup {s}
  /\ carriers' = [a \in Attempt |-> carriers[a] \ {s}]
  /\ UNCHANGED <<attempt, call, correlation, rebinding, captured, channel, agentVars, faulted>>

reconcile_on_session_start(s) ==
  /\ s \in starting
  /\ starting' = starting \ {s}
  /\ channel' = WithStatusQuery
  /\ UNCHANGED <<attempt, call, dirVars, phase, rebinding, captured, agentVars, history>>

-----------------------------------------------------------------------------
(* run_message_loop.  The task is busy while it still has to rebind.       *)

InLoop(s) == phase[s] = "Live" /\ rebinding[s] = None

\* One queued command is written to the socket and reaches the Agent.
transmit(s, m) ==
  /\ InLoop(s) /\ m \in channel[s]
  /\ channel' = [channel EXCEPT ![s] = @ \ {m}]
  /\ IF m.type = "StatusQuery"
     THEN asked' = [asked EXCEPT ![m.action] = @ \cup {s}] /\ UNCHANGED known
     ELSE /\ known' = [known EXCEPT ![m.action] = IF @ = "Unknown" THEN "Active" ELSE @]
          /\ UNCHANGED asked
  /\ UNCHANGED <<attempt, call, dirVars, taskVars, history>>

\* Evidence that keeps the Attempt executing: committed, then rebound.
CommitInProgress(s, a) ==
  /\ attempt' = [attempt EXCEPT ![a] = "InProgress"]
  /\ rebinding' = [rebinding EXCEPT ![s] = a]
  /\ carriers' = [carriers EXCEPT ![a] = @ \cup {s}]

\* ActionAck{Accepted}, on any session of the Agent.
handle_action_ack(s, a) ==
  /\ InLoop(s) /\ known[a] # "Unknown"
  /\ attempt[a] = "Dispatched"
  /\ CommitInProgress(s, a)
  /\ UNCHANGED <<call, dirVars, phase, captured, starting, channel, agentVars, faulted>>

\* ActionResult: authoritative unless the Attempt is uncertain.
handle_action_result(s, a) ==
  /\ InLoop(s) /\ known[a] = "Completed"
  /\ attempt[a] \in Executing
  /\ attempt' = [attempt EXCEPT ![a] = "Terminal"]
  /\ UNCHANGED <<call, dirVars, taskVars, channel, agentVars, history>>

\* StatusReport, in answer to a StatusQuery on the same session.
handle_status_report(s, a) ==
  /\ InLoop(s) /\ s \in asked[a]
  /\ asked' = [asked EXCEPT ![a] = @ \ {s}]
  /\ IF attempt[a] = "AwaitingReconciliation" /\ known[a] = "Active"
     THEN CommitInProgress(s, a)
     ELSE /\ attempt' = IF attempt[a] = "AwaitingReconciliation" /\ known[a] = "Completed"
                        THEN [attempt EXCEPT ![a] = "Terminal"] ELSE attempt
          /\ UNCHANGED <<rebinding, carriers>>
  /\ UNCHANGED <<call, dirVars, phase, captured, starting, channel, known, faulted>>

\* Compare and swap: a correlation that names another action is newer.
bind_dispatch_relevant_session(s) ==
  /\ rebinding[s] # None
  /\ correlation' = IF correlation # None /\ correlation[2] # rebinding[s]
                    THEN correlation ELSE <<s, rebinding[s]>>
  /\ rebinding' = [rebinding EXCEPT ![s] = None]
  /\ UNCHANGED <<attempt, call, live, phase, captured, starting, channel, agentVars, history>>

-----------------------------------------------------------------------------
(* The end of a session: run_authenticated_session after its loop.         *)

loop_end(s) ==
  /\ InLoop(s)
  /\ phase' = [phase EXCEPT ![s] = "Ended"]
  /\ asked' = [a \in Attempt |-> asked[a] \ {s}]
  /\ UNCHANGED <<attempt, call, dirVars, rebinding, captured, starting, channel, known, history>>

\* Faulty variant: the Endpoint's last dispatch, whichever session carried it.
FaultyRelevantAction(s) ==
  /\ phase[s] = "Ended"
  /\ captured' = [captured EXCEPT ![s] = IF correlation # None THEN correlation[2] ELSE None]
  /\ phase' = [phase EXCEPT ![s] = "Captured"]
  /\ UNCHANGED <<attempt, call, dirVars, rebinding, starting, channel, agentVars, history>>

dispatch_relevant_action(s) ==
  /\ phase[s] = "Ended"
  /\ captured' = [captured EXCEPT
                    ![s] = IF correlation # None /\ correlation[1] = s
                           THEN correlation[2] ELSE None]
  /\ phase' = [phase EXCEPT ![s] = "Captured"]
  /\ UNCHANGED <<attempt, call, dirVars, rebinding, starting, channel, agentVars, history>>

\* Faulty variant: the correlation goes with any session of the Endpoint.
FaultyCorrelationEnd(s) ==
  /\ phase[s] = "Captured"
  /\ \E i \in DOMAIN live : live[i] = s /\ live' = RemoveAt(live, i)
  /\ correlation' = None
  /\ phase' = [phase EXCEPT ![s] = "Unregistered"]
  /\ UNCHANGED <<attempt, call, rebinding, captured, starting, channel, agentVars, history>>

unregister(s) ==
  /\ phase[s] = "Captured"
  /\ \E i \in DOMAIN live : live[i] = s /\ live' = RemoveAt(live, i)
  /\ correlation' = IF live' = <<>> THEN None ELSE correlation
  /\ phase' = [phase EXCEPT ![s] = "Unregistered"]
  /\ UNCHANGED <<attempt, call, rebinding, captured, starting, channel, agentVars, history>>

\* mark_endpoint_uncertain: only the Attempt this session was relevant to.
mark_endpoint_uncertain(s) ==
  /\ phase[s] = "Unregistered"
  /\ attempt' = [a \in Attempt |->
                   IF a = captured[s] /\ attempt[a] \in Executing
                   THEN "AwaitingReconciliation" ELSE attempt[a]]
  /\ phase' = [phase EXCEPT ![s] = "Marked"]
  /\ UNCHANGED <<call, dirVars, rebinding, captured, starting, channel, agentVars, history>>

\* Its error is discarded and the task goes on.
mark_fails(s) ==
  /\ "MarkFails" \in Faults
  /\ phase[s] = "Unregistered"
  /\ phase' = [phase EXCEPT ![s] = "Marked"]
  /\ faulted' = faulted \cup {"MarkFails"}
  /\ UNCHANGED <<attempt, call, dirVars, rebinding, captured, starting, channel, agentVars, carriers>>

\* The task returns and drops its channel.
session_end(s) ==
  /\ phase[s] = "Marked"
  /\ channel' = [(IF captured[s] = None THEN channel ELSE WithStatusQuery)
                   EXCEPT ![s] = {}]
  /\ captured' = [captured EXCEPT ![s] = None]
  /\ phase' = [phase EXCEPT ![s] = "Gone"]
  /\ UNCHANGED <<attempt, call, dirVars, rebinding, starting, agentVars, history>>

-----------------------------------------------------------------------------
(* The Agent, the operator, the Server process.                            *)

run_configured_scenario(a) ==
  /\ known[a] = "Active"
  /\ known' = [known EXCEPT ![a] = "Completed"]
  /\ UNCHANGED <<attempt, call, dirVars, taskVars, channel, asked, history>>

close_indeterminate(a) ==
  /\ attempt[a] = "AwaitingReconciliation"
  /\ attempt' = [attempt EXCEPT ![a] = "Terminal"]
  /\ UNCHANGED <<call, dirVars, taskVars, channel, agentVars, history>>

\* The Agent's answer to a CancelAction for an action it has completed
\* (AlreadyCompleted) or has not received (Unknown) makes the Attempt
\* uncertain; no StatusQuery follows.
handle_cancel_ack(s, a) ==
  /\ "Cancel" \in Faults
  /\ InLoop(s) /\ known[a] # "Active"
  /\ attempt[a] \in Executing
  /\ attempt' = [attempt EXCEPT ![a] = "AwaitingReconciliation"]
  /\ faulted' = faulted \cup {"Cancel"}
  /\ UNCHANGED <<call, dirVars, taskVars, channel, agentVars, carriers>>

server_restart ==
  /\ attempt' = [a \in Attempt |-> IF attempt[a] \in Executing
                                   THEN "AwaitingReconciliation" ELSE attempt[a]]
  /\ call' = [a \in Attempt |-> None]
  /\ phase' = [s \in Session |-> "Gone"]
  /\ live' = <<>> /\ correlation' = None
  /\ channel' = [s \in Session |-> {}]
  /\ rebinding' = [s \in Session |-> None]
  /\ captured' = [s \in Session |-> None]
  /\ starting' = {}
  /\ asked' = [a \in Attempt |-> {}]
  /\ UNCHANGED <<known, history>>

-----------------------------------------------------------------------------
Next ==
  \/ \E a \in Attempt : \/ commit_dispatch(a) \/ resolve(a) \/ enqueue(a)
                        \/ run_configured_scenario(a) \/ close_indeterminate(a)
  \/ \E s \in Session : \/ session_start(s) \/ reconcile_on_session_start(s)
                        \/ bind_dispatch_relevant_session(s)
                        \/ loop_end(s) \/ dispatch_relevant_action(s)
                        \/ unregister(s) \/ mark_endpoint_uncertain(s)
                        \/ mark_fails(s) \/ session_end(s)
                        \/ \E m \in channel[s] : transmit(s, m)
  \/ \E s \in Session, a \in Attempt : \/ handle_action_ack(s, a)
                                       \/ handle_action_result(s, a)
                                       \/ handle_status_report(s, a)
                                       \/ handle_cancel_ack(s, a)
  \/ server_restart

Spec == Init /\ [][Next]_vars

(* Fairness.  The Server's tasks run on tokio and are never starved, and a *)
(* connected Agent answers.  Nothing forces a session to start or to end,  *)
(* the operator to act or the Server to restart.                           *)
Fairness ==
  /\ \A a \in Attempt : WF_vars(resolve(a) \/ enqueue(a))
  /\ \A s \in Session :
       /\ WF_vars(reconcile_on_session_start(s))
       /\ WF_vars(bind_dispatch_relevant_session(s))
       /\ WF_vars(dispatch_relevant_action(s) \/ unregister(s)
                    \/ mark_endpoint_uncertain(s) \/ session_end(s))
       /\ WF_vars(\E m \in channel[s] : transmit(s, m))
       /\ \A a \in Attempt : WF_vars(handle_status_report(s, a))
  /\ \A a \in Attempt : WF_vars(\E s \in Session : handle_action_ack(s, a))

LiveSpec == Spec /\ Fairness

-----------------------------------------------------------------------------
(* Properties.                                                             *)

\* The directory and the session tasks hold values of their types, and the
\* directory lists exactly the sessions between registration and removal.
TypeOK ==
  /\ attempt \in [Attempt -> Active \cup {"Absent", "Terminal"}]
  /\ call \in [Attempt -> Session \cup {"Pending", None}]
  /\ phase \in [Session -> {"Gone", "Live", "Ended", "Captured",
                            "Unregistered", "Marked"}]
  /\ live \in Seq(Session) /\ IsInjective(live)
  /\ ToSet(live) = {s \in Session : phase[s] \in {"Live", "Ended", "Captured"}}
  /\ correlation = None \/ correlation \in Session \X Attempt
  /\ channel \in [Session -> SUBSET ({Dispatch(a) : a \in Attempt}
                                     \cup {Query(a) : a \in Attempt})]
  /\ rebinding \in [Session -> Attempt \cup {None}]
  /\ captured \in [Session -> Attempt \cup {None}]
  /\ starting \subseteq Session
  /\ known \in [Attempt -> {"Unknown", "Active", "Completed"}]
  /\ asked \in [Attempt -> SUBSET Session] /\ carriers \in [Attempt -> SUBSET Session]
  /\ faulted \subseteq Faults

\* A session whose end will make `a' uncertain: it is correlated with `a' and
\* not yet read, or has read it and not yet marked, or is about to rebind.
Answers(s, a) ==
  \/ phase[s] \in {"Live", "Ended"} /\ correlation = <<s, a>>
  \/ phase[s] \in {"Captured", "Unregistered"} /\ captured[s] = a
  \/ rebinding[s] = a

\* An Attempt that is InProgress is never stranded: some session answers for
\* it, so that losing the connection is bound to make it uncertain, as long
\* as no uncertainty mark failed and no Attempt was cancelled.
InProgressHasSession ==
  faulted = {} =>
    \A a \in Attempt : attempt[a] = "InProgress" => \E s \in Session : Answers(s, a)

\* Losing a session makes an Attempt uncertain only if that session carried
\* or confirmed that very Attempt, never a later one of the same Endpoint.
OnlyCarrierMarks ==
  [][\A s \in Session, a \in Attempt :
       /\ phase[s] = "Unregistered" /\ phase'[s] = "Marked"
       /\ attempt[a] # attempt'[a]
       => s \in carriers[a]]_vars

\* The connection eventually stays up (without that, every query can be
\* lost), each session that was lost having been replaced by a new one.
ConnectionReturns == <>[](\A s \in Session : phase[s] = "Live")

\* An uncertain Attempt whose action the Agent knows of does not stay
\* uncertain once the connection is back: a session start or a session loss
\* queries it, on a session that is still there to deliver the query.  (The
\* answer to a cancellation can make it uncertain without either.)
UncertainIsResolved ==
  ConnectionReturns /\ []("Cancel" \notin faulted) =>
    \A a \in Attempt :
      attempt[a] = "AwaitingReconciliation" /\ known[a] # "Unknown"
        ~> attempt[a] # "AwaitingReconciliation"

\* An Attempt whose dispatch call is over does not stay Dispatched: it is
\* acknowledged, or the missing acknowledgment makes it uncertain.
DispatchedIsResolved ==
  ConnectionReturns =>
    \A a \in Attempt :
      attempt[a] = "Dispatched" /\ call[a] = None ~> attempt[a] # "Dispatched"
=============================================================================
