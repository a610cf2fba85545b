-------------------------- MODULE ActionExecution --------------------------
(***************************************************************************)
(* Execution of committed Attempts: the dispatch call and the transient    *)
(* reservation registry and arbiter of the Server, the messages between    *)
(* Server and Agent, and the Agent's own record of actions                 *)
(* (simulator/src/action.rs), composed with the durable records of         *)
(* JobLifecycle.                                                           *)
(*                                                                         *)
(* Sessions appear only through what they do to messages.  A message to    *)
(* the Agent may be lost, repeated, delayed and reordered, but it dies     *)
(* with the Agent process or the Server process; a message to the Server   *)
(* may be lost, repeated, delayed and reordered until the Server restarts. *)
(***************************************************************************)
EXTENDS JobLifecycle, FiniteSets

CONSTANTS Caller,       \* concurrent callers of the dispatch services
          Capacity,     \* technical-resource units; a dispatch claims one
          MaxTriggers,  \* bound: dispatch calls made for one committed Attempt
          MaxInFlight   \* bound: Agent messages that can overtake one another

ASSUME CapacityAssumption == Capacity \in Nat
ASSUME MaxTriggersAssumption == MaxTriggers \in Nat
ASSUME MaxInFlightAssumption == MaxInFlight \in Nat
ASSUME CallerAssumption == Caller \cap Attempt = {}

VARIABLES
  arbiter,    \* held reservations, named by the call, then by the Attempt
  registry,   \* AttemptReservationRegistry: Attempts with a mapping
  calls,      \* dispatch calls still to be made with a committed Attempt
  carried,    \* Attempts whose ActionDispatch was resolved to a live session
  toAgent,    \* messages to the Agents
  toServer,   \* messages to the Server
  agent,      \* the Agent's LocalActionState, "Unknown" when it has none
  performed,  \* what really happened to the action (history)
  executions  \* how often it was started (history)

serverVars == <<arbiter, registry, calls, carried>>
agentVars == <<agent, performed, executions>>
execVars == <<vars, serverVars, toAgent, toServer, agentVars>>

LocalActionState == {"Unknown", "Active", "Succeeded", "Failed",
                     "Rejected", "Cancelled"}

ToAgent == [type : {"ActionDispatch", "CancelAction", "StatusQuery"},
            action : Attempt]
ToServer ==
  [type : {"ActionEvidence"}, action : Attempt, outcome : ActionEvidence]
    \cup [type : {"CancelAck"}, action : Attempt, outcome : CancelAckEvidence]
    \cup [type : {"StatusReport"}, action : Attempt, outcome : StatusReportEvidence]

Msg(type, a) == [type |-> type, action |-> a]

\* The Agent answers; the answer may be lost.
Reply(type, a, outcome) ==
  toServer' \in {s \in {toServer, toServer \cup
                          {[type |-> type, action |-> a, outcome |-> outcome]}} :
                 Cardinality(s) <= MaxInFlight}

EndpointOf(a) == jobEndpoint[attemptJob[a]]

ExecInit ==
  /\ Init
  /\ arbiter = {} /\ registry = {} /\ carried = {}
  /\ calls = [a \in Attempt |-> 0]
  /\ toAgent = {} /\ toServer = {}
  /\ agent = [a \in Attempt |-> "Unknown"]
  /\ performed = [a \in Attempt |-> "Nothing"]
  /\ executions = [a \in Attempt |-> 0]

-----------------------------------------------------------------------------
(* Transactions that concern the durable records only.                     *)

Schedule ==
  /\ \/ \E j \in Job, e \in Endpoint, n \in Step : create_workflow(j, e, n)
     \/ \E j \in Job : admit_job(j)
     \/ \E j \in Job, i \in Step : authorize_destructive_intent(j, i)
     \/ \E j \in Job, i \in Step : satisfy_preliminary_preconditions(j, i)
  /\ UNCHANGED <<serverVars, toAgent, toServer, agentVars>>

-----------------------------------------------------------------------------
(* commit_destructive_dispatch / commit_transfer_dispatch: reserve first,  *)
(* then decide under lock; release on anything but a commit.               *)

acquire(c) ==
  /\ c \notin arbiter
  /\ Cardinality(arbiter) < Capacity
  /\ arbiter' = arbiter \cup {c}
  /\ UNCHANGED <<vars, registry, calls, carried, toAgent, toServer, agentVars>>

commit_dispatch(c, j, i, a, ok) ==
  /\ c \in arbiter
  /\ commit_destructive_dispatch(j, i, a, ok) \/ commit_transfer_dispatch(j, i, a, ok)
  /\ arbiter' = (arbiter \ {c}) \cup {a}
  /\ calls' = [calls EXCEPT ![a] = MaxTriggers]
  /\ UNCHANGED <<registry, carried, toAgent, toServer, agentVars>>

\* A revalidation failure reverts the JobStep; a structural rejection and a
\* repository error leave the records alone.
reject_dispatch(c) ==
  /\ c \in arbiter
  /\ \/ UNCHANGED vars
     \/ \E j \in Job, i \in Step, ok \in BOOLEAN :
          deny_destructive_dispatch(j, i, ok) \/ deny_transfer_dispatch(j, i, ok)
  /\ arbiter' = arbiter \ {c}
  /\ UNCHANGED <<registry, calls, carried, toAgent, toServer, agentVars>>

\* dispatch_message: the Attempt handed over is the one the commit returned,
\* so its (in-memory) state is Dispatched whatever the record says by now.
\* It is registered before the send, and stays so when there is no session.
dispatch_message(a) ==
  /\ calls[a] > 0
  /\ calls' = [calls EXCEPT ![a] = @ - 1]
  /\ IF a \in registry THEN UNCHANGED <<registry, carried, toAgent>>
     ELSE /\ registry' = registry \cup {a}
          /\ \/ /\ toAgent' = toAgent \cup {Msg("ActionDispatch", a)}
                /\ carried' = carried \cup {a}
             \/ UNCHANGED <<toAgent, carried>>
  /\ UNCHANGED <<vars, arbiter, toServer, agentVars>>

-----------------------------------------------------------------------------
(* What the Server does with evidence, cancellation and uncertainty.       *)

\* Only the call whose transaction made the Attempt terminal, and only if it
\* removes the mapping, releases the reservation.
take_and_release(a) ==
  IF attemptState[a] \notin TerminalAttempt /\ attemptState'[a] \in TerminalAttempt
  THEN /\ registry' = registry \ {a}
       /\ arbiter' = IF a \in registry THEN arbiter \ {a} ELSE arbiter
  ELSE UNCHANGED <<registry, arbiter>>

handle_reply(m) ==
  LET a == m.action
  IN  /\ m \in toServer
      /\ attemptState[a] # "Absent"
      /\ Persist(a,
           IF m.type = "ActionEvidence"
           THEN apply_action_evidence(Facts(a), m.outcome, OtherStepsSucceeded(a))
           ELSE IF m.type = "CancelAck"
           THEN apply_cancel_ack(Facts(a), m.outcome)
           ELSE apply_status_report(Facts(a), m.outcome, OtherStepsSucceeded(a)))
      /\ take_and_release(a)
      /\ UNCHANGED <<cancelActions, calls, carried, toAgent, toServer, agentVars>>

close(a) ==
  /\ CloseIndeterminate(a)
  /\ take_and_release(a)
  /\ UNCHANGED <<calls, carried, toAgent, toServer, agentVars>>

\* CancelAction follows the commit, once; a failed send is a lost message.
request(j) ==
  /\ request_cancellation(j)
  /\ toAgent' = toAgent \cup {Msg("CancelAction", a) : a \in JobAttempts(j, Active)}
  /\ UNCHANGED <<serverVars, toServer, agentVars>>

connection_loss(a) ==
  /\ a \in carried
  /\ mark_endpoint_uncertain(a)
  /\ UNCHANGED <<serverVars, toAgent, toServer, agentVars>>

\* Faulty variant: an uncertain action is dispatched again.
FaultyReconcile(a) ==
  /\ attemptState[a] = "AwaitingReconciliation"
  /\ toAgent' = toAgent \cup {Msg("ActionDispatch", a)}
  /\ UNCHANGED <<vars, serverVars, toServer, agentVars>>

reconcile_on_session_start(a) ==
  /\ attemptState[a] = "AwaitingReconciliation"
  /\ toAgent' = toAgent \cup {Msg("StatusQuery", a)}
  /\ UNCHANGED <<vars, serverVars, toServer, agentVars>>

\* Faulty variant: the restart sweep fails what it finds executing.
FaultyRestart ==
  /\ attemptState' = [a \in Attempt |-> IF attemptState[a] \in Executing
                                        THEN "Failed" ELSE attemptState[a]]
  /\ arbiter' = {} /\ registry' = {} /\ carried' = {}
  /\ calls' = [a \in Attempt |-> 0]
  /\ toAgent' = {} /\ toServer' = {}
  /\ UNCHANGED <<jobVars, attemptJob, attemptStep, cancelActions, agentVars>>

server_restart ==
  /\ reconcile_on_startup
  /\ arbiter' = {} /\ registry' = {} /\ carried' = {}
  /\ calls' = [a \in Attempt |-> 0]
  /\ toAgent' = {} /\ toServer' = {}
  /\ UNCHANGED agentVars

-----------------------------------------------------------------------------
(* The Agent.                                                              *)

\* A known action is never executed again: its retained answer is repeated.
handle_dispatch(a) ==
  /\ Msg("ActionDispatch", a) \in toAgent
  /\ \/ /\ agent[a] = "Unknown"
        /\ agent' = [agent EXCEPT ![a] = "Active"]
        /\ performed' = [performed EXCEPT ![a] = "Running"]
        /\ executions' = [executions EXCEPT ![a] = @ + 1]
        /\ Reply("ActionEvidence", a, "AckAccepted")
     \/ /\ agent[a] = "Unknown"
        /\ agent' = [agent EXCEPT ![a] = "Rejected"]
        /\ Reply("ActionEvidence", a, "AckRejected")
        /\ UNCHANGED <<performed, executions>>
     \/ /\ agent[a] # "Unknown"
        /\ Reply("ActionEvidence", a,
             IF agent[a] \in {"Active", "Cancelled"} THEN "AckAccepted"
             ELSE IF agent[a] = "Rejected" THEN "AckRejected"
             ELSE IF agent[a] = "Succeeded" THEN "ResultSucceeded"
             ELSE "ResultFailed")
        /\ UNCHANGED agentVars
  /\ UNCHANGED <<vars, serverVars, toAgent>>

run_configured_scenario(a, outcome) ==
  /\ agent[a] = "Active"
  /\ agent' = [agent EXCEPT ![a] = outcome]
  /\ performed' = [performed EXCEPT ![a] = outcome]
  /\ Reply("ActionEvidence", a,
           IF outcome = "Succeeded" THEN "ResultSucceeded" ELSE "ResultFailed")
  /\ UNCHANGED <<vars, serverVars, toAgent, executions>>

\* `cancellable': the configured CancelBehavior.
handle_cancel(a, cancellable) ==
  /\ Msg("CancelAction", a) \in toAgent
  /\ LET stop == agent[a] = "Active" /\ cancellable
     IN  /\ agent' = IF stop THEN [agent EXCEPT ![a] = "Cancelled"] ELSE agent
         /\ performed' = IF stop THEN [performed EXCEPT ![a] = "Cancelled"] ELSE performed
         /\ Reply("CancelAck", a,
              IF agent[a] = "Unknown" THEN "Unknown"
              ELSE IF agent[a] \in {"Succeeded", "Failed", "Rejected"} THEN "AlreadyCompleted"
              ELSE IF agent[a] = "Cancelled" \/ stop THEN "Cancelled"
              ELSE "CannotCancel")
  /\ UNCHANGED <<vars, serverVars, toAgent, executions>>

handle_status_query(a) ==
  /\ Msg("StatusQuery", a) \in toAgent
  /\ Reply("StatusReport", a,
           IF agent[a] = "Active" THEN "Running"
           ELSE IF agent[a] \in {"Unknown", "Rejected"} THEN "Unknown"
           ELSE agent[a])
  /\ UNCHANGED <<vars, serverVars, toAgent, agentVars>>

\* A delivered message may be delivered again until it disappears.
forget_reply(m) ==
  /\ m \in toServer
  /\ toServer' = toServer \ {m}
  /\ UNCHANGED <<vars, serverVars, toAgent, agentVars>>

\* The Agent's records live in memory; what it was executing is cut short.
agent_restart(e) ==
  LET lost == {a \in Attempt : attemptState[a] # "Absent" /\ EndpointOf(a) = e}
  IN  /\ agent' = [a \in Attempt |-> IF a \in lost THEN "Unknown" ELSE agent[a]]
      /\ performed' = [a \in Attempt |->
                         IF a \in lost /\ performed[a] = "Running" THEN "Aborted"
                         ELSE performed[a]]
      /\ toAgent' = {m \in toAgent : m.action \notin lost}
      /\ UNCHANGED <<vars, serverVars, toServer, executions>>

-----------------------------------------------------------------------------
ExecNext ==
  \/ Schedule
  \/ \E c \in Caller :
       \/ acquire(c)
       \/ reject_dispatch(c)
       \/ \E j \in Job, i \in Step, a \in Attempt, ok \in BOOLEAN :
            commit_dispatch(c, j, i, a, ok)
  \/ \E a \in Attempt : \/ dispatch_message(a)
                        \/ close(a)
                        \/ connection_loss(a)
                        \/ reconcile_on_session_start(a)
  \/ \E m \in toServer : handle_reply(m) \/ forget_reply(m)
  \/ \E j \in Job : request(j)
  \/ server_restart
  \/ \E a \in Attempt : \/ handle_dispatch(a)
                        \/ \E o \in {"Succeeded", "Failed"} : run_configured_scenario(a, o)
                        \/ \E b \in BOOLEAN : handle_cancel(a, b)
                        \/ handle_status_query(a)
  \/ \E e \in Endpoint : agent_restart(e)

ExecSpec == ExecInit /\ [][ExecNext]_execVars

-----------------------------------------------------------------------------
(* Properties.                                                             *)

\* The transient state holds values of its types.
ExecTypeOK ==
  /\ TypeOK
  /\ arbiter \subseteq Caller \cup Attempt
  /\ registry \subseteq Attempt /\ carried \subseteq Attempt
  /\ calls \in [Attempt -> 0..MaxTriggers]
  /\ toAgent \subseteq ToAgent /\ toServer \subseteq ToServer
  /\ agent \in [Attempt -> LocalActionState]
  /\ performed \in [Attempt -> {"Nothing", "Running", "Succeeded", "Failed",
                                "Cancelled", "Aborted"}]
  /\ executions \in [Attempt -> Nat]

\* The durable outcome of an Attempt is what happened on the Endpoint, in
\* whatever order acknowledgments, results, cancellation and status answers
\* arrive and whichever side restarts: Succeeded, Failed and Cancelled
\* Attempts were executed to that end, a Rejected one never started.
OutcomeIsTrue ==
  \A a \in Attempt :
    /\ attemptState[a] \in {"Succeeded", "Failed", "Cancelled"} =>
         performed[a] = attemptState[a]
    /\ attemptState[a] = "Rejected" => executions[a] = 0

\* Two actions never run on one Endpoint at the same time, unless the Server
\* gave one of them up as Indeterminate: nothing else makes an Attempt
\* terminal while the Agent may still be executing it.
ExclusiveExecution ==
  \A a, b \in Attempt :
    /\ performed[a] = "Running" /\ performed[b] = "Running"
    /\ EndpointOf(a) = EndpointOf(b) /\ a # b
    => "Indeterminate" \in {attemptState[a], attemptState[b]}

\* An action is started at most once although neither side keeps its memory
\* of it across a restart: reconciliation asks, it never dispatches again.
\* (For one dispatch call per Attempt: the registry forgets an Attempt with
\* its terminal evidence, and a second call made after that sends again.)
AtMostOnceExecution == \A a \in Attempt : executions[a] <= 1

\* The reservation of an Attempt is held for as long as the Attempt is active
\* and this Server process has it to dispatch, has dispatched it, or both.
ReservationHeld ==
  \A a \in Attempt : /\ attemptState[a] \in Active
                     /\ calls[a] > 0 \/ a \in registry
                     => a \in arbiter

\* The composition only ever changes the durable records the way JobLifecycle
\* allows; in particular every CancelAck that reaches the Server answers a
\* CancelAction it issued.
ExecRefinesJobLifecycle == Spec
=============================================================================
