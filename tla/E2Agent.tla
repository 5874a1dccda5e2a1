------------------------------- MODULE E2Agent -------------------------------
(***************************************************************************)
(* The E2 agent (agent/e2_agent.c, agent/msg_handler_agent.c): a single    *)
(* event loop over an epoll instance that holds the SCTP socket, the       *)
(* periodic timer of the pending setup request and one periodic timer per  *)
(* subscription.  One iteration of the loop handles one event to its end,  *)
(* answer included, so it is one action.                                   *)
(*                                                                         *)
(* A failed assert ends the process (the default build is a debug build):  *)
(* phase "aborted".                                                        *)
(***************************************************************************)
EXTENDS E2Channel

VARIABLES
  agPhase,    \* "init" (e2_init_agent done), "running" or "aborted"
  agPending,  \* agPending[a]: the bimap `pending' holds the setup request
  ind_event   \* ind_event[a]: ids of the subscriptions that have a timer

agentVars == <<agPhase, agPending, ind_event>>

AgentTypeOK ==
  /\ agPhase \in [Agents -> {"init", "running", "aborted"}]
  /\ agPending \in [Agents -> BOOLEAN]
  /\ ind_event \in [Agents -> SUBSET RicId]

AgentInit ==
  /\ agPhase = [a \in Agents |-> "init"]
  /\ agPending = [a \in Agents |-> FALSE]
  /\ ind_event = [a \in Agents |-> {}]

SetupRequest == [type |-> "SETUP_REQUEST", id |-> NoId]

AbortAgent(a) == agPhase' = [agPhase EXCEPT ![a] = "aborted"]

\* e2_start_agent: send the setup request, then arm its 1000 ms timer, then loop.
StartAgent(a) ==
  /\ agPhase[a] = "init"
  /\ agPhase' = [agPhase EXCEPT ![a] = "running"]
  /\ SendToRic(a, SetupRequest)
  /\ agPending' = [agPending EXCEPT ![a] = TRUE]
  /\ UNCHANGED <<toAgent, edge, ricPhase, ind_event>>

\* Mutants of SetupTimeout: the timer event is consumed but nothing is sent; the
\* timer was not disarmed by the response.
SetupTimeoutSilent(a) ==
  /\ agPhase[a] = "running"
  /\ agPending[a]
  /\ UNCHANGED <<channelVars, agentVars>>

SetupTimeoutNotDisarmed(a) ==
  /\ agPhase[a] = "running"
  /\ SendToRic(a, SetupRequest)
  /\ UNCHANGED <<toAgent, edge, ricPhase, agentVars>>

\* PENDING_EVENT: the setup timer expired; the request is sent again and the
\* timer stays armed.
SetupTimeout(a) ==
  /\ agPhase[a] = "running"
  /\ agPending[a]
  /\ SendToRic(a, SetupRequest)
  /\ UNCHANGED <<toAgent, edge, ricPhase, agentVars>>

\* INDICATION_EVENT: a subscription's timer expired.
IndicationTimeout(a, id) ==
  /\ agPhase[a] = "running"
  /\ id \in ind_event[a]
  /\ SendToRic(a, [type |-> "INDICATION", id |-> id])
  /\ UNCHANGED <<toAgent, edge, ricPhase, agentVars>>

\* NETWORK_EVENT: the loop reads the next message, which is of type t.
AgentReads(a, t) ==
  /\ agPhase[a] = "running"
  /\ RecvAtAgent(a)
  /\ Head(toAgent[a]).type = t
  /\ UNCHANGED ricPhase

\* e2ap_handle_setup_response_agent.  bi_map_extract_right asserts that the key
\* is there, so a second response ends the process.
HandleSetupResponse(a) ==
  /\ AgentReads(a, "SETUP_RESPONSE")
  /\ \/ /\ agPending[a]
        /\ agPending' = [agPending EXCEPT ![a] = FALSE]
        /\ UNCHANGED agPhase
     \/ /\ ~agPending[a]
        /\ AbortAgent(a)
        /\ UNCHANGED agPending
  /\ UNCHANGED <<toRic, ind_event>>

\* Mutants of HandleSubscriptionRequest: the answer is forgotten; the event is
\* not registered.
HandleSubscriptionRequestSilent(a) ==
  /\ AgentReads(a, "SUBSCRIPTION_REQUEST")
  /\ ind_event' = [ind_event EXCEPT ![a] = @ \cup {Head(toAgent[a]).id}]
  /\ UNCHANGED <<toRic, agPhase, agPending>>

HandleSubscriptionRequestUnregistered(a) ==
  /\ AgentReads(a, "SUBSCRIPTION_REQUEST")
  /\ SendToRic(a, [type |-> "SUBSCRIPTION_RESPONSE", id |-> Head(toAgent[a]).id])
  /\ UNCHANGED agentVars

\* e2ap_handle_subscription_request_agent: arm the timer, register the event,
\* answer.
HandleSubscriptionRequest(a) ==
  LET id == Head(toAgent[a]).id IN
  /\ AgentReads(a, "SUBSCRIPTION_REQUEST")
  /\ ind_event' = [ind_event EXCEPT ![a] = @ \cup {id}]
  /\ SendToRic(a, [type |-> "SUBSCRIPTION_RESPONSE", id |-> id])
  /\ UNCHANGED <<agPhase, agPending>>

\* Mutants of HandleDeleteRequest: an id that is not registered is answered too;
\* the timer keeps running after the answer.
HandleDeleteRequestAny(a) ==
  LET id == Head(toAgent[a]).id IN
  /\ AgentReads(a, "DELETE_REQUEST")
  /\ ind_event' = [ind_event EXCEPT ![a] = @ \ {id}]
  /\ SendToRic(a, [type |-> "DELETE_RESPONSE", id |-> id])
  /\ UNCHANGED <<agPhase, agPending>>

HandleDeleteRequestKeepsTimer(a) ==
  LET id == Head(toAgent[a]).id IN
  /\ AgentReads(a, "DELETE_REQUEST")
  /\ id \in ind_event[a]
  /\ SendToRic(a, [type |-> "DELETE_RESPONSE", id |-> id])
  /\ UNCHANGED agentVars

\* e2ap_handle_subscription_delete_request_agent: stop_ind_event asserts that
\* the id is registered, removes it with its timer, and the answer is sent.
HandleDeleteRequest(a) ==
  LET id == Head(toAgent[a]).id IN
  /\ AgentReads(a, "DELETE_REQUEST")
  /\ \/ /\ id \in ind_event[a]
        /\ ind_event' = [ind_event EXCEPT ![a] = @ \ {id}]
        /\ SendToRic(a, [type |-> "DELETE_RESPONSE", id |-> id])
        /\ UNCHANGED agPhase
     \/ /\ id \notin ind_event[a]
        /\ AbortAgent(a)
        /\ UNCHANGED <<ind_event, toRic>>
  /\ UNCHANGED agPending

\* Mutant of HandleControlRequest: the acknowledgement is forgotten.
HandleControlRequestSilent(a) ==
  /\ AgentReads(a, "CONTROL_REQUEST")
  /\ UNCHANGED <<toRic, agentVars>>

\* e2ap_handle_control_request_agent: the service model applies the control to
\* the RAN and the acknowledgement is sent.
HandleControlRequest(a) ==
  /\ AgentReads(a, "CONTROL_REQUEST")
  /\ SendToRic(a, [type |-> "CONTROL_ACK", id |-> Head(toAgent[a]).id])
  /\ UNCHANGED agentVars

=============================================================================
