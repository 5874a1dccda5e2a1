------------------------------ MODULE E2Channel ------------------------------
(***************************************************************************)
(* The E2 interface between E2 agents and the near-RT RIC: the E2AP        *)
(* messages the two sides exchange, and the SCTP endpoints of              *)
(* lib/ep/e2ap_ep.c they exchange them over.                               *)
(*                                                                         *)
(* An SCTP association delivers in order and loses nothing, so each        *)
(* direction of each association is a FIFO.  What can be lost is a message *)
(* whose send fails: e2ap_send_bytes only asserts that sctp_sendmsg did    *)
(* not return 0, so a send that returns -1 (nobody is listening, no peer   *)
(* address is known yet) is indistinguishable from a successful one.       *)
(***************************************************************************)
EXTENDS Naturals, Sequences

CONSTANTS
  Agents,     \* the E2 nodes that run an agent
  NoAgent,    \* the zeroed peer address of an endpoint that received nothing
  RanFuncs,   \* RAN function ids: the service models both sides load at start
  MaxReqId,   \* bound on the RIC's request counter
  NoId        \* the id field of a message that carries no RIC request id

ASSUME NoAgentAssumption == NoAgent \notin Agents
ASSUME MaxReqIdAssumption == MaxReqId \in Nat

\* ric_gen_id_t.  ric_inst_id is the constant 0 in every id the RIC makes.
RicId == [ric_req_id : 0..MaxReqId, ran_func_id : RanFuncs]

ASSUME NoIdAssumption == NoId \notin RicId

RequestTypes == {"SUBSCRIPTION_REQUEST", "DELETE_REQUEST", "CONTROL_REQUEST"}

ToAgentMsg ==
  [type : RequestTypes, id : RicId] \cup [type : {"SETUP_RESPONSE"}, id : {NoId}]

ToRicMsg ==
  [type : {"SUBSCRIPTION_RESPONSE", "DELETE_RESPONSE", "CONTROL_ACK", "INDICATION"},
   id : RicId] \cup [type : {"SETUP_REQUEST"}, id : {NoId}]

VARIABLES
  toAgent,    \* toAgent[a]: received by the agent's socket and not read yet
  toRic,      \* toRic[a]: sent by agent a and not read yet by the RIC
  edge,       \* edge[a]: the agent's epoll holds an edge of the socket
  ricPhase    \* "down", "up" (socket bound, event loop running) or "aborted"

channelVars == <<toAgent, toRic, edge, ricPhase>>

ChannelTypeOK ==
  /\ toAgent \in [Agents -> Seq(ToAgentMsg)]
  /\ toRic \in [Agents -> Seq(ToRicMsg)]
  /\ edge \in [Agents -> BOOLEAN]
  /\ ricPhase \in {"down", "up", "aborted"}

ChannelInit ==
  /\ toAgent = [a \in Agents |-> << >>]
  /\ toRic = [a \in Agents |-> << >>]
  /\ edge = [a \in Agents |-> FALSE]
  /\ ricPhase = "down"

\* e2ap_send_bytes of agent a.  Without a listening RIC the send fails, or the
\* association it starts is refused: the message is gone, the caller goes on.
SendToRic(a, m) ==
  toRic' = [toRic EXCEPT ![a] = IF ricPhase = "up" THEN Append(@, m) ELSE @]

\* e2ap_send_bytes of the RIC to the peer address dst.  Every arrival raises an
\* edge on the agent's socket, which is registered with EPOLLET.
SendToAgent(dst, m) ==
  /\ toAgent' = [a \in Agents |->
                   IF a = dst THEN Append(toAgent[a], m) ELSE toAgent[a]]
  /\ edge' = [a \in Agents |-> edge[a] \/ a = dst]

\* Mutant of RecvAtAgent: the edge survives the read.
RecvAtAgentKeepsEdge(a) ==
  /\ edge[a]
  /\ toAgent' = [toAgent EXCEPT ![a] = Tail(@)]
  /\ UNCHANGED edge

\* event_asio_agent returns the socket once per edge (EPOLLET) and the loop then
\* reads exactly one message, however many are queued.
RecvAtAgent(a) ==
  /\ edge[a]
  /\ edge' = [edge EXCEPT ![a] = FALSE]
  /\ toAgent' = [toAgent EXCEPT ![a] = Tail(@)]

\* The RIC's socket is level triggered: it is ready as long as it is not empty.
RecvAtRic(a) ==
  /\ toRic[a] # << >>
  /\ toRic' = [toRic EXCEPT ![a] = Tail(@)]

=============================================================================
