--------------------------- MODULE E2SystemProofs ---------------------------
(***************************************************************************)
(* Proofs about E2System, for any sets of agents, API threads and RAN      *)
(* functions and any bounds: its invariants, that it implements            *)
(* SubscriptionService, and that paced callers meet no failing assert.     *)
(***************************************************************************)
EXTENDS E2System, TLAPS

USE NoAgentAssumption, MaxReqIdAssumption, NoIdAssumption,
    CtrlFuncsAssumption, MinSizeAssumption, MaxFdsAssumption

(* What a send and a read do to the type of the channels. *)
LEMMA SendToRicType ==
  ASSUME TypeOK, NEW a \in Agents, NEW m \in ToRicMsg, SendToRic(a, m)
  PROVE  toRic' \in [Agents -> Seq(ToRicMsg)]
BY DEF TypeOK, ChannelTypeOK, SendToRic

LEMMA SendToAgentType ==
  ASSUME TypeOK, NEW dst, NEW m \in ToAgentMsg, SendToAgent(dst, m)
  PROVE  /\ toAgent' \in [Agents -> Seq(ToAgentMsg)]
         /\ edge' \in [Agents -> BOOLEAN]
<1>1. \A a \in Agents : Append(toAgent[a], m) \in Seq(ToAgentMsg)
  BY DEF TypeOK, ChannelTypeOK
<1> QED BY <1>1 DEF TypeOK, ChannelTypeOK, SendToAgent


LEMMA HeadTail ==
  ASSUME NEW S, NEW q \in Seq(S), q # << >>
  PROVE  /\ Head(q) \in S
         /\ Tail(q) \in Seq(S)
         /\ Head(q) = q[1]
         /\ Len(q) \in Nat \ {0}
         /\ DOMAIN Tail(q) = 1..(Len(q) - 1)
         /\ \A i \in DOMAIN Tail(q) : i + 1 \in DOMAIN q /\ Tail(q)[i] = q[i + 1]
OBVIOUS

LEMMA AppendShape ==
  ASSUME NEW S, NEW q \in Seq(S), NEW m \in S
  PROVE  /\ Append(q, m) \in Seq(S)
         /\ Append(q, m) # << >>
         /\ Len(q) \in Nat
         /\ DOMAIN q = 1..Len(q)
         /\ DOMAIN Append(q, m) = 1..(Len(q) + 1)
         /\ \A i \in DOMAIN q : Append(q, m)[i] = q[i]
         /\ Append(q, m)[Len(q) + 1] = m
<1>1. /\ Append(q, m) \in Seq(S)
      /\ Len(Append(q, m)) = Len(q) + 1
      /\ Len(q) \in Nat
      /\ \A i \in DOMAIN q : Append(q, m)[i] = q[i]
      /\ Append(q, m)[Len(q) + 1] = m
      /\ DOMAIN q = 1..Len(q)
      /\ DOMAIN Append(q, m) = 1..(Len(q) + 1)
  OBVIOUS
<1>2. Len(<< >>) = 0
  OBVIOUS
<1> QED BY <1>1, <1>2

(* TypeOK alone is not inductive: what Tail yields on an empty queue is not   *)
(* specified, so the agent's read needs the edge to announce a message.       *)
TypeInv == TypeOK /\ ReadsNeverBlock

(***************************************************************************)
(* The inductive invariant.  A new request (subscription or control) has   *)
(* one holder at a time: the thread that prepares it, then the agent's     *)
(* queue, then, as its answer, the RIC's queue.                            *)
(***************************************************************************)
NewReq == {"SUBSCRIPTION_REQUEST", "CONTROL_REQUEST"}
NewAns == {"SUBSCRIPTION_RESPONSE", "CONTROL_ACK"}

\* Thread t holds a new request.
Holds(t) == api[t].pc \in {"insert", "send"} /\ api[t].ev # DelEv

Queued(a, i) == i \in DOMAIN toAgent[a] /\ toAgent[a][i].type \in NewReq
Answered(a, i) == i \in DOMAIN toRic[a] /\ toRic[a][i].type \in NewAns
Deleted(a, i) == i \in DOMAIN toRic[a] /\ toRic[a][i].type = "DELETE_RESPONSE"

Issued(id) == id.ric_req_id < req_id

\* No agent has served id yet, and no removal of it has been answered.
Unserved(id) ==
  /\ id \notin closed
  /\ \A a \in Agents : id \notin ind_event[a]
  /\ \A a \in Agents : \A i \in Nat : Deleted(a, i) => toRic[a][i].id # id

\* Every id in use was issued by the counter.
AllIssued ==
  /\ \A t \in Threads : Holds(t) => Issued(api[t].id)
  /\ \A a \in Agents : \A i \in Nat : Queued(a, i) => Issued(toAgent[a][i].id)
  /\ \A a \in Agents : \A i \in Nat : Answered(a, i) => Issued(toRic[a][i].id)
  /\ \A a \in Agents : \A i \in Nat : Deleted(a, i) => Issued(toRic[a][i].id)
  /\ \A a \in Agents : \A id \in ind_event[a] : Issued(id)
  /\ \A id \in closed : Issued(id)

\* No two holders of the same new request.
HoldersDistinct ==
  /\ \A t, u \in Threads :
       Holds(t) /\ Holds(u) /\ api[t].id = api[u].id => t = u
  /\ \A t \in Threads, a \in Agents : \A i \in Nat :
       Holds(t) /\ Queued(a, i) => api[t].id # toAgent[a][i].id
  /\ \A t \in Threads, a \in Agents : \A i \in Nat :
       Holds(t) /\ Answered(a, i) => api[t].id # toRic[a][i].id
  /\ \A a, b \in Agents : \A i, j \in Nat :
       Queued(a, i) /\ Queued(b, j) /\ toAgent[a][i].id = toAgent[b][j].id
         => a = b /\ i = j
  /\ \A a, b \in Agents : \A i, j \in Nat :
       Queued(a, i) /\ Answered(b, j) => toAgent[a][i].id # toRic[b][j].id
  /\ \A a, b \in Agents : \A i, j \in Nat :
       Answered(a, i) /\ Answered(b, j) /\ toRic[a][i].id = toRic[b][j].id
         => a = b /\ i = j

\* A new request has not been served; a served subscription is served once and
\* its removal is answered once.
ServedOnce ==
  /\ \A t \in Threads : Holds(t) => Unserved(api[t].id)
  /\ \A a \in Agents : \A i \in Nat : Queued(a, i) => Unserved(toAgent[a][i].id)
  /\ \A a, b \in Agents : \A id \in ind_event[a] : id \in ind_event[b] => a = b
  /\ \A a, b \in Agents : \A id \in ind_event[a] : \A i \in Nat :
       Deleted(b, i) => toRic[b][i].id # id
  /\ \A a \in Agents : \A id \in ind_event[a] : id \notin closed
  /\ \A a, b \in Agents : \A i, j \in Nat :
       Deleted(a, i) /\ Deleted(b, j) /\ toRic[a][i].id = toRic[b][j].id
         => a = b /\ i = j

\* The request's event, the inverse of RequestOf.
EventOfReq(type) ==
  CASE type = "SUBSCRIPTION_REQUEST" -> SubEv
    [] type = "DELETE_REQUEST" -> DelEv
    [] type = "CONTROL_REQUEST" -> CtrlEv

\* The entry of a request, unless it removes what is removed already.
Tracked(ev, id) == HasEntry(ev, id) \/ (ev = DelEv /\ id \in closed)

RequestsTracked ==
  /\ \A t \in Threads : api[t].pc = "send" => Tracked(api[t].ev, api[t].id)
  /\ \A a \in Agents : \A i \in DOMAIN toAgent[a] :
       toAgent[a][i].type \in RequestTypes =>
         Tracked(EventOfReq(toAgent[a][i].type), toAgent[a][i].id)

IInv ==
  /\ TypeInv
  /\ AllIssued
  /\ HoldersDistinct
  /\ ServedOnce
  /\ RequestsTracked
  /\ AnswersHaveEntries

LEMMA TypeInit == Init => TypeInv
BY DEF Init, ChannelInit, AgentInit, RicInit, TypeInv, TypeOK, ChannelTypeOK, AgentTypeOK,
       RicTypeOK, ReadsNeverBlock, ApiState, Idle, Kinds

(* An agent's read takes a typed message off a non-empty queue. *)
LEMMA AgentReadType ==
  ASSUME TypeInv, NEW a \in Agents, NEW t, AgentReads(a, t)
  PROVE  /\ toAgent[a] # << >>
         /\ Head(toAgent[a]) \in ToAgentMsg
         /\ Head(toAgent[a]).type = t
         /\ t # "SETUP_RESPONSE" => Head(toAgent[a]).id \in RicId
         /\ toAgent' = [toAgent EXCEPT ![a] = Tail(@)]
         /\ toAgent' \in [Agents -> Seq(ToAgentMsg)]
         /\ edge' = [edge EXCEPT ![a] = FALSE]
         /\ edge' \in [Agents -> BOOLEAN]
         /\ ReadsNeverBlock'
         /\ ricPhase' = ricPhase
         /\ agPhase[a] = "running"
<1>1. /\ toAgent[a] # << >>
      /\ toAgent[a] \in Seq(ToAgentMsg)
      /\ edge \in [Agents -> BOOLEAN]
      /\ toAgent \in [Agents -> Seq(ToAgentMsg)]
  BY DEF TypeInv, TypeOK, ChannelTypeOK, ReadsNeverBlock, AgentReads, RecvAtAgent
<1>2. Head(toAgent[a]) \in ToAgentMsg /\ Tail(toAgent[a]) \in Seq(ToAgentMsg)
  BY <1>1, HeadTail
<1>3. toAgent' \in [Agents -> Seq(ToAgentMsg)] /\ edge' \in [Agents -> BOOLEAN]
  BY <1>1, <1>2 DEF AgentReads, RecvAtAgent
<1>4. ReadsNeverBlock'
  BY <1>1 DEF AgentReads, RecvAtAgent, TypeInv, ReadsNeverBlock
<1>5. t # "SETUP_RESPONSE" => Head(toAgent[a]).id \in RicId
  BY <1>2 DEF AgentReads, ToAgentMsg
<1> QED BY <1>1, <1>2, <1>3, <1>4, <1>5 DEF AgentReads, RecvAtAgent

(* The same for the RIC's read. *)
LEMMA RicReadType ==
  ASSUME TypeInv, NEW a \in Agents, NEW t, RicReads(a, t)
  PROVE  /\ toRic[a] # << >>
         /\ Head(toRic[a]) \in ToRicMsg
         /\ Head(toRic[a]).type = t
         /\ t # "SETUP_REQUEST" => Head(toRic[a]).id \in RicId
         /\ toRic' = [toRic EXCEPT ![a] = Tail(@)]
         /\ toRic' \in [Agents -> Seq(ToRicMsg)]
         /\ ep_to' = a
         /\ ricPhase = "up"
         /\ ricPc = "poll"
<1>1. toRic[a] # << >> /\ toRic[a] \in Seq(ToRicMsg) /\ toRic \in [Agents -> Seq(ToRicMsg)]
  BY DEF TypeInv, TypeOK, ChannelTypeOK, RicReads, RecvAtRic
<1>2. Head(toRic[a]) \in ToRicMsg /\ Tail(toRic[a]) \in Seq(ToRicMsg)
  BY <1>1, HeadTail
<1>3. toRic' \in [Agents -> Seq(ToRicMsg)]
  BY <1>1, <1>2 DEF RicReads, RecvAtRic
<1>4. t # "SETUP_REQUEST" => Head(toRic[a]).id \in RicId
  BY <1>2 DEF RicReads, ToRicMsg
<1> QED BY <1>1, <1>2, <1>3, <1>4 DEF RicReads, RecvAtRic

LEMMA AgentStepType == ASSUME TypeInv, NEW a \in Agents, AgentStep(a) PROVE TypeInv'
<1> USE DEF TypeInv, TypeOK, ChannelTypeOK, AgentTypeOK
<1>0. RicTypeOK' /\ calls' \in [Kinds -> [RanFuncs -> Nat]]
  BY DEF AgentStep, RicTypeOK, ricVars
<1>1. CASE StartAgent(a)
  <2>1. toRic' \in [Agents -> Seq(ToRicMsg)]
    BY <1>1, SendToRicType DEF StartAgent, SetupRequest, ToRicMsg
  <2> QED BY <1>0, <1>1, <2>1 DEF StartAgent, ReadsNeverBlock
<1>2. CASE TimerMayFire(a) /\ SetupTimeout(a)
  <2>1. toRic' \in [Agents -> Seq(ToRicMsg)]
    BY <1>2, SendToRicType DEF SetupTimeout, SetupRequest, ToRicMsg
  <2> QED BY <1>0, <1>2, <2>1 DEF SetupTimeout, ReadsNeverBlock, agentVars
<1>3. ASSUME NEW id \in ind_event[a], IndicationTimeout(a, id) PROVE TypeInv'
  <2>1. toRic' \in [Agents -> Seq(ToRicMsg)]
    BY <1>3, SendToRicType DEF IndicationTimeout, ToRicMsg
  <2> QED BY <1>0, <1>3, <2>1 DEF IndicationTimeout, ReadsNeverBlock, agentVars
<1>4. CASE HandleSetupResponse(a)
  <2>1. AgentReads(a, "SETUP_RESPONSE")
    BY <1>4 DEF HandleSetupResponse
  <2> QED BY <1>0, <1>4, <2>1, AgentReadType DEF HandleSetupResponse, AbortAgent
<1>5. CASE HandleSubscriptionRequest(a)
  <2>1. AgentReads(a, "SUBSCRIPTION_REQUEST")
    BY <1>5 DEF HandleSubscriptionRequest
  <2>2. Head(toAgent[a]).id \in RicId
    BY <2>1, AgentReadType
  <2>3. toRic' \in [Agents -> Seq(ToRicMsg)]
    BY <1>5, <2>2, SendToRicType DEF HandleSubscriptionRequest, ToRicMsg
  <2>4. ind_event' \in [Agents -> SUBSET RicId]
    BY <1>5, <2>2 DEF HandleSubscriptionRequest
  <2> QED BY <1>0, <1>5, <2>1, <2>3, <2>4, AgentReadType DEF HandleSubscriptionRequest
<1>6. CASE HandleDeleteRequest(a)
  <2>1. AgentReads(a, "DELETE_REQUEST")
    BY <1>6 DEF HandleDeleteRequest
  <2>2. Head(toAgent[a]).id \in RicId
    BY <2>1, AgentReadType
  <2>a. [type |-> "DELETE_RESPONSE", id |-> Head(toAgent[a]).id] \in ToRicMsg
    BY <2>2 DEF ToRicMsg
  <2>b. \/ SendToRic(a, [type |-> "DELETE_RESPONSE", id |-> Head(toAgent[a]).id])
        \/ toRic' = toRic
    BY <1>6 DEF HandleDeleteRequest
  <2>3. toRic' \in [Agents -> Seq(ToRicMsg)]
    BY <2>a, <2>b, SendToRicType
  <2>4. ind_event' \in [Agents -> SUBSET RicId]
    <3>1. \/ ind_event' = ind_event
          \/ ind_event' = [ind_event EXCEPT ![a] = @ \ {Head(toAgent[a]).id}]
      BY <1>6 DEF HandleDeleteRequest
    <3>2. ind_event[a] \ {Head(toAgent[a]).id} \in SUBSET RicId
      OBVIOUS
    <3> QED BY <3>1, <3>2
  <2>5. agPhase' \in [Agents -> {"init", "running", "aborted"}]
    BY <1>6 DEF HandleDeleteRequest, AbortAgent
  <2> QED BY <1>0, <1>6, <2>1, <2>3, <2>4, <2>5, AgentReadType DEF HandleDeleteRequest
<1>7. CASE HandleControlRequest(a)
  <2>1. AgentReads(a, "CONTROL_REQUEST")
    BY <1>7 DEF HandleControlRequest
  <2>2. toRic' \in [Agents -> Seq(ToRicMsg)]
    BY <1>7, <2>1, AgentReadType, SendToRicType DEF HandleControlRequest, ToRicMsg
  <2> QED BY <1>0, <1>7, <2>1, <2>2, AgentReadType DEF HandleControlRequest, agentVars
<1> QED BY <1>1, <1>2, <1>3, <1>4, <1>5, <1>6, <1>7 DEF AgentStep

LEMMA SendToAgentReady ==
  ASSUME TypeInv, NEW dst, NEW m \in ToAgentMsg, SendToAgent(dst, m)
  PROVE  ReadsNeverBlock'
<1>1. ASSUME NEW a \in Agents, edge'[a] PROVE toAgent'[a] # << >>
  <2>0. toAgent[a] \in Seq(ToAgentMsg)
    BY DEF TypeInv, TypeOK, ChannelTypeOK
  <2>1. Append(toAgent[a], m) # << >>
    BY <2>0, AppendShape
  <2>2. edge'[a] = (edge[a] \/ a = dst)
    BY DEF SendToAgent
  <2>3. toAgent'[a] = IF a = dst THEN Append(toAgent[a], m) ELSE toAgent[a]
    BY DEF SendToAgent
  <2> QED BY <1>1, <2>1, <2>2, <2>3 DEF TypeInv, ReadsNeverBlock
<1> QED BY <1>1 DEF ReadsNeverBlock

LEMMA StopPendingType ==
  ASSUME TypeOK, NEW ev, NEW id, StopPending(ev, id)
  PROVE  /\ pending' \in SUBSET PendingEntry
         /\ ricPhase' \in {"down", "up", "aborted"}
BY DEF TypeOK, RicTypeOK, ChannelTypeOK, StopPending, AbortRic

(* The loop pushes the id of the response it has just handled. *)
LEMMA PushActiveType ==
  ASSUME TypeOK, PushActive
  PROVE  act_req' \in Seq(RicId) /\ act_cap' \in Nat /\ ricPc' = "poll"
BY DEF TypeOK, RicTypeOK, PushActive


LEMMA RicLoopStepType == ASSUME TypeInv, RicLoopStep PROVE TypeInv'
<1> USE DEF TypeInv, TypeOK, ChannelTypeOK, RicTypeOK
<1>0. AgentTypeOK' /\ calls' \in [Kinds -> [RanFuncs -> Nat]]
  BY DEF RicLoopStep, AgentTypeOK, agentVars
<1>1. CASE StartRic
  BY <1>0, <1>1 DEF StartRic, ricVars, ReadsNeverBlock
<1>2. CASE SendSetupResponse
  <2>1. SendToAgent(ep_to, [type |-> "SETUP_RESPONSE", id |-> NoId])
    BY <1>2 DEF SendSetupResponse
  <2>2. [type |-> "SETUP_RESPONSE", id |-> NoId] \in ToAgentMsg
    BY DEF ToAgentMsg
  <2>3. ReadsNeverBlock'
    BY <2>1, <2>2, SendToAgentReady
  <2> QED BY <1>0, <1>2, <2>1, <2>2, <2>3, SendToAgentType DEF SendSetupResponse
<1>3. CASE PushActive
  BY <1>0, <1>3, PushActiveType DEF PushActive, channelVars, ReadsNeverBlock
<1>4. ASSUME NEW a \in Agents, HandleSetupRequest(a) PROVE TypeInv'
  <2>1. RicReads(a, "SETUP_REQUEST")
    BY <1>4 DEF HandleSetupRequest
  <2>2. conn_e2_nodes' \in Seq(Agents)
    BY <1>4 DEF HandleSetupRequest
  <2> QED BY <1>0, <1>4, <2>1, <2>2, RicReadType DEF HandleSetupRequest, ReadsNeverBlock
<1>5. ASSUME NEW a \in Agents, HandleSubscriptionResponse(a) PROVE TypeInv'
  <2>1. RicReads(a, "SUBSCRIPTION_RESPONSE") /\ StopPending(SubEv, Head(toRic[a]).id)
    BY <1>5 DEF HandleSubscriptionResponse
  <2> QED BY <1>0, <1>5, <2>1, RicReadType, StopPendingType
          DEF HandleSubscriptionResponse, ReadsNeverBlock
<1>6. ASSUME NEW a \in Agents, HandleDeleteResponse(a) PROVE TypeInv'
  <2>1. RicReads(a, "DELETE_RESPONSE") /\ StopPending(DelEv, Head(toRic[a]).id)
    BY <1>6 DEF HandleDeleteResponse
  <2>2. closed' \in SUBSET RicId
    BY <1>6, <2>1, RicReadType DEF HandleDeleteResponse
  <2> QED BY <1>0, <1>6, <2>1, <2>2, RicReadType, StopPendingType
          DEF HandleDeleteResponse, ReadsNeverBlock
<1>7. ASSUME NEW a \in Agents, HandleControlAck(a) PROVE TypeInv'
  <2>1. RicReads(a, "CONTROL_ACK") /\ StopPending(CtrlEv, Head(toRic[a]).id)
    BY <1>7 DEF HandleControlAck
  <2> QED BY <1>0, <1>7, <2>1, RicReadType, StopPendingType
          DEF HandleControlAck, ReadsNeverBlock
<1>8. ASSUME NEW a \in Agents, HandleIndication(a) PROVE TypeInv'
  <2>1. RicReads(a, "INDICATION")
    BY <1>8 DEF HandleIndication
  <2> QED BY <1>0, <1>8, <2>1, RicReadType DEF HandleIndication, ReadsNeverBlock
<1> QED BY <1>1, <1>2, <1>3, <1>4, <1>5, <1>6, <1>7, <1>8 DEF RicLoopStep


(* A prepared request is a legal state of an API thread. *)
LEMMA PreparedType ==
  ASSUME NEW ev \in Events, NEW id \in RicId, NEW fd \in Fds
  PROVE  Prepared(ev, id, fd) \in ApiState
BY DEF Prepared, ApiState

LEMMA NewRequestType ==
  ASSUME TypeOK, NEW t \in Threads, NEW ev \in Events, NEW f \in RanFuncs,
         NewRequest(t, ev, f)
  PROVE  /\ req_id \in 0..MaxReqId
         /\ req_id' = req_id + 1
         /\ req_id' \in 0..(MaxReqId + 1)
         /\ [ric_req_id |-> req_id, ran_func_id |-> f] \in RicId
         /\ \E fd \in Fds :
              api' = [api EXCEPT ![t] =
                        Prepared(ev, [ric_req_id |-> req_id, ran_func_id |-> f], fd)]
         /\ api' \in [Threads -> ApiState]
<1>1. req_id \in 0..MaxReqId /\ req_id' = req_id + 1 /\ req_id' \in 0..(MaxReqId + 1)
  BY DEF NewRequest, TypeOK, RicTypeOK
<1>2. [ric_req_id |-> req_id, ran_func_id |-> f] \in RicId
  BY <1>1 DEF RicId
<1>3. PICK fd \in Fds :
        api' = [api EXCEPT ![t] =
                  Prepared(ev, [ric_req_id |-> req_id, ran_func_id |-> f], fd)]
  BY DEF NewRequest
<1>4. Prepared(ev, [ric_req_id |-> req_id, ran_func_id |-> f], fd) \in ApiState
  BY <1>2, PreparedType
<1> QED BY <1>1, <1>2, <1>3, <1>4 DEF TypeOK, RicTypeOK

LEMMA ApiCallType ==
  ASSUME TypeInv, NEW t \in Threads, NEW f \in RanFuncs, ApiCall(t, f)
  PROVE  TypeInv'
<1> USE DEF TypeInv, TypeOK
<1>1. AgentTypeOK'
  BY DEF ApiCall, AgentTypeOK, agentVars
<1>2. ASSUME NEW k \in Kinds, Called(k, f) PROVE calls' \in [Kinds -> [RanFuncs -> Nat]]
  BY <1>2 DEF Called
<1>3. CASE ReportService(t, f) /\ Called("report", f)
  <2>1. calls' \in [Kinds -> [RanFuncs -> Nat]]
    BY <1>2, <1>3 DEF Kinds
  <2>2. NewRequest(t, SubEv, f) /\ SubEv \in Events
    BY <1>3 DEF ReportService, Events
  <2> QED BY <1>1, <1>3, <2>1, <2>2, NewRequestType
          DEF ReportService, ChannelTypeOK, RicTypeOK, channelVars, ReadsNeverBlock
<1>4. CASE ControlService(t, f) /\ Called("control", f)
  <2>1. calls' \in [Kinds -> [RanFuncs -> Nat]]
    BY <1>2, <1>4 DEF Kinds
  <2>2. CASE NewRequest(t, CtrlEv, f) /\ UNCHANGED ricPhase
    <3>1. CtrlEv \in Events
      BY DEF Events
    <3> QED BY <1>1, <1>4, <2>1, <2>2, <3>1, NewRequestType
            DEF ControlService, ChannelTypeOK, RicTypeOK, ReadsNeverBlock
  <2>3. CASE AbortRic /\ UNCHANGED <<req_id, api>>
    BY <1>1, <1>4, <2>1, <2>3
       DEF ControlService, ChannelTypeOK, RicTypeOK, ReadsNeverBlock, AbortRic
  <2> QED BY <1>4, <2>2, <2>3 DEF ControlService
<1>5. CASE RmReportFind(t, f) /\ Called("remove", f)
  <2>1. calls' \in [Kinds -> [RanFuncs -> Nat]]
    BY <1>2, <1>5 DEF Kinds
  <2>2. PICK i \in {0} \cup DOMAIN act_req :
          api' = [api EXCEPT ![t] = [pc |-> "use", ev |-> DelEv, id |-> NoId,
                                     fd |-> 0, idx |-> i, cap |-> act_cap]]
    BY <1>5 DEF RmReportFind
  <2>3. i \in Nat /\ act_cap \in Nat
    BY DEF RicTypeOK
  <2>4. [pc |-> "use", ev |-> DelEv, id |-> NoId, fd |-> 0, idx |-> i, cap |-> act_cap]
          \in ApiState
    BY <2>3 DEF ApiState
  <2>5. api' \in [Threads -> ApiState]
    BY <2>2, <2>4 DEF RicTypeOK
  <2> QED BY <1>1, <1>5, <2>1, <2>5
          DEF RmReportFind, ChannelTypeOK, RicTypeOK, channelVars, ReadsNeverBlock
<1> QED BY <1>3, <1>4, <1>5 DEF ApiCall

(* What a thread between its timer and its send holds. *)
LEMMA ApiHolds ==
  ASSUME TypeOK, NEW t \in Threads, api[t].pc \in {"insert", "send"}
  PROVE  /\ api[t].ev \in Events
         /\ api[t].id \in RicId
         /\ api[t].fd \in Fds
         /\ [api[t] EXCEPT !.pc = "send"] \in ApiState
<1>1. api[t] \in ApiState
  BY DEF TypeOK, RicTypeOK
<1>2. api[t] \in [pc : {"insert", "send"}, ev : Events, id : RicId, fd : Fds,
                  idx : {0}, cap : {0}]
  BY <1>1 DEF ApiState, Idle
<1>3. [api[t] EXCEPT !.pc = "send"] \in
        [pc : {"insert", "send"}, ev : Events, id : RicId, fd : Fds, idx : {0}, cap : {0}]
  BY <1>2
<1> QED BY <1>2, <1>3 DEF ApiState

LEMMA RequestType ==
  ASSUME NEW ev \in Events, NEW id \in RicId
  PROVE  [type |-> RequestOf(ev), id |-> id] \in ToAgentMsg
BY DEF Events, SubEv, DelEv, CtrlEv, RequestOf, ToAgentMsg, RequestTypes

LEMMA ApiStepType == ASSUME TypeInv, NEW t \in Threads, ApiStep(t) PROVE TypeInv'
<1> USE DEF TypeInv, TypeOK
<1>1. AgentTypeOK' /\ calls' \in [Kinds -> [RanFuncs -> Nat]]
  BY DEF ApiStep, AgentTypeOK, agentVars
<1>2. CASE RmReportUse(t)
  <2>1. ricPhase' \in {"down", "up", "aborted"}
    BY <1>2 DEF RmReportUse, AbortRic, ChannelTypeOK
  <2>2. api' \in [Threads -> ApiState]
    <3>1. CASE api' = api
      BY <3>1 DEF RicTypeOK
    <3>2. CASE \E fd \in Fds, id \in RicId : api' = [api EXCEPT ![t] = Prepared(DelEv, id, fd)]
      <4>1. DelEv \in Events
        BY DEF Events
      <4> QED BY <3>2, <4>1, PreparedType DEF RicTypeOK
    <3> QED BY <1>2, <3>1, <3>2 DEF RmReportUse
  <2> QED BY <1>1, <1>2, <2>1, <2>2 DEF RmReportUse, ChannelTypeOK, RicTypeOK, ReadsNeverBlock
<1>3. CASE InsertPending(t)
  <2>1. api[t].ev \in Events /\ api[t].id \in RicId /\ api[t].fd \in Fds
    BY <1>3, ApiHolds DEF InsertPending
  <2>2. pending' \in SUBSET PendingEntry
    BY <1>3, <2>1 DEF InsertPending, PendingEntry, RicTypeOK
  <2>3. api' = [api EXCEPT ![t] = [api[t] EXCEPT !.pc = "send"]]
    BY <1>3 DEF InsertPending
  <2>4. api' \in [Threads -> ApiState]
    BY <1>3, <2>3, ApiHolds DEF InsertPending, RicTypeOK
  <2> QED BY <1>1, <1>3, <2>2, <2>4
          DEF InsertPending, ChannelTypeOK, RicTypeOK, channelVars, ReadsNeverBlock
<1>4. CASE SendRequest(t)
  <2>1. [type |-> RequestOf(api[t].ev), id |-> api[t].id] \in ToAgentMsg
    BY <1>4, ApiHolds, RequestType DEF SendRequest
  <2>2. /\ toAgent' \in [Agents -> Seq(ToAgentMsg)]
        /\ edge' \in [Agents -> BOOLEAN]
        /\ ReadsNeverBlock'
    BY <1>4, <2>1, SendToAgentType, SendToAgentReady DEF SendRequest
  <2>3. api' \in [Threads -> ApiState]
    BY <1>4 DEF SendRequest, RicTypeOK, ApiState
  <2> QED BY <1>1, <1>4, <2>2, <2>3 DEF SendRequest, ChannelTypeOK, RicTypeOK
<1> QED BY <1>2, <1>3, <1>4 DEF ApiStep

LEMMA StutterType == ASSUME TypeInv, UNCHANGED vars PROVE TypeInv'
BY DEF TypeInv, TypeOK, ChannelTypeOK, AgentTypeOK, RicTypeOK, ReadsNeverBlock,
       vars, channelVars, agentVars, ricVars

LEMMA TypeNext == TypeInv /\ [Next]_vars => TypeInv'
BY AgentStepType, RicLoopStepType, ApiCallType, ApiStepType, StutterType DEF Next

(* The state of agents, RIC, API threads and channels keeps its type. *)
THEOREM TypeCorrect == Spec => []TypeOK
<1>1. TypeInv => TypeOK
  BY DEF TypeInv
<1> QED BY <1>1, TypeInit, TypeNext, PTL DEF Spec

(* The agent's loop never reads an empty (blocking) socket: an edge that its  *)
(* epoll holds announces a message, however many arrived for it.              *)
THEOREM ReadsReady == Spec => []ReadsNeverBlock
<1>1. TypeInv => ReadsNeverBlock
  BY DEF TypeInv
<1> QED BY <1>1, TypeInit, TypeNext, PTL DEF Spec


-----------------------------------------------------------------------------
(***************************************************************************)
(* How the queues look after a send or a read.                             *)
(***************************************************************************)

(* After a send towards the RIC a queue holds what it held, where it held it, *)
(* and possibly the new message at its end.                                   *)
LEMMA SendToRicShape ==
  ASSUME TypeOK, NEW a \in Agents, NEW m \in ToRicMsg, SendToRic(a, m)
  PROVE  \A b \in Agents : \A i \in DOMAIN toRic'[b] :
           /\ i \in Nat
           /\ \/ i \in DOMAIN toRic[b] /\ toRic'[b][i] = toRic[b][i]
              \/ b = a /\ i = Len(toRic[a]) + 1 /\ toRic'[b][i] = m
<1> SUFFICES ASSUME NEW b \in Agents, NEW i \in DOMAIN toRic'[b]
             PROVE  /\ i \in Nat
                    /\ \/ i \in DOMAIN toRic[b] /\ toRic'[b][i] = toRic[b][i]
                       \/ b = a /\ i = Len(toRic[a]) + 1 /\ toRic'[b][i] = m
  OBVIOUS
<1>1. toRic[b] \in Seq(ToRicMsg) /\ toRic[a] \in Seq(ToRicMsg)
  BY DEF TypeOK, ChannelTypeOK
<1>2. toRic'[b] = toRic[b] \/ (b = a /\ toRic'[b] = Append(toRic[a], m))
  BY DEF TypeOK, ChannelTypeOK, SendToRic
<1> QED BY <1>1, <1>2, AppendShape

LEMMA SendToAgentShape ==
  ASSUME TypeOK, NEW dst, NEW m \in ToAgentMsg, SendToAgent(dst, m)
  PROVE  \A b \in Agents : \A i \in DOMAIN toAgent'[b] :
           /\ i \in Nat
           /\ \/ i \in DOMAIN toAgent[b] /\ toAgent'[b][i] = toAgent[b][i]
              \/ b = dst /\ i = Len(toAgent[b]) + 1 /\ toAgent'[b][i] = m
<1> SUFFICES ASSUME NEW b \in Agents, NEW i \in DOMAIN toAgent'[b]
             PROVE  /\ i \in Nat
                    /\ \/ i \in DOMAIN toAgent[b] /\ toAgent'[b][i] = toAgent[b][i]
                       \/ b = dst /\ i = Len(toAgent[b]) + 1 /\ toAgent'[b][i] = m
  OBVIOUS
<1>1. toAgent[b] \in Seq(ToAgentMsg)
  BY DEF TypeOK, ChannelTypeOK
<1>2. toAgent'[b] = toAgent[b] \/ (b = dst /\ toAgent'[b] = Append(toAgent[b], m))
  BY DEF SendToAgent
<1> QED BY <1>1, <1>2, AppendShape

(* A read shifts the queue by one. *)
LEMMA AgentReadShape ==
  ASSUME TypeInv, NEW a \in Agents, NEW t, AgentReads(a, t)
  PROVE  /\ 1 \in DOMAIN toAgent[a] /\ toAgent[a][1] = Head(toAgent[a])
         /\ \A b \in Agents : \A i \in DOMAIN toAgent'[b] :
              /\ i \in Nat \ {0}
              /\ b # a => i \in DOMAIN toAgent[b] /\ toAgent'[b][i] = toAgent[b][i]
              /\ b = a => i + 1 \in DOMAIN toAgent[b] /\ toAgent'[b][i] = toAgent[b][i + 1]
<1>1. /\ toAgent[a] # << >>
      /\ toAgent' = [toAgent EXCEPT ![a] = Tail(@)]
      /\ toAgent \in [Agents -> Seq(ToAgentMsg)]
  BY AgentReadType DEF TypeInv, TypeOK, ChannelTypeOK
<1>2. 1 \in DOMAIN toAgent[a] /\ toAgent[a][1] = Head(toAgent[a])
  BY <1>1, HeadTail
<1>3. ASSUME NEW b \in Agents, b # a, NEW i \in DOMAIN toAgent'[b]
      PROVE  i \in Nat \ {0} /\ i \in DOMAIN toAgent[b] /\ toAgent'[b][i] = toAgent[b][i]
  BY <1>1, <1>3
<1>4. ASSUME NEW i \in DOMAIN toAgent'[a]
      PROVE  i \in Nat \ {0} /\ i + 1 \in DOMAIN toAgent[a] /\ toAgent'[a][i] = toAgent[a][i + 1]
  <2>1. toAgent[a] \in Seq(ToAgentMsg) /\ toAgent'[a] = Tail(toAgent[a])
    BY <1>1
  <2> QED BY <1>1, <2>1, HeadTail
<1> QED BY <1>2, <1>3, <1>4

LEMMA RicReadShape ==
  ASSUME TypeInv, NEW a \in Agents, NEW t, RicReads(a, t)
  PROVE  /\ 1 \in DOMAIN toRic[a] /\ toRic[a][1] = Head(toRic[a])
         /\ \A b \in Agents : \A i \in DOMAIN toRic'[b] :
              /\ i \in Nat \ {0}
              /\ b # a => i \in DOMAIN toRic[b] /\ toRic'[b][i] = toRic[b][i]
              /\ b = a => i + 1 \in DOMAIN toRic[b] /\ toRic'[b][i] = toRic[b][i + 1]
<1>1. /\ toRic[a] # << >>
      /\ toRic' = [toRic EXCEPT ![a] = Tail(@)]
      /\ toRic \in [Agents -> Seq(ToRicMsg)]
  BY RicReadType DEF TypeInv, TypeOK, ChannelTypeOK
<1>2. 1 \in DOMAIN toRic[a] /\ toRic[a][1] = Head(toRic[a])
  BY <1>1, HeadTail
<1>3. ASSUME NEW b \in Agents, b # a, NEW i \in DOMAIN toRic'[b]
      PROVE  i \in Nat \ {0} /\ i \in DOMAIN toRic[b] /\ toRic'[b][i] = toRic[b][i]
  BY <1>1, <1>3
<1>4. ASSUME NEW i \in DOMAIN toRic'[a]
      PROVE  i \in Nat \ {0} /\ i + 1 \in DOMAIN toRic[a] /\ toRic'[a][i] = toRic[a][i + 1]
  <2>1. toRic[a] \in Seq(ToRicMsg) /\ toRic'[a] = Tail(toRic[a])
    BY <1>1
  <2> QED BY <1>1, <2>1, HeadTail
<1> QED BY <1>2, <1>3, <1>4


-----------------------------------------------------------------------------
(***************************************************************************)
(* The inductive step, action by action.                                   *)
(***************************************************************************)
Books == AllIssued /\ HoldersDistinct /\ ServedOnce /\ RequestsTracked /\ AnswersHaveEntries

(* Setup requests and indications are no answers: sending one keeps the books. *)
LEMMA NonAnswerSend ==
  ASSUME TypeInv, Books, NEW a \in Agents, NEW m \in ToRicMsg,
         m.type \in {"SETUP_REQUEST", "INDICATION"},
         SendToRic(a, m), UNCHANGED <<toAgent, ind_event, ricVars>>
  PROVE  Books'
<1> USE DEF Books, ricVars, Holds, Queued, Issued
<1>1. \A b \in Agents : \A i \in Nat :
        /\ Answered(b, i)' => Answered(b, i) /\ toRic'[b][i] = toRic[b][i]
        /\ Deleted(b, i)' => Deleted(b, i) /\ toRic'[b][i] = toRic[b][i]
  BY SendToRicShape DEF Answered, Deleted, NewAns, TypeInv
<1>2. AllIssued'
  BY <1>1 DEF AllIssued
<1>3. HoldersDistinct'
  BY <1>1 DEF HoldersDistinct
<1>4. ServedOnce'
  BY <1>1 DEF ServedOnce, Unserved
<1>5. RequestsTracked'
  BY DEF RequestsTracked, Tracked, HasEntry
<1>6. AnswersHaveEntries'
  BY SendToRicShape DEF AnswersHaveEntries, HasEntry, AnswerTypes, TypeInv
<1> QED BY <1>2, <1>3, <1>4, <1>5, <1>6


\* Where message i of queue b stood before a was read.
Before(a, b, i) == IF b = a THEN i + 1 ELSE i

(* After the agent's read, what is queued was queued, one place further back  *)
(* and behind the message that was read.                                      *)
LEMMA QueuedBefore ==
  ASSUME TypeInv, NEW a \in Agents, NEW t, AgentReads(a, t)
  PROVE  \A b \in Agents : \A i \in Nat :
           Queued(b, i)' =>
             /\ Before(a, b, i) \in Nat
             /\ Queued(b, Before(a, b, i))
             /\ toAgent'[b][i] = toAgent[b][Before(a, b, i)]
             /\ b = a => Before(a, b, i) # 1
BY AgentReadShape DEF Queued, Before

(* The same for every request, removals included. *)
LEMMA RequestsTrackedRead ==
  ASSUME TypeInv, RequestsTracked, NEW a \in Agents, NEW t, AgentReads(a, t),
         UNCHANGED <<api, pending, closed>>
  PROVE  RequestsTracked'
BY AgentReadShape DEF RequestsTracked, Tracked, HasEntry

(* A subscription or control request moves on: from the agent's queue into    *)
(* the RIC's queue, as its answer, or nowhere if the RIC is gone.             *)
LEMMA AnswerBooks ==
  ASSUME TypeInv, Books, NEW a \in Agents, NEW req \in NewReq, NEW ans \in NewAns,
         AgentReads(a, req), EventOf(ans) = EventOfReq(req),
         SendToRic(a, [type |-> ans, id |-> Head(toAgent[a]).id]),
         UNCHANGED ricVars,
         \/ UNCHANGED ind_event
         \/ ind_event' = [ind_event EXCEPT ![a] = @ \cup {Head(toAgent[a]).id}]
  PROVE  Books'
<1> DEFINE id == Head(toAgent[a]).id
           m == [type |-> ans, id |-> id]
<1> USE DEF Books, ricVars, Holds, Issued
<1>0. /\ 1 \in Nat /\ Queued(a, 1) /\ toAgent[a][1].id = id
      /\ id \in RicId /\ m \in ToRicMsg /\ m.type \in NewAns /\ m.id = id
      /\ ind_event \in [Agents -> SUBSET RicId]
  <2>1. Head(toAgent[a]).type = req /\ id \in RicId
    BY AgentReadType DEF NewReq
  <2>2. 1 \in DOMAIN toAgent[a] /\ toAgent[a][1] = Head(toAgent[a])
    BY AgentReadShape
  <2> QED BY <2>1, <2>2 DEF Queued, ToRicMsg, NewAns, TypeInv, TypeOK, AgentTypeOK
<1>1. \A b \in Agents : \A i \in Nat :
        Queued(b, i)' =>
          /\ Before(a, b, i) \in Nat
          /\ Queued(b, Before(a, b, i))
          /\ toAgent'[b][i] = toAgent[b][Before(a, b, i)]
          /\ toAgent'[b][i].id # id
  <2>1. \A b \in Agents : \A i \in Nat :
          Queued(b, i) /\ toAgent[b][i].id = id => b = a /\ i = 1
    BY <1>0 DEF HoldersDistinct
  <2> QED BY <1>0, <2>1, QueuedBefore DEF Before
<1>2. \A b \in Agents : \A i \in Nat :
        /\ Answered(b, i)' =>
             \/ Answered(b, i) /\ toRic'[b][i] = toRic[b][i]
             \/ b = a /\ i = Len(toRic[a]) + 1 /\ toRic'[b][i].id = id
        /\ Deleted(b, i)' => Deleted(b, i) /\ toRic'[b][i] = toRic[b][i]
  BY <1>0, SendToRicShape DEF Answered, Deleted, NewAns, TypeInv
<1>3. /\ Issued(id)
      /\ Unserved(id)
      /\ \A t \in Threads : Holds(t) => api[t].id # id
      /\ \A b \in Agents : \A i \in Nat : Answered(b, i) => toRic[b][i].id # id
  BY <1>0 DEF AllIssued, HoldersDistinct, ServedOnce
<1>4. \A b \in Agents : \A x \in ind_event'[b] : x \in ind_event[b] \/ (b = a /\ x = id)
  BY <1>0
<1>5. AllIssued'
  BY <1>1, <1>2, <1>3, <1>4 DEF AllIssued
<1>6. HoldersDistinct'
  <2>1. \A t, u \in Threads :
          (Holds(t) /\ Holds(u) /\ api[t].id = api[u].id => t = u)'
    BY DEF HoldersDistinct
  <2>2. \A t \in Threads, b \in Agents : \A i \in Nat :
          /\ (Holds(t) /\ Queued(b, i) => api[t].id # toAgent[b][i].id)'
          /\ (Holds(t) /\ Answered(b, i) => api[t].id # toRic[b][i].id)'
    BY <1>1, <1>2, <1>3 DEF HoldersDistinct
  <2>3. \A b, c \in Agents : \A i, j \in Nat :
          (Queued(b, i) /\ Queued(c, j) /\ toAgent[b][i].id = toAgent[c][j].id
             => b = c /\ i = j)'
    BY <1>1 DEF HoldersDistinct, Before
  <2>4. \A b, c \in Agents : \A i, j \in Nat :
          (Queued(b, i) /\ Answered(c, j) => toAgent[b][i].id # toRic[c][j].id)'
    BY <1>1, <1>2 DEF HoldersDistinct
  <2>5. \A b, c \in Agents : \A i, j \in Nat :
          (Answered(b, i) /\ Answered(c, j) /\ toRic[b][i].id = toRic[c][j].id
             => b = c /\ i = j)'
    BY <1>2, <1>3 DEF HoldersDistinct
  <2> QED BY <2>1, <2>2, <2>3, <2>4, <2>5 DEF HoldersDistinct
<1>7. ServedOnce'
  BY <1>1, <1>2, <1>3, <1>4 DEF ServedOnce, Unserved
<1>8. RequestsTracked'
  BY RequestsTrackedRead
<1>9. AnswersHaveEntries'
  <2>1. HasEntry(EventOf(ans), id)
    BY <1>0 DEF RequestsTracked, Tracked, Queued, NewReq, RequestTypes, EventOfReq,
                SubEv, CtrlEv, DelEv, AgentReads
  <2> QED BY <1>0, <2>1, SendToRicShape DEF AnswersHaveEntries, HasEntry, TypeInv
<1> QED BY <1>5, <1>6, <1>7, <1>8, <1>9

(* A removal the agent serves: the subscription is in ind_event, so it is not *)
(* closed and the removal's entry is still there; its answer is the first.    *)
LEMMA DeleteRequestBooks ==
  ASSUME TypeInv, Books, NEW a \in Agents, AgentReads(a, "DELETE_REQUEST"),
         Head(toAgent[a]).id \in ind_event[a],
         ind_event' = [ind_event EXCEPT ![a] = @ \ {Head(toAgent[a]).id}],
         SendToRic(a, [type |-> "DELETE_RESPONSE", id |-> Head(toAgent[a]).id]),
         UNCHANGED ricVars
  PROVE  Books'
<1> DEFINE id == Head(toAgent[a]).id
           m == [type |-> "DELETE_RESPONSE", id |-> id]
<1> USE DEF Books, ricVars, Holds, Issued
<1>0. /\ m \in ToRicMsg /\ m.type = "DELETE_RESPONSE" /\ m.id = id
      /\ ind_event \in [Agents -> SUBSET RicId]
      /\ 1 \in DOMAIN toAgent[a] /\ toAgent[a][1].type = "DELETE_REQUEST"
      /\ toAgent[a][1].id = id
  <2>1. id \in RicId /\ Head(toAgent[a]).type = "DELETE_REQUEST"
    BY AgentReadType
  <2> QED BY <2>1, AgentReadShape DEF ToRicMsg, TypeInv, TypeOK, AgentTypeOK
<1>1. \A b \in Agents : \A i \in Nat :
        Queued(b, i)' =>
          /\ Before(a, b, i) \in Nat
          /\ Queued(b, Before(a, b, i))
          /\ toAgent'[b][i] = toAgent[b][Before(a, b, i)]
  BY QueuedBefore
<1>2. \A b \in Agents : \A i \in Nat :
        /\ Answered(b, i)' => Answered(b, i) /\ toRic'[b][i] = toRic[b][i]
        /\ Deleted(b, i)' =>
             \/ Deleted(b, i) /\ toRic'[b][i] = toRic[b][i]
             \/ b = a /\ i = Len(toRic[a]) + 1 /\ toRic'[b][i].id = id
  BY <1>0, SendToRicShape DEF Answered, Deleted, NewAns, TypeInv
<1>3. /\ Issued(id)
      /\ id \notin closed
      /\ \A t \in Threads : Holds(t) => api[t].id # id
      /\ \A b \in Agents : \A i \in Nat : Queued(b, i) => toAgent[b][i].id # id
      /\ \A b \in Agents : \A i \in Nat : Deleted(b, i) => toRic[b][i].id # id
      /\ \A b \in Agents : id \in ind_event[b] => b = a
  BY DEF AllIssued, ServedOnce, Unserved
<1>4. \A b \in Agents : \A x \in ind_event'[b] : x \in ind_event[b] /\ x # id
  BY <1>0, <1>3
<1>5. AllIssued'
  BY <1>1, <1>2, <1>3, <1>4 DEF AllIssued
<1>6. HoldersDistinct'
  <2>1. \A t, u \in Threads :
          (Holds(t) /\ Holds(u) /\ api[t].id = api[u].id => t = u)'
    BY DEF HoldersDistinct
  <2>2. \A t \in Threads, b \in Agents : \A i \in Nat :
          /\ (Holds(t) /\ Queued(b, i) => api[t].id # toAgent[b][i].id)'
          /\ (Holds(t) /\ Answered(b, i) => api[t].id # toRic[b][i].id)'
    BY <1>1, <1>2 DEF HoldersDistinct
  <2>3. \A b, c \in Agents : \A i, j \in Nat :
          (Queued(b, i) /\ Queued(c, j) /\ toAgent[b][i].id = toAgent[c][j].id
             => b = c /\ i = j)'
    BY <1>1 DEF HoldersDistinct, Before
  <2>4. \A b, c \in Agents : \A i, j \in Nat :
          /\ (Queued(b, i) /\ Answered(c, j) => toAgent[b][i].id # toRic[c][j].id)'
          /\ (Answered(b, i) /\ Answered(c, j) /\ toRic[b][i].id = toRic[c][j].id
                => b = c /\ i = j)'
    BY <1>1, <1>2 DEF HoldersDistinct
  <2> QED BY <2>1, <2>2, <2>3, <2>4 DEF HoldersDistinct
<1>7. ServedOnce'
  <2>1. \A x : Unserved(x) /\ x # id => Unserved(x)'
    BY <1>2, <1>4 DEF Unserved
  <2>2. /\ \A t \in Threads : (Holds(t) => Unserved(api[t].id))'
        /\ \A b \in Agents : \A i \in Nat : (Queued(b, i) => Unserved(toAgent[b][i].id))'
    BY <1>1, <1>3, <2>1 DEF ServedOnce
  <2>3. \A b, c \in Agents : \A x \in ind_event'[b] :
          /\ x \in ind_event'[c] => b = c
          /\ \A i \in Nat : Deleted(c, i)' => toRic'[c][i].id # x
          /\ x \notin closed'
    BY <1>2, <1>4 DEF ServedOnce
  <2>4. \A b, c \in Agents : \A i, j \in Nat :
          (Deleted(b, i) /\ Deleted(c, j) /\ toRic[b][i].id = toRic[c][j].id
             => b = c /\ i = j)'
    BY <1>2, <1>3 DEF ServedOnce
  <2> QED BY <2>2, <2>3, <2>4 DEF ServedOnce
<1>8. RequestsTracked'
  BY RequestsTrackedRead
<1>9. AnswersHaveEntries'
  <2>1. HasEntry(DelEv, id)
    BY <1>0, <1>3 DEF RequestsTracked, Tracked, RequestTypes, EventOfReq
  <2>2. EventOf("DELETE_RESPONSE") = DelEv
    BY DEF EventOf
  <2> QED BY <1>0, <2>1, <2>2, SendToRicShape DEF AnswersHaveEntries, HasEntry, TypeInv
<1> QED BY <1>5, <1>6, <1>7, <1>8, <1>9

(* A read that changes nothing else the books speak of. *)
LEMMA AgentReadBooks ==
  ASSUME TypeInv, Books, NEW a \in Agents, NEW t, AgentReads(a, t),
         UNCHANGED <<toRic, ind_event, ricVars>>
  PROVE  Books'
<1> USE DEF Books, ricVars, Holds, Answered, Deleted, Issued
<1>1. \A b \in Agents : \A i \in Nat :
        Queued(b, i)' =>
          /\ Before(a, b, i) \in Nat
          /\ Queued(b, Before(a, b, i))
          /\ toAgent'[b][i] = toAgent[b][Before(a, b, i)]
  BY QueuedBefore
<1>2. AllIssued'
  BY <1>1 DEF AllIssued
<1>3. HoldersDistinct'
  BY <1>1 DEF HoldersDistinct, Before
<1>4. ServedOnce'
  BY <1>1 DEF ServedOnce, Unserved
<1>5. RequestsTracked'
  BY RequestsTrackedRead
<1>6. AnswersHaveEntries'
  BY DEF AnswersHaveEntries, HasEntry
<1> QED BY <1>2, <1>3, <1>4, <1>5, <1>6

LEMMA AgentStepBooks == ASSUME IInv, NEW a \in Agents, AgentStep(a) PROVE Books'
<1>0. TypeInv /\ Books /\ UNCHANGED ricVars
  BY DEF IInv, Books, AgentStep
<1>1. CASE StartAgent(a) \/ SetupTimeout(a)
  <2>1. SetupRequest \in ToRicMsg /\ SetupRequest.type = "SETUP_REQUEST"
    BY DEF SetupRequest, ToRicMsg
  <2> QED BY <1>0, <1>1, <2>1, NonAnswerSend DEF StartAgent, SetupTimeout, agentVars
<1>2. ASSUME NEW id \in ind_event[a], IndicationTimeout(a, id) PROVE Books'
  <2>1. [type |-> "INDICATION", id |-> id] \in ToRicMsg
    BY <1>0 DEF ToRicMsg, TypeInv, TypeOK, AgentTypeOK
  <2> QED BY <1>0, <1>2, <2>1, NonAnswerSend DEF IndicationTimeout, agentVars
<1>3. CASE HandleSetupResponse(a)
  BY <1>0, <1>3, AgentReadBooks DEF HandleSetupResponse
<1>4. CASE HandleSubscriptionRequest(a)
  <2>1. EventOf("SUBSCRIPTION_RESPONSE") = EventOfReq("SUBSCRIPTION_REQUEST")
    BY DEF EventOf, EventOfReq
  <2> QED BY <1>0, <1>4, <2>1, AnswerBooks DEF HandleSubscriptionRequest, NewReq, NewAns
<1>5. CASE HandleDeleteRequest(a)
  <2>1. CASE Head(toAgent[a]).id \in ind_event[a]
    BY <1>0, <1>5, <2>1, DeleteRequestBooks DEF HandleDeleteRequest
  <2>2. CASE Head(toAgent[a]).id \notin ind_event[a]
    BY <1>0, <1>5, <2>2, AgentReadBooks DEF HandleDeleteRequest
  <2> QED BY <2>1, <2>2
<1>6. CASE HandleControlRequest(a)
  <2>1. EventOf("CONTROL_ACK") = EventOfReq("CONTROL_REQUEST")
    BY DEF EventOf, EventOfReq
  <2> QED BY <1>0, <1>6, <2>1, AnswerBooks DEF HandleControlRequest, NewReq, NewAns, agentVars
<1> QED BY <1>1, <1>2, <1>3, <1>4, <1>5, <1>6 DEF AgentStep

-----------------------------------------------------------------------------
(***************************************************************************)
(* The RIC's loop.                                                         *)
(***************************************************************************)

(* A step that leaves the books' state alone keeps them. *)
LEMMA IdleBooks ==
  ASSUME Books, UNCHANGED <<toAgent, toRic, ind_event, req_id, pending, api, closed>>
  PROVE  Books'
BY DEF Books, AllIssued, HoldersDistinct, ServedOnce, RequestsTracked, AnswersHaveEntries,
       Holds, Queued, Answered, Deleted, Issued, Unserved, Tracked, HasEntry

(* The setup response carries no id. *)
LEMMA SetupResponseBooks ==
  ASSUME TypeInv, Books, SendSetupResponse, UNCHANGED ind_event
  PROVE  Books'
<1> DEFINE m == [type |-> "SETUP_RESPONSE", id |-> NoId]
<1> USE DEF Books, Holds, Answered, Deleted, Issued
<1>0. /\ SendToAgent(ep_to, m) /\ m \in ToAgentMsg /\ m.type = "SETUP_RESPONSE"
      /\ UNCHANGED <<toRic, req_id, pending, api, closed>>
  BY DEF SendSetupResponse, ToAgentMsg
<1>1. \A b \in Agents : \A i \in DOMAIN toAgent'[b] :
        /\ i \in Nat
        /\ toAgent'[b][i].type \in RequestTypes =>
             i \in DOMAIN toAgent[b] /\ toAgent'[b][i] = toAgent[b][i]
  BY <1>0, SendToAgentShape DEF TypeInv, RequestTypes
<1>2. \A b \in Agents : \A i \in Nat :
        Queued(b, i)' => Queued(b, i) /\ toAgent'[b][i] = toAgent[b][i]
  BY <1>1 DEF Queued, NewReq, RequestTypes
<1>3. AllIssued'
  BY <1>0, <1>2 DEF AllIssued
<1>4. HoldersDistinct'
  BY <1>0, <1>2 DEF HoldersDistinct
<1>5. ServedOnce'
  BY <1>0, <1>2 DEF ServedOnce, Unserved
<1>6. RequestsTracked'
  BY <1>0, <1>1 DEF RequestsTracked, Tracked, HasEntry
<1>7. AnswersHaveEntries'
  BY <1>0 DEF AnswersHaveEntries, HasEntry
<1> QED BY <1>3, <1>4, <1>5, <1>6, <1>7

(* After the RIC's read, what is queued was queued behind what was read. *)
LEMMA AnsweredBefore ==
  ASSUME TypeInv, NEW a \in Agents, NEW t, RicReads(a, t)
  PROVE  \A b \in Agents : \A i \in Nat :
           /\ i \in DOMAIN toRic'[b] =>
                /\ Before(a, b, i) \in Nat
                /\ Before(a, b, i) \in DOMAIN toRic[b]
                /\ toRic'[b][i] = toRic[b][Before(a, b, i)]
                /\ b = a => Before(a, b, i) # 1
           /\ Answered(b, i)' => Answered(b, Before(a, b, i))
           /\ Deleted(b, i)' => Deleted(b, Before(a, b, i))
BY RicReadShape DEF Answered, Deleted, Before

(* The parts of the books that no read of the RIC disturbs. *)
LEMMA RicReadBooks ==
  ASSUME TypeInv, Books, NEW a \in Agents, NEW t, RicReads(a, t),
         UNCHANGED <<toAgent, ind_event, req_id, api>>
  PROVE  /\ \A u \in Threads : (Holds(u) => Issued(api[u].id))'
         /\ \A b \in Agents : \A i \in Nat : (Queued(b, i) => Issued(toAgent[b][i].id))'
         /\ \A b \in Agents : \A i \in Nat : (Answered(b, i) => Issued(toRic[b][i].id))'
         /\ \A b \in Agents : \A i \in Nat : (Deleted(b, i) => Issued(toRic[b][i].id))'
         /\ \A b \in Agents : \A id \in ind_event'[b] : Issued(id)'
         /\ HoldersDistinct'
<1> USE DEF Books, Holds, Queued, Issued
<1>1. \A b \in Agents : \A i \in Nat :
        /\ Answered(b, i)' => /\ Before(a, b, i) \in Nat
                              /\ Answered(b, Before(a, b, i))
                              /\ toRic'[b][i] = toRic[b][Before(a, b, i)]
        /\ Deleted(b, i)' => /\ Before(a, b, i) \in Nat
                             /\ Deleted(b, Before(a, b, i))
                             /\ toRic'[b][i] = toRic[b][Before(a, b, i)]
  BY AnsweredBefore DEF Answered, Deleted
<1>2. /\ \A u \in Threads : (Holds(u) => Issued(api[u].id))'
      /\ \A b \in Agents : \A i \in Nat : (Queued(b, i) => Issued(toAgent[b][i].id))'
      /\ \A b \in Agents : \A id \in ind_event'[b] : Issued(id)'
  BY DEF AllIssued
<1>3. \A b \in Agents : \A i \in Nat :
        /\ (Answered(b, i) => Issued(toRic[b][i].id))'
        /\ (Deleted(b, i) => Issued(toRic[b][i].id))'
  BY <1>1 DEF AllIssued
<1>4. HoldersDistinct'
  <2>1. /\ \A u, v \in Threads :
             (Holds(u) /\ Holds(v) /\ api[u].id = api[v].id => u = v)'
        /\ \A u \in Threads, b \in Agents : \A i \in Nat :
             (Holds(u) /\ Queued(b, i) => api[u].id # toAgent[b][i].id)'
        /\ \A b, c \in Agents : \A i, j \in Nat :
             (Queued(b, i) /\ Queued(c, j) /\ toAgent[b][i].id = toAgent[c][j].id
                => b = c /\ i = j)'
    BY DEF HoldersDistinct
  <2>2. \A u \in Threads, b \in Agents : \A i \in Nat :
          (Holds(u) /\ Answered(b, i) => api[u].id # toRic[b][i].id)'
    BY <1>1 DEF HoldersDistinct
  <2>3. \A b, c \in Agents : \A i, j \in Nat :
          (Queued(b, i) /\ Answered(c, j) => toAgent[b][i].id # toRic[c][j].id)'
    BY <1>1 DEF HoldersDistinct
  <2>4. \A b, c \in Agents : \A i, j \in Nat :
          (Answered(b, i) /\ Answered(c, j) /\ toRic[b][i].id = toRic[c][j].id
             => b = c /\ i = j)'
    BY <1>1 DEF HoldersDistinct, Before
  <2> QED BY <2>1, <2>2, <2>3, <2>4 DEF HoldersDistinct
<1> QED BY <1>2, <1>3, <1>4

(* A read that closes at most the subscription whose delete response it read. *)
LEMMA RicReadServed ==
  ASSUME TypeInv, Books, NEW a \in Agents, NEW t, RicReads(a, t),
         UNCHANGED <<toAgent, ind_event, req_id, api>>,
         \/ closed' = closed
         \/ closed' = closed \cup {Head(toRic[a]).id} /\ t = "DELETE_RESPONSE"
  PROVE  AllIssued' /\ ServedOnce'
<1> DEFINE id == Head(toRic[a]).id
<1> USE DEF Books, Holds, Queued, Issued
<1>1. \A b \in Agents : \A i \in Nat :
        Deleted(b, i)' => /\ Before(a, b, i) \in Nat
                          /\ Deleted(b, Before(a, b, i))
                          /\ toRic'[b][i] = toRic[b][Before(a, b, i)]
  BY AnsweredBefore DEF Deleted
<1>2. \A x \in closed' : x \in closed \/ (x = id /\ Deleted(a, 1) /\ toRic[a][1].id = id)
  <2>1. 1 \in DOMAIN toRic[a] /\ toRic[a][1] = Head(toRic[a]) /\ Head(toRic[a]).type = t
    BY RicReadShape, RicReadType
  <2> QED BY <2>1 DEF Deleted
<1>3. AllIssued'
  <2>1. \A x \in closed' : Issued(x)'
    BY <1>2 DEF AllIssued
  <2> QED BY <2>1, RicReadBooks DEF AllIssued
<1>4. \A x : Unserved(x) => Unserved(x)'
  BY <1>1, <1>2 DEF Unserved
<1>5. \A b \in Agents : \A x \in ind_event[b] : x \notin closed'
  BY <1>2 DEF ServedOnce
<1>6. ServedOnce'
  <2>1. /\ \A u \in Threads : (Holds(u) => Unserved(api[u].id))'
        /\ \A b \in Agents : \A i \in Nat : (Queued(b, i) => Unserved(toAgent[b][i].id))'
    BY <1>4 DEF ServedOnce
  <2>2. \A b, c \in Agents : \A x \in ind_event'[b] :
          /\ x \in ind_event'[c] => b = c
          /\ \A i \in Nat : Deleted(c, i)' => toRic'[c][i].id # x
          /\ x \notin closed'
    BY <1>1, <1>5 DEF ServedOnce
  <2>3. \A b, c \in Agents : \A i, j \in Nat :
          (Deleted(b, i) /\ Deleted(c, j) /\ toRic[b][i].id = toRic[c][j].id
             => b = c /\ i = j)'
    BY <1>1 DEF ServedOnce, Before
  <2> QED BY <2>1, <2>2, <2>3 DEF ServedOnce
<1> QED BY <1>3, <1>6

(* Setup requests and indications are read without touching `pending'. *)
LEMMA RicPlainReadBooks ==
  ASSUME TypeInv, Books, NEW a \in Agents, NEW t, RicReads(a, t),
         UNCHANGED <<toAgent, ind_event, req_id, api, pending, closed>>
  PROVE  Books'
<1>1. AllIssued' /\ ServedOnce' /\ HoldersDistinct'
  BY RicReadServed, RicReadBooks
<1>2. RequestsTracked'
  BY DEF Books, RequestsTracked, Tracked, HasEntry
<1>3. AnswersHaveEntries'
  BY RicReadShape DEF Books, AnswersHaveEntries, HasEntry
<1> QED BY <1>1, <1>2, <1>3 DEF Books

(* An answer's entry is there; it leaves `pending', the others stay. *)
LEMMA StopPendingFinds ==
  ASSUME TypeInv, Books, NEW a \in Agents, NEW t \in AnswerTypes, RicReads(a, t),
         StopPending(EventOf(t), Head(toRic[a]).id)
  PROVE  /\ ricPhase' = ricPhase
         /\ \A ev, x : HasEntry(ev, x) /\ (ev # EventOf(t) \/ x # Head(toRic[a]).id)
                         => HasEntry(ev, x)'
<1>1. 1 \in DOMAIN toRic[a] /\ toRic[a][1] = Head(toRic[a]) /\ Head(toRic[a]).type = t
  BY RicReadShape, RicReadType
<1>2. HasEntry(EventOf(t), Head(toRic[a]).id)
  BY <1>1 DEF Books, AnswersHaveEntries
<1>3. PICK p \in pending : /\ p.ev = EventOf(t) /\ p.id = Head(toRic[a]).id
                           /\ pending' = pending \ {p} /\ ricPhase' = ricPhase
  BY <1>2 DEF StopPending, HasEntry
<1> QED BY <1>3 DEF HasEntry

(* No other answer, and no open request, is left without an entry. *)
LEMMA AnswerReadBooks ==
  ASSUME TypeInv, Books, NEW a \in Agents, NEW t \in AnswerTypes, RicReads(a, t),
         StopPending(EventOf(t), Head(toRic[a]).id),
         UNCHANGED <<toAgent, ind_event, req_id, api>>,
         IF t = "DELETE_RESPONSE" THEN closed' = closed \cup {Head(toRic[a]).id}
                                  ELSE closed' = closed
  PROVE  Books'
<1> DEFINE id == Head(toRic[a]).id
<1>0. /\ 1 \in Nat /\ toRic[a][1].id = id
      /\ t = "DELETE_RESPONSE" => Deleted(a, 1)
      /\ t # "DELETE_RESPONSE" => Answered(a, 1)
      /\ 1 \in DOMAIN toRic[a] /\ toRic[a][1].type = t
  <2>1. 1 \in DOMAIN toRic[a] /\ toRic[a][1] = Head(toRic[a]) /\ Head(toRic[a]).type = t
    BY RicReadShape, RicReadType
  <2> QED BY <2>1 DEF Deleted, Answered, NewAns, AnswerTypes
<1>1. AllIssued' /\ ServedOnce' /\ HoldersDistinct'
  BY RicReadServed, RicReadBooks
<1>2. \A ev, x : HasEntry(ev, x) /\ (ev # EventOf(t) \/ x # id) => HasEntry(ev, x)'
  BY StopPendingFinds
<1>3. \A ev \in Events : \A x : Tracked(ev, x) /\ (ev = DelEv \/ ev # EventOf(t) \/ x # id)
                          => Tracked(ev, x)'
  <2>1. t # "DELETE_RESPONSE" => EventOf(t) # DelEv
    BY DEF EventOf, AnswerTypes, SubEv, DelEv, CtrlEv
  <2>2. closed \subseteq closed' /\ (t = "DELETE_RESPONSE" => id \in closed')
    OBVIOUS
  <2> QED BY <1>2, <2>1, <2>2 DEF Tracked
<1>4. RequestsTracked'
  <2>1. ASSUME NEW u \in Threads, api[u].pc = "send" PROVE Tracked(api[u].ev, api[u].id)'
    <3>1. api[u].ev \in Events /\ Tracked(api[u].ev, api[u].id)
      BY <2>1, ApiHolds DEF Books, RequestsTracked, TypeInv
    <3>2. api[u].ev = DelEv \/ api[u].ev # EventOf(t) \/ api[u].id # id
      <4>1. CASE t = "DELETE_RESPONSE"
        BY <4>1 DEF EventOf
      <4>2. CASE t # "DELETE_RESPONSE"
        BY <1>0, <2>1, <4>2 DEF Books, HoldersDistinct, Holds
      <4> QED BY <4>1, <4>2
    <3> QED BY <1>3, <3>1, <3>2
  <2>2. ASSUME NEW b \in Agents, NEW i \in DOMAIN toAgent[b],
               toAgent[b][i].type \in RequestTypes
        PROVE  Tracked(EventOfReq(toAgent[b][i].type), toAgent[b][i].id)'
    <3> DEFINE ev == EventOfReq(toAgent[b][i].type)
    <3>1. ev \in Events /\ Tracked(ev, toAgent[b][i].id)
      BY <2>2 DEF Books, RequestsTracked, EventOfReq, RequestTypes, Events
    <3>2. ev = DelEv \/ ev # EventOf(t) \/ toAgent[b][i].id # id
      <4>0. i \in Nat
        BY DEF TypeInv, TypeOK, ChannelTypeOK
      <4>1. CASE t = "DELETE_RESPONSE"
        BY <4>1 DEF EventOf
      <4>2. CASE t # "DELETE_RESPONSE" /\ toAgent[b][i].type \in NewReq
        <5>1. Queued(b, i)
          BY <4>2 DEF Queued
        <5> QED BY <1>0, <4>0, <4>2, <5>1 DEF Books, HoldersDistinct
      <4>3. CASE toAgent[b][i].type \notin NewReq
        BY <2>2, <4>3 DEF RequestTypes, NewReq, EventOfReq
      <4> QED BY <4>1, <4>2, <4>3
    <3> QED BY <1>3, <3>1, <3>2
  <2> QED BY <2>1, <2>2 DEF RequestsTracked
<1>5. AnswersHaveEntries'
  <2>1. SUFFICES ASSUME NEW b \in Agents, NEW i \in DOMAIN toRic'[b],
                        toRic'[b][i].type \in AnswerTypes
                 PROVE  HasEntry(EventOf(toRic[b][i].type), toRic[b][i].id)'
    BY DEF AnswersHaveEntries
  <2> DEFINE j == Before(a, b, i)
  <2>2. /\ j \in Nat /\ j \in DOMAIN toRic[b] /\ toRic'[b][i] = toRic[b][j]
        /\ b = a => j # 1
    <3>1. i \in Nat
      BY RicReadShape
    <3> QED BY <3>1, AnsweredBefore
  <2>3. HasEntry(EventOf(toRic[b][j].type), toRic[b][j].id)
    BY <2>1, <2>2 DEF Books, AnswersHaveEntries
  <2>4. EventOf(toRic[b][j].type) # EventOf(t) \/ toRic[b][j].id # id
    <3>1. SUFFICES ASSUME EventOf(toRic[b][j].type) = EventOf(t), toRic[b][j].id = id
                   PROVE  FALSE
      OBVIOUS
    <3>2. toRic[b][j].type = t
      BY <2>1, <2>2, <3>1 DEF EventOf, AnswerTypes, SubEv, DelEv, CtrlEv
    <3>3. CASE t = "DELETE_RESPONSE"
      BY <1>0, <2>2, <3>1, <3>2, <3>3 DEF Deleted, Books, ServedOnce
    <3>4. CASE t # "DELETE_RESPONSE"
      BY <1>0, <2>2, <3>1, <3>2, <3>4 DEF Answered, Books, HoldersDistinct
    <3> QED BY <3>3, <3>4
  <2> QED BY <1>2, <2>2, <2>3, <2>4
<1> QED BY <1>1, <1>4, <1>5 DEF Books

LEMMA RicLoopStepBooks == ASSUME IInv, RicLoopStep PROVE Books'
<1>0. TypeInv /\ Books /\ UNCHANGED ind_event
  BY DEF IInv, Books, RicLoopStep, agentVars
<1>1. CASE StartRic \/ PushActive
  BY <1>0, <1>1, IdleBooks DEF StartRic, PushActive, ricVars, channelVars
<1>2. CASE SendSetupResponse
  BY <1>0, <1>2, SetupResponseBooks
<1>3. ASSUME NEW a \in Agents, HandleSetupRequest(a) PROVE Books'
  BY <1>0, <1>3, RicPlainReadBooks DEF HandleSetupRequest
<1>4. ASSUME NEW a \in Agents, HandleIndication(a) PROVE Books'
  BY <1>0, <1>4, RicPlainReadBooks DEF HandleIndication
<1>5. ASSUME NEW a \in Agents, HandleSubscriptionResponse(a) PROVE Books'
  BY <1>0, <1>5, AnswerReadBooks DEF HandleSubscriptionResponse, EventOf, AnswerTypes
<1>6. ASSUME NEW a \in Agents, HandleDeleteResponse(a) PROVE Books'
  BY <1>0, <1>6, AnswerReadBooks DEF HandleDeleteResponse, EventOf, AnswerTypes
<1>7. ASSUME NEW a \in Agents, HandleControlAck(a) PROVE Books'
  BY <1>0, <1>7, AnswerReadBooks DEF HandleControlAck, EventOf, AnswerTypes
<1> QED BY <1>1, <1>2, <1>3, <1>4, <1>5, <1>6, <1>7 DEF RicLoopStep

-----------------------------------------------------------------------------
(***************************************************************************)
(* The API threads.                                                        *)
(***************************************************************************)

(* A new request's id was never issued before: nobody else holds it.         *)
LEMMA NewRequestBooks ==
  ASSUME TypeInv, Books, NEW t \in Threads, NEW f \in RanFuncs, NEW ev \in {SubEv, CtrlEv},
         NewRequest(t, ev, f), UNCHANGED <<toAgent, toRic, ind_event, pending, closed>>
  PROVE  Books'
<1> PICK id \in RicId : id = [ric_req_id |-> req_id, ran_func_id |-> f]
  <2>1. ev \in Events
    BY DEF Events
  <2> QED BY <2>1, NewRequestType DEF TypeInv
<1> USE DEF Books, Queued, Answered, Deleted
<1>0. /\ req_id \in Nat /\ req_id' = req_id + 1
      /\ api'[t].pc = "insert" /\ api'[t].id = id
      /\ \A u \in Threads : u # t => api'[u] = api[u]
  <2>1. ev \in Events
    BY DEF Events
  <2>2. PICK fd \in Fds : api' = [api EXCEPT ![t] = Prepared(ev, id, fd)]
    BY <2>1, NewRequestType DEF TypeInv
  <2> QED BY <2>1, <2>2, NewRequestType DEF TypeInv, TypeOK, RicTypeOK, Prepared
<1>1. \A x \in RicId : Issued(x) => Issued(x)' /\ x # id
  BY <1>0 DEF Issued, RicId
<1>2. Issued(id)'
  BY <1>0 DEF Issued, RicId
<1>3. /\ \A u \in Threads : Holds(u) => api[u].id \in RicId
      /\ \A a \in Agents : \A i \in Nat : Queued(a, i) => toAgent[a][i].id \in RicId
      /\ \A a \in Agents : \A i \in Nat : Answered(a, i) => toRic[a][i].id \in RicId
      /\ \A a \in Agents : \A i \in Nat : Deleted(a, i) => toRic[a][i].id \in RicId
      /\ \A a \in Agents : \A x \in ind_event[a] : x \in RicId
      /\ \A x \in closed : x \in RicId
  <2>1. \A u \in Threads : Holds(u) => api[u].id \in RicId
    BY ApiHolds DEF Holds, TypeInv
  <2>2. /\ \A a \in Agents : \A i \in DOMAIN toAgent[a] : toAgent[a][i] \in ToAgentMsg
        /\ \A a \in Agents : \A i \in DOMAIN toRic[a] : toRic[a][i] \in ToRicMsg
        /\ \A a \in Agents : \A x \in ind_event[a] : x \in RicId
        /\ \A x \in closed : x \in RicId
    BY DEF TypeInv, TypeOK, ChannelTypeOK, AgentTypeOK, RicTypeOK
  <2>3. \A a \in Agents : \A i \in Nat : Queued(a, i) => toAgent[a][i].id \in RicId
    BY <2>2 DEF ToAgentMsg, NewReq
  <2>4. \A a \in Agents : \A i \in Nat :
          Answered(a, i) \/ Deleted(a, i) => toRic[a][i].id \in RicId
    BY <2>2 DEF ToRicMsg, NewAns
  <2> QED BY <2>1, <2>2, <2>3, <2>4
<1>4. Unserved(id)
  BY <1>1, <1>3 DEF Unserved, AllIssued
<1>5. \A u \in Threads : Holds(u)' => u = t \/ (Holds(u) /\ api'[u] = api[u])
  BY <1>0 DEF Holds
<1>6. AllIssued'
  <2>1. \A u \in Threads : (Holds(u) => Issued(api[u].id))'
    BY <1>0, <1>1, <1>2, <1>3, <1>5 DEF AllIssued
  <2>2. \A a \in Agents : \A i \in Nat :
          /\ (Queued(a, i) => Issued(toAgent[a][i].id))'
          /\ (Answered(a, i) => Issued(toRic[a][i].id))'
          /\ (Deleted(a, i) => Issued(toRic[a][i].id))'
    BY <1>1, <1>3 DEF AllIssued
  <2>3. /\ \A a \in Agents : \A x \in ind_event'[a] : Issued(x)'
        /\ \A x \in closed' : Issued(x)'
    BY <1>1, <1>3 DEF AllIssued
  <2> QED BY <2>1, <2>2, <2>3 DEF AllIssued
<1>7. HoldersDistinct'
  BY <1>0, <1>1, <1>3, <1>5 DEF HoldersDistinct, AllIssued
<1>8. ServedOnce'
  <2>1. \A x : Unserved(x) => Unserved(x)'
    BY DEF Unserved
  <2>2. \A u \in Threads : (Holds(u) => Unserved(api[u].id))'
    BY <1>0, <1>4, <1>5, <2>1 DEF ServedOnce
  <2>3. \A a \in Agents : \A i \in Nat : (Queued(a, i) => Unserved(toAgent[a][i].id))'
    BY <2>1 DEF ServedOnce
  <2> QED BY <2>2, <2>3 DEF ServedOnce
<1>9. RequestsTracked'
  BY <1>0 DEF RequestsTracked, Tracked, HasEntry
<1>10. AnswersHaveEntries'
  BY DEF AnswersHaveEntries, HasEntry
<1> QED BY <1>6, <1>7, <1>8, <1>9, <1>10

(* A thread whose removal is under preparation holds no new request. *)
LEMMA RemovalBooks ==
  ASSUME TypeInv, Books, NEW t \in Threads,
         UNCHANGED <<toAgent, toRic, ind_event, req_id, pending, closed>>,
         NEW s, api' = [api EXCEPT ![t] = s], s.ev = DelEv, s.pc # "send"
  PROVE  Books'
<1> USE DEF Books, Queued, Answered, Deleted, Issued
<1>1. \A u \in Threads : /\ Holds(u)' => Holds(u) /\ api'[u] = api[u]
                         /\ api'[u].pc = "send" => api'[u] = api[u]
  BY DEF Holds, TypeInv, TypeOK, RicTypeOK
<1>2. AllIssued'
  BY <1>1 DEF AllIssued
<1>3. HoldersDistinct'
  BY <1>1 DEF HoldersDistinct
<1>4. ServedOnce'
  BY <1>1 DEF ServedOnce, Unserved
<1>5. RequestsTracked'
  BY <1>1 DEF RequestsTracked, Tracked, HasEntry
<1>6. AnswersHaveEntries'
  BY DEF AnswersHaveEntries, HasEntry
<1> QED BY <1>2, <1>3, <1>4, <1>5, <1>6

LEMMA ApiCallBooks ==
  ASSUME IInv, NEW t \in Threads, NEW f \in RanFuncs, ApiCall(t, f)
  PROVE  Books'
<1>0. TypeInv /\ Books /\ UNCHANGED ind_event
  BY DEF IInv, Books, ApiCall, agentVars
<1>1. CASE ReportService(t, f)
  BY <1>0, <1>1, NewRequestBooks DEF ReportService, channelVars
<1>2. CASE ControlService(t, f)
  <2>1. CASE NewRequest(t, CtrlEv, f)
    BY <1>0, <1>2, <2>1, NewRequestBooks DEF ControlService
  <2>2. CASE UNCHANGED <<req_id, api>>
    BY <1>0, <1>2, <2>2, IdleBooks DEF ControlService
  <2> QED BY <1>2, <2>1, <2>2 DEF ControlService
<1>3. CASE RmReportFind(t, f)
  <2>1. PICK i \in {0} \cup DOMAIN act_req :
          api' = [api EXCEPT ![t] = [pc |-> "use", ev |-> DelEv, id |-> NoId,
                                     fd |-> 0, idx |-> i, cap |-> act_cap]]
    BY <1>3 DEF RmReportFind
  <2> DEFINE s == [pc |-> "use", ev |-> DelEv, id |-> NoId, fd |-> 0,
                   idx |-> i, cap |-> act_cap]
  <2>2. s.ev = DelEv /\ s.pc # "send"
    OBVIOUS
  <2>3. UNCHANGED <<toAgent, toRic, req_id, pending, closed>>
    BY <1>3 DEF RmReportFind, channelVars
  <2>4. api' = [api EXCEPT ![t] = s]
    BY <2>1
  <2> HIDE DEF s
  <2> QED BY <1>0, <2>2, <2>3, <2>4, RemovalBooks
<1> QED BY <1>1, <1>2, <1>3 DEF ApiCall

(* The entry is inserted before the request can be sent. *)
LEMMA InsertPendingBooks ==
  ASSUME TypeInv, Books, NEW t \in Threads, InsertPending(t), UNCHANGED ind_event
  PROVE  Books'
<1> USE DEF Books, Queued, Answered, Deleted, Issued
<1>0. /\ UNCHANGED <<toAgent, toRic, req_id, closed>>
      /\ \A u \in Threads : u # t => api'[u] = api[u]
      /\ api[t].pc = "insert" /\ api'[t].ev = api[t].ev /\ api'[t].id = api[t].id
  <2>1. api[t] \in ApiState
    BY DEF TypeInv, TypeOK, RicTypeOK
  <2>2. api'[t] = [api[t] EXCEPT !.pc = "send"]
    BY DEF InsertPending, TypeInv, TypeOK, RicTypeOK
  <2>3. api'[t].ev = api[t].ev /\ api'[t].id = api[t].id
    BY <2>1, <2>2 DEF ApiState, Idle
  <2> QED BY <2>3 DEF InsertPending, channelVars, TypeInv, TypeOK, RicTypeOK
<1>1. \A u \in Threads : Holds(u)' => Holds(u) /\ api'[u].id = api[u].id
  BY <1>0 DEF Holds
<1>2. /\ \A ev, x : HasEntry(ev, x) => HasEntry(ev, x)'
      /\ HasEntry(api[t].ev, api[t].id)'
  <2> DEFINE e == [fd |-> api[t].fd, ev |-> api[t].ev, id |-> api[t].id]
  <2>1. pending' = pending \cup {e} /\ e.ev = api[t].ev /\ e.id = api[t].id
    BY DEF InsertPending
  <2>2. \A ev, x : HasEntry(ev, x) => HasEntry(ev, x)'
    BY <2>1 DEF HasEntry
  <2>3. e \in pending'
    BY <2>1
  <2> HIDE DEF e
  <2> QED BY <1>0, <2>1, <2>2, <2>3 DEF HasEntry
<1>3. AllIssued'
  BY <1>0, <1>1 DEF AllIssued
<1>4. HoldersDistinct'
  BY <1>0, <1>1 DEF HoldersDistinct
<1>5. ServedOnce'
  BY <1>0, <1>1 DEF ServedOnce, Unserved
<1>6. RequestsTracked'
  BY <1>0, <1>2 DEF RequestsTracked, Tracked
<1>7. AnswersHaveEntries'
  BY <1>0, <1>2 DEF AnswersHaveEntries
<1> QED BY <1>3, <1>4, <1>5, <1>6, <1>7

(* The thread hands the request, and with it the id, to the agent's queue. *)
LEMMA SendRequestBooks ==
  ASSUME TypeInv, Books, NEW t \in Threads, SendRequest(t), UNCHANGED ind_event
  PROVE  Books'
<1> USE DEF Books, Answered, Deleted, Issued
<1> PICK id \in RicId, ev \in Events : id = api[t].id /\ ev = api[t].ev
  BY ApiHolds DEF SendRequest, TypeInv
<1> DEFINE m == [type |-> RequestOf(ev), id |-> id]
<1>0. /\ UNCHANGED <<toRic, req_id, pending, closed>>
      /\ api[t].pc = "send" /\ api'[t] = Idle
      /\ \A u \in Threads : u # t => api'[u] = api[u]
      /\ m \in ToAgentMsg /\ m.type = RequestOf(ev) /\ m.id = id
      /\ SendToAgent(ep_to, m)
  BY RequestType DEF SendRequest, TypeInv, TypeOK, RicTypeOK
<1>1. \A u \in Threads : /\ Holds(u)' => Holds(u) /\ api'[u] = api[u] /\ u # t
                         /\ api'[u].pc = "send" => api'[u] = api[u] /\ api[u].pc = "send"
  BY <1>0 DEF Holds, Idle
<1>2. /\ RequestOf(ev) \in NewReq => Holds(t)
      /\ EventOfReq(RequestOf(ev)) = ev
  BY <1>0 DEF Holds, RequestOf, NewReq, Events, SubEv, DelEv, CtrlEv, EventOfReq
<1>3. \A b \in Agents : \A i \in DOMAIN toAgent'[b] :
        \/ i \in DOMAIN toAgent[b] /\ toAgent'[b][i] = toAgent[b][i]
        \/ b = ep_to /\ i = Len(toAgent[b]) + 1 /\ toAgent'[b][i] = m
  BY <1>0, SendToAgentShape DEF TypeInv
<1>4. \A b \in Agents : \A i \in Nat :
        Queued(b, i)' =>
          \/ Queued(b, i) /\ toAgent'[b][i] = toAgent[b][i]
          \/ /\ b = ep_to /\ i = Len(toAgent[b]) + 1 /\ toAgent'[b][i].id = id
             /\ Holds(t)
  BY <1>0, <1>2, <1>3 DEF Queued
<1>5. AllIssued'
  BY <1>0, <1>1, <1>4 DEF AllIssued
<1>6. HoldersDistinct'
  <2>1. \A u \in Threads : Holds(u)' /\ Holds(t) => api[u].id # id
    BY <1>1 DEF HoldersDistinct
  <2>2. /\ \A u, v \in Threads :
             (Holds(u) /\ Holds(v) /\ api[u].id = api[v].id => u = v)'
        /\ \A u \in Threads, b \in Agents : \A i \in Nat :
             (Holds(u) /\ Queued(b, i) => api[u].id # toAgent[b][i].id)'
        /\ \A u \in Threads, b \in Agents : \A i \in Nat :
             (Holds(u) /\ Answered(b, i) => api[u].id # toRic[b][i].id)'
    BY <1>0, <1>1, <1>4, <2>1 DEF HoldersDistinct
  <2>3. \A b, c \in Agents : \A i, j \in Nat :
          (Queued(b, i) /\ Queued(c, j) /\ toAgent[b][i].id = toAgent[c][j].id
             => b = c /\ i = j)'
    BY <1>4 DEF HoldersDistinct
  <2>4. \A b, c \in Agents : \A i, j \in Nat :
          /\ (Queued(b, i) /\ Answered(c, j) => toAgent[b][i].id # toRic[c][j].id)'
          /\ (Answered(b, i) /\ Answered(c, j) /\ toRic[b][i].id = toRic[c][j].id
                => b = c /\ i = j)'
    BY <1>0, <1>4 DEF HoldersDistinct
  <2> QED BY <2>2, <2>3, <2>4 DEF HoldersDistinct
<1>7. ServedOnce'
  <2>1. \A x : Unserved(x) => Unserved(x)'
    BY <1>0 DEF Unserved
  <2>2. /\ \A u \in Threads : (Holds(u) => Unserved(api[u].id))'
        /\ \A b \in Agents : \A i \in Nat : (Queued(b, i) => Unserved(toAgent[b][i].id))'
    BY <1>1, <1>4, <2>1 DEF ServedOnce
  <2> QED BY <1>0, <2>2 DEF ServedOnce
<1>8. RequestsTracked'
  <2>1. \A e, x : Tracked(e, x) => Tracked(e, x)'
    BY <1>0 DEF Tracked, HasEntry
  <2>2. Tracked(EventOfReq(m.type), m.id)
    BY <1>0, <1>2 DEF RequestsTracked
  <2>3. \A u \in Threads : (api[u].pc = "send" => Tracked(api[u].ev, api[u].id))'
    BY <1>1, <2>1 DEF RequestsTracked
  <2>4. \A b \in Agents : \A i \in DOMAIN toAgent'[b] :
          (toAgent[b][i].type \in RequestTypes =>
             Tracked(EventOfReq(toAgent[b][i].type), toAgent[b][i].id))'
    BY <1>3, <2>1, <2>2 DEF RequestsTracked, EventOfReq
  <2> QED BY <2>3, <2>4 DEF RequestsTracked
<1>9. AnswersHaveEntries'
  BY <1>0 DEF AnswersHaveEntries, HasEntry
<1> QED BY <1>5, <1>6, <1>7, <1>8, <1>9

LEMMA ApiStepBooks == ASSUME IInv, NEW t \in Threads, ApiStep(t) PROVE Books'
<1>0. TypeInv /\ Books /\ UNCHANGED ind_event
  BY DEF IInv, Books, ApiStep, agentVars
<1>1. CASE RmReportUse(t)
  <2>1. UNCHANGED <<toAgent, toRic, req_id, pending, closed>>
    BY <1>1 DEF RmReportUse
  <2>2. CASE api' = api
    BY <1>0, <2>1, <2>2, IdleBooks
  <2>3. ASSUME NEW id \in RicId, NEW fd \in Fds,
               api' = [api EXCEPT ![t] = Prepared(DelEv, id, fd)]
        PROVE  Books'
    <3>1. Prepared(DelEv, id, fd).ev = DelEv /\ Prepared(DelEv, id, fd).pc # "send"
      BY DEF Prepared
    <3> QED BY <1>0, <2>1, <2>3, <3>1, RemovalBooks
  <2> QED BY <1>1, <2>2, <2>3 DEF RmReportUse
<1>2. CASE InsertPending(t)
  BY <1>0, <1>2, InsertPendingBooks
<1>3. CASE SendRequest(t)
  BY <1>0, <1>3, SendRequestBooks
<1> QED BY <1>1, <1>2, <1>3 DEF ApiStep

-----------------------------------------------------------------------------
LEMMA IInvInit == Init => IInv
<1> SUFFICES ASSUME Init PROVE IInv
  OBVIOUS
<1>1. TypeInv
  BY TypeInit
<1>2. /\ \A a \in Agents : DOMAIN toAgent[a] = {} /\ DOMAIN toRic[a] = {}
      /\ \A a \in Agents : ind_event[a] = {}
      /\ \A t \in Threads : ~Holds(t) /\ api[t].pc # "send"
      /\ closed = {}
  BY DEF Init, ChannelInit, AgentInit, RicInit, Idle, Holds
<1> QED BY <1>1, <1>2 DEF IInv, AllIssued, HoldersDistinct, ServedOnce, RequestsTracked,
                          AnswersHaveEntries, Queued, Answered, Deleted

LEMMA IInvNext == IInv /\ [Next]_vars => IInv'
<1> SUFFICES ASSUME IInv, [Next]_vars PROVE IInv'
  OBVIOUS
<1>1. TypeInv'
  BY TypeNext DEF IInv
<1>2. Books'
  <2>1. CASE Next
    BY <2>1, AgentStepBooks, RicLoopStepBooks, ApiCallBooks, ApiStepBooks DEF Next
  <2>2. CASE UNCHANGED vars
    BY <2>2, IdleBooks DEF IInv, Books, vars, channelVars, agentVars, ricVars
  <2> QED BY <2>1, <2>2
<1> QED BY <1>1, <1>2 DEF IInv, Books

(* In every interleaving of any number of API threads, agents and the RIC's   *)
(* loop, an answer on its way to the RIC has its entry in `pending'.          *)
THEOREM AnswersAreTracked == Spec => []AnswersHaveEntries
<1>1. IInv => AnswersHaveEntries
  BY DEF IInv
<1> QED BY <1>1, IInvInit, IInvNext, PTL DEF Spec

(* A step of the RIC's loop fails no assert. *)
LEMMA LoopStepSurvives ==
  ASSUME IInv, RicLoopStep PROVE ricPhase' # "aborted"
<1>1. TypeInv /\ Books
  BY DEF IInv, Books
<1>2. CASE StartRic \/ SendSetupResponse \/ PushActive
  BY <1>2 DEF StartRic, SendSetupResponse, PushActive, channelVars
<1>3. ASSUME NEW a \in Agents, HandleSetupRequest(a) \/ HandleIndication(a)
      PROVE  ricPhase' # "aborted"
  BY <1>3 DEF HandleSetupRequest, HandleIndication, RicReads
<1>4. ASSUME NEW a \in Agents, NEW t \in AnswerTypes, RicReads(a, t),
             StopPending(EventOf(t), Head(toRic[a]).id)
      PROVE  ricPhase' # "aborted"
  BY <1>1, <1>4, StopPendingFinds DEF RicReads
<1>5. ASSUME NEW a \in Agents, HandleSubscriptionResponse(a) PROVE ricPhase' # "aborted"
  BY <1>4, <1>5 DEF HandleSubscriptionResponse, EventOf, AnswerTypes
<1>6. ASSUME NEW a \in Agents, HandleDeleteResponse(a) PROVE ricPhase' # "aborted"
  BY <1>4, <1>6 DEF HandleDeleteResponse, EventOf, AnswerTypes
<1>7. ASSUME NEW a \in Agents, HandleControlAck(a) PROVE ricPhase' # "aborted"
  BY <1>4, <1>7 DEF HandleControlAck, EventOf, AnswerTypes
<1> QED BY <1>2, <1>3, <1>5, <1>6, <1>7 DEF RicLoopStep

(* No message of any agent, in any interleaving, aborts the RIC's loop: the   *)
(* entry that stop_pending_event extracts is always there.                    *)
THEOREM LoopSurvives == Spec => LoopNeverAborts
<1>1. IInv /\ [Next]_vars => [RicLoopStep => ricPhase' # "aborted"]_vars
  BY LoopStepSurvives
<1> QED BY <1>1, IInvInit, IInvNext, PTL DEF Spec, LoopNeverAborts

-----------------------------------------------------------------------------
(***************************************************************************)
(* What the agents and the RIC know of a subscription, and that they offer *)
(* the service of SubscriptionService, on top of the invariant above.      *)
(***************************************************************************)
\* Message i of agent a's queue is of type ty and about id.
At(a, i, ty, id) ==
  i \in DOMAIN toRic[a] /\ toRic[a][i].type = ty /\ toRic[a][i].id = id

\* The RIC's loop has seen the response of id.
Confirmed(id) == IsActive(id) \/ (ricPc = "push" /\ ricId = id)

\* Some thread or queue holds id as a request that is new or just answered.
Held(id) ==
  \/ \E t \in Threads : Holds(t) /\ api[t].id = id
  \/ \E a \in Agents : \E i \in Nat : Queued(a, i) /\ toAgent[a][i].id = id
  \/ \E a \in Agents : \E i \in Nat : Answered(a, i) /\ toRic[a][i].id = id

\* Before the RIC runs no agent has anything to serve.
NothingWhileDown ==
  ricPhase = "down" => \A a \in Agents : toAgent[a] = << >> /\ ind_event[a] = {}

\* An id is confirmed once and closed once, after that.
ConfirmedOnce ==
  /\ \A id \in RicId : Confirmed(id) => Issued(id) /\ ~Held(id)
  /\ \A i, j \in DOMAIN act_req : act_req[i] = act_req[j] => i = j
  /\ ricPc = "push" => ~IsActive(ricId)
  /\ \A id \in closed : Confirmed(id)
  /\ \A a \in Agents : \A i \in Nat : Deleted(a, i) => toRic[a][i].id \notin closed

\* Indications and delete responses travel behind the response.
BehindResponse ==
  \A a \in Agents : \A i \in DOMAIN toRic[a] :
    toRic[a][i].type \in {"INDICATION", "DELETE_RESPONSE"} =>
      Confirmed(toRic[a][i].id) \/ Ahead(a, i, "SUBSCRIPTION_RESPONSE", toRic[a][i].id)

\* Indications come from the agent that serves the subscription, ahead of its
\* delete response.
BeforeDelete ==
  \A a \in Agents : \A i \in DOMAIN toRic[a] :
    toRic[a][i].type = "INDICATION" =>
      LET id == toRic[a][i].id IN
      /\ id \notin closed
      /\ \A b \in Agents : \A j \in Nat : Deleted(b, j) /\ toRic[b][j].id = id => b = a /\ i < j
      /\ \A b \in Agents : id \in ind_event[b] => b = a

\* A served subscription is confirmed, or its response is on its way.
ServedIsAnswered ==
  \A a \in Agents : \A id \in ind_event[a] :
    \/ Confirmed(id)
    \/ ricPhase = "aborted"
    \/ \E i \in DOMAIN toRic[a] : At(a, i, "SUBSCRIPTION_RESPONSE", id)

\* Where an answered subscription is: served, or on its way out.
Accounted(id) ==
  \/ id \in closed
  \/ \E a \in Agents : \E i \in DOMAIN toRic[a] : At(a, i, "DELETE_RESPONSE", id)
  \/ ricPhase = "aborted"
  \/ \E a \in Agents : id \in ind_event[a]

AnsweredIsServed ==
  /\ \A id \in RicId : Confirmed(id) => Accounted(id)
  /\ \A a \in Agents : \A i \in DOMAIN toRic[a] :
       toRic[a][i].type = "SUBSCRIPTION_RESPONSE" => Accounted(toRic[a][i].id)

ServiceInv ==
  /\ NothingWhileDown
  /\ ConfirmedOnce
  /\ BehindResponse
  /\ BeforeDelete
  /\ ServedIsAnswered
  /\ AnsweredIsServed

\* What a step does for the callers of the API: nothing, or a subscription is
\* confirmed, or one is removed.
Same ==
  /\ \A id \in RicId : Confirmed(id)' <=> Confirmed(id)
  /\ UNCHANGED closed

Confirms ==
  \E id \in RicId :
    /\ ~Confirmed(id) /\ id \notin closed
    /\ \A x \in RicId : Confirmed(x)' <=> Confirmed(x) \/ x = id
    /\ UNCHANGED closed

Removes ==
  \E id \in RicId :
    /\ Confirmed(id) /\ id \notin closed
    /\ \A x \in RicId : Confirmed(x)' <=> Confirmed(x)
    /\ closed' = closed \cup {id}

-----------------------------------------------------------------------------
(***************************************************************************)
(* The queues after a send or a read, seen from before.                    *)
(***************************************************************************)

(* A send towards the RIC leaves what is queued; a running RIC gets the       *)
(* message behind it.                                                         *)
LEMMA SendToRicKeeps ==
  ASSUME TypeOK, NEW a \in Agents, NEW m \in ToRicMsg, SendToRic(a, m)
  PROVE  /\ \A b \in Agents : \A i \in DOMAIN toRic[b] :
              i \in DOMAIN toRic'[b] /\ toRic'[b][i] = toRic[b][i]
         /\ ricPhase = "up" =>
              /\ Len(toRic[a]) + 1 \in DOMAIN toRic'[a]
              /\ toRic'[a][Len(toRic[a]) + 1] = m
         /\ ricPhase # "up" => toRic' = toRic
         /\ \A b \in Agents : \A i \in DOMAIN toRic[b] :
              i \in Nat /\ i < Len(toRic[b]) + 1 /\ Len(toRic[b]) \in Nat
<1>1. toRic \in [Agents -> Seq(ToRicMsg)]
  BY DEF TypeOK, ChannelTypeOK
<1>2. \A b \in Agents : toRic'[b] = IF b = a /\ ricPhase = "up" THEN Append(toRic[a], m) ELSE toRic[b]
  BY <1>1 DEF SendToRic
<1>3. ricPhase # "up" => toRic' = toRic
  BY <1>1 DEF SendToRic
<1>4. \A b \in Agents : toRic[b] \in Seq(ToRicMsg)
  BY <1>1
<1>5. \A b \in Agents : \A i \in DOMAIN toRic[b] :
        i \in Nat /\ i < Len(toRic[b]) + 1 /\ Len(toRic[b]) \in Nat
  BY <1>4
<1>6. /\ \A i \in DOMAIN toRic[a] :
           i \in DOMAIN Append(toRic[a], m) /\ Append(toRic[a], m)[i] = toRic[a][i]
      /\ Len(toRic[a]) + 1 \in DOMAIN Append(toRic[a], m)
      /\ Append(toRic[a], m)[Len(toRic[a]) + 1] = m
  BY <1>4, AppendShape
<1> QED BY <1>2, <1>3, <1>5, <1>6

(* The RIC's read takes the head only. *)
LEMMA RicReadKeeps ==
  ASSUME TypeInv, NEW a \in Agents, NEW t, RicReads(a, t)
  PROVE  /\ \A b \in Agents \ {a} : toRic'[b] = toRic[b]
         /\ \A i \in DOMAIN toRic[a] :
              i # 1 => /\ i \in Nat /\ i - 1 \in Nat
                       /\ i - 1 \in DOMAIN toRic'[a] /\ toRic'[a][i - 1] = toRic[a][i]
<1>1. /\ toRic[a] # << >> /\ toRic[a] \in Seq(ToRicMsg)
      /\ toRic' = [toRic EXCEPT ![a] = Tail(@)]
      /\ toRic \in [Agents -> Seq(ToRicMsg)]
  BY RicReadType DEF TypeInv, TypeOK, ChannelTypeOK
<1>2. toRic'[a] = Tail(toRic[a]) /\ \A b \in Agents \ {a} : toRic'[b] = toRic[b]
  BY <1>1
<1>3. /\ DOMAIN toRic[a] = 1 .. Len(toRic[a]) /\ Len(toRic[a]) \in Nat
      /\ DOMAIN Tail(toRic[a]) = 1 .. (Len(toRic[a]) - 1)
      /\ \A i \in DOMAIN Tail(toRic[a]) : Tail(toRic[a])[i] = toRic[a][i + 1]
  BY <1>1, HeadTail
<1>4. ASSUME NEW i \in DOMAIN toRic[a], i # 1
      PROVE  /\ i \in Nat /\ i - 1 \in Nat
             /\ i - 1 \in DOMAIN toRic'[a] /\ toRic'[a][i - 1] = toRic[a][i]
  <2>1. i \in Nat /\ i - 1 \in Nat /\ i - 1 \in 1 .. (Len(toRic[a]) - 1) /\ (i - 1) + 1 = i
    BY <1>3, <1>4
  <2> QED BY <1>2, <1>3, <2>1
<1> QED BY <1>2, <1>4

(* Every message to the RIC that is no setup request carries an id. *)
LEMMA IdsTyped ==
  ASSUME TypeInv
  PROVE  /\ \A a \in Agents : \A i \in DOMAIN toRic[a] :
              /\ i \in Nat
              /\ toRic[a][i].type # "SETUP_REQUEST" => toRic[a][i].id \in RicId
         /\ \A a \in Agents : \A id \in ind_event[a] : id \in RicId
         /\ \A id \in closed : id \in RicId
         /\ \A i \in DOMAIN act_req : act_req[i] \in RicId
         /\ ricPc = "push" => ricId \in RicId
<1>1. /\ \A a \in Agents : toRic[a] \in Seq(ToRicMsg) /\ ind_event[a] \in SUBSET RicId
      /\ closed \in SUBSET RicId /\ act_req \in Seq(RicId)
      /\ ricPc = "push" => ricId \in RicId
  BY DEF TypeInv, TypeOK, ChannelTypeOK, AgentTypeOK, RicTypeOK
<1>2. \A a \in Agents : \A i \in DOMAIN toRic[a] : i \in Nat /\ toRic[a][i] \in ToRicMsg
  BY <1>1
<1>3. \A m \in ToRicMsg : m.type # "SETUP_REQUEST" => m.id \in RicId
  BY DEF ToRicMsg
<1> QED BY <1>1, <1>2, <1>3

-----------------------------------------------------------------------------
(* A step that neither reads nor writes the RIC's queues, the subscriptions  *)
(* and the RIC's list of them keeps the invariant, as long as an id that gets *)
(* a holder had one or is new.                                                *)
LEMMA QuietKeeps ==
  ASSUME IInv, IInv', ServiceInv, UNCHANGED <<toRic, ind_event, act_req, closed>>,
         ricPc' = "push" <=> ricPc = "push",
         ricPc = "push" => ricId' = ricId,
         \A id \in RicId : Issued(id) => Issued(id)',
         \A id \in RicId : Held(id)' => Held(id) \/ ~Issued(id),
         ricPhase = "aborted" => ricPhase' = "aborted",
         NothingWhileDown'
  PROVE  ServiceInv' /\ Same
<1>0. TypeInv /\ TypeInv'
  BY DEF IInv
<1>1. \A id : Confirmed(id)' <=> Confirmed(id)
  BY DEF Confirmed, IsActive
<1>2. ConfirmedOnce'
  <2>1. \A id \in RicId : Confirmed(id)' => Issued(id)' /\ ~Held(id)'
    BY <1>1 DEF ServiceInv, ConfirmedOnce
  <2>2. ricPc' = "push" => ~IsActive(ricId)'
    BY DEF ServiceInv, ConfirmedOnce, IsActive
  <2> QED BY <1>1, <2>1, <2>2 DEF ServiceInv, ConfirmedOnce, Deleted
<1>3. BehindResponse' /\ BeforeDelete'
  BY <1>1 DEF ServiceInv, BehindResponse, BeforeDelete, Ahead, Deleted
<1>4. ServedIsAnswered' /\ AnsweredIsServed'
  BY <1>1 DEF ServiceInv, ServedIsAnswered, AnsweredIsServed, Accounted, At
<1> QED BY <1>1, <1>2, <1>3, <1>4 DEF ServiceInv, Same

-----------------------------------------------------------------------------
(***************************************************************************)
(* The agents.                                                             *)
(***************************************************************************)

(* A setup request, a control acknowledgement or an indication of a           *)
(* subscription the agent serves is sent.                                     *)
LEMMA PlainSendKeeps ==
  ASSUME IInv, IInv', ServiceInv, NEW a \in Agents, NEW m \in ToRicMsg, SendToRic(a, m),
         m.type \in {"SETUP_REQUEST", "CONTROL_ACK", "INDICATION"},
         m.type = "INDICATION" => m.id \in ind_event[a],
         UNCHANGED <<ind_event, ricPhase, ricVars>>,
         \A id \in RicId : Held(id)' => Held(id),
         NothingWhileDown'
  PROVE  ServiceInv' /\ Same
<1> USE DEF ricVars
<1>0. TypeInv /\ TypeOK /\ TypeInv' /\ ServedOnce
  BY DEF IInv, TypeInv
<1>1. \A id : Confirmed(id)' <=> Confirmed(id)
  BY DEF Confirmed, IsActive
<1>2. \A b \in Agents : \A i \in DOMAIN toRic'[b] :
        \/ i \in DOMAIN toRic[b] /\ toRic'[b][i] = toRic[b][i]
        \/ b = a /\ i = Len(toRic[a]) + 1 /\ toRic'[b][i] = m /\ ricPhase = "up"
  BY <1>0, SendToRicShape, SendToRicKeeps
<1>3. \A b \in Agents : \A i \in DOMAIN toRic[b] :
        /\ i \in DOMAIN toRic'[b] /\ toRic'[b][i] = toRic[b][i]
        /\ i \in Nat /\ i < Len(toRic[b]) + 1
  BY <1>0, SendToRicKeeps
<1>4. \A b \in Agents : \A i \in Nat : Deleted(b, i)' <=> Deleted(b, i)
  BY <1>2, <1>3 DEF Deleted
<1>5. ConfirmedOnce'
  <2>1. \A id \in RicId : Confirmed(id)' => Issued(id)' /\ ~Held(id)'
    BY <1>1 DEF ServiceInv, ConfirmedOnce, Issued
  <2>2. \A b \in Agents : \A i \in Nat : Deleted(b, i)' => toRic'[b][i].id \notin closed'
    BY <1>3, <1>4 DEF ServiceInv, ConfirmedOnce, Deleted
  <2> QED BY <1>1, <2>1, <2>2 DEF ServiceInv, ConfirmedOnce, IsActive
<1>6. BehindResponse'
  <2> SUFFICES ASSUME NEW b \in Agents, NEW i \in DOMAIN toRic'[b], NEW id,
                      toRic'[b][i].type \in {"INDICATION", "DELETE_RESPONSE"},
                      toRic'[b][i].id = id
               PROVE  Confirmed(id)' \/ Ahead(b, i, "SUBSCRIPTION_RESPONSE", id)'
    BY DEF BehindResponse, Confirmed, IsActive, Ahead
  <2>1. CASE i \in DOMAIN toRic[b] /\ toRic'[b][i] = toRic[b][i]
    BY <1>1, <1>3, <2>1 DEF ServiceInv, BehindResponse, Ahead
  <2>2. CASE b = a /\ i = Len(toRic[a]) + 1 /\ toRic'[b][i] = m /\ ricPhase = "up"
    <3>1. \/ Confirmed(m.id)
          \/ \E j \in DOMAIN toRic[a] : At(a, j, "SUBSCRIPTION_RESPONSE", m.id)
      BY <2>2 DEF ServiceInv, ServedIsAnswered
    <3> QED BY <1>1, <1>3, <2>2, <3>1 DEF At, Ahead
  <2> QED BY <1>2, <2>1, <2>2
<1>7. BeforeDelete'
  <2> SUFFICES ASSUME NEW b \in Agents, NEW i \in DOMAIN toRic'[b],
                      toRic'[b][i].type = "INDICATION"
               PROVE  /\ toRic'[b][i].id \notin closed
                      /\ \A c \in Agents : \A j \in Nat :
                           Deleted(c, j)' /\ toRic'[c][j].id = toRic'[b][i].id => c = b /\ i < j
                      /\ \A c \in Agents : toRic'[b][i].id \in ind_event[c] => c = b
    BY DEF BeforeDelete
  <2>1. CASE i \in DOMAIN toRic[b] /\ toRic'[b][i] = toRic[b][i]
    BY <1>3, <1>4, <2>1 DEF ServiceInv, BeforeDelete, Deleted
  <2>2. CASE b = a /\ i = Len(toRic[a]) + 1 /\ toRic'[b][i] = m
    BY <1>0, <1>3, <1>4, <2>2 DEF ServedOnce, Deleted
  <2> QED BY <1>2, <2>1, <2>2
<1>8. ServedIsAnswered'
  BY <1>1, <1>3 DEF ServiceInv, ServedIsAnswered, At
<1>9. \A id : Accounted(id) => Accounted(id)'
  BY <1>3 DEF Accounted, At
<1>10. AnsweredIsServed'
  BY <1>1, <1>2, <1>9 DEF ServiceInv, AnsweredIsServed
<1> QED BY <1>1, <1>5, <1>6, <1>7, <1>8, <1>10 DEF ServiceInv, Same

(* The agent's read frees ids at most. *)
LEMMA AgentReadHeld ==
  ASSUME TypeInv, NEW a \in Agents, NEW t, AgentReads(a, t), UNCHANGED <<api, toRic>>
  PROVE  \A id \in RicId : Held(id)' => Held(id)
<1>1. \A b \in Agents : \A i \in Nat : Queued(b, i)' =>
        \E j \in Nat : Queued(b, j) /\ toAgent'[b][i] = toAgent[b][j]
  BY QueuedBefore
<1> QED BY <1>1 DEF Held, Holds, Answered

(* The answer of a new request is held instead of the request. *)
LEMMA AnswerHeld ==
  ASSUME TypeInv, NEW a \in Agents, NEW req \in NewReq, NEW ans \in NewAns, AgentReads(a, req),
         SendToRic(a, [type |-> ans, id |-> Head(toAgent[a]).id]), UNCHANGED api
  PROVE  /\ \A id \in RicId : Held(id)' => Held(id)
         /\ Queued(a, 1) /\ toAgent[a][1].id = Head(toAgent[a]).id
         /\ [type |-> ans, id |-> Head(toAgent[a]).id] \in ToRicMsg
         /\ Head(toAgent[a]).id \in RicId
<1> DEFINE m == [type |-> ans, id |-> Head(toAgent[a]).id]
<1>1. \A b \in Agents : \A i \in Nat : Queued(b, i)' =>
        \E j \in Nat : Queued(b, j) /\ toAgent'[b][i] = toAgent[b][j]
  BY QueuedBefore
<1>2. /\ Queued(a, 1) /\ toAgent[a][1].id = Head(toAgent[a]).id
      /\ m \in ToRicMsg /\ m.type \in NewAns /\ m.id = Head(toAgent[a]).id
      /\ Head(toAgent[a]).id \in RicId
  <2>1. Head(toAgent[a]).type = req /\ Head(toAgent[a]).id \in RicId
    BY AgentReadType DEF NewReq
  <2>2. 1 \in DOMAIN toAgent[a] /\ toAgent[a][1] = Head(toAgent[a])
    BY AgentReadShape
  <2> QED BY <2>1, <2>2 DEF Queued, ToRicMsg, NewAns
<1>3. \A b \in Agents : \A i \in Nat : Answered(b, i)' =>
        \/ Answered(b, i) /\ toRic'[b][i] = toRic[b][i]
        \/ toRic'[b][i].id = toAgent[a][1].id
  BY <1>2, SendToRicShape DEF Answered, TypeInv
<1>4. 1 \in Nat
  OBVIOUS
<1> QED BY <1>1, <1>2, <1>3, <1>4 DEF Held, Holds

(* e2ap_handle_subscription_request_agent: the id was nobody's before. *)
LEMMA SubscriptionKeeps ==
  ASSUME IInv, IInv', ServiceInv, NEW a \in Agents, HandleSubscriptionRequest(a),
         UNCHANGED ricVars
  PROVE  ServiceInv' /\ Same
<1> USE DEF ricVars
<1>0. TypeInv /\ TypeOK /\ TypeInv' /\ ServedOnce /\ HoldersDistinct /\ AllIssued
  BY DEF IInv, TypeInv
<1> PICK new \in RicId : new = Head(toAgent[a]).id
  BY <1>0, AgentReadType DEF HandleSubscriptionRequest
<1> DEFINE m == [type |-> "SUBSCRIPTION_RESPONSE", id |-> new]
<1>a. /\ AgentReads(a, "SUBSCRIPTION_REQUEST") /\ UNCHANGED ricPhase
      /\ ind_event' = [ind_event EXCEPT ![a] = @ \cup {new}]
      /\ SendToRic(a, m)
  BY DEF HandleSubscriptionRequest, AgentReads
<1>b. /\ \A id \in RicId : Held(id)' => Held(id)
      /\ Queued(a, 1) /\ toAgent[a][1].id = new /\ m \in ToRicMsg /\ new \in RicId
      /\ m.type = "SUBSCRIPTION_RESPONSE" /\ m.id = new
  <2>1. "SUBSCRIPTION_REQUEST" \in NewReq /\ "SUBSCRIPTION_RESPONSE" \in NewAns
    BY DEF NewReq, NewAns
  <2> QED BY <1>0, <1>a, <2>1, AnswerHeld
<1>c. ricPhase # "down"
  BY <1>0, <1>a, AgentReadType DEF ServiceInv, NothingWhileDown
<1> HIDE DEF m
<1>d. /\ Held(new) /\ ~Confirmed(new) /\ Unserved(new)
      /\ \A b \in Agents : \A i \in Nat : Answered(b, i) => toRic[b][i].id # new
  <2>1. 1 \in Nat
    OBVIOUS
  <2>2. Held(new) /\ Unserved(new)
    BY <1>0, <1>b, <2>1 DEF Held, ServedOnce
  <2>3. \A b \in Agents : \A i \in Nat : Answered(b, i) => toRic[b][i].id # new
    BY <1>0, <1>b, <2>1 DEF HoldersDistinct
  <2> QED BY <1>b, <2>2, <2>3 DEF ServiceInv, ConfirmedOnce
<1>1. \A id : Confirmed(id)' <=> Confirmed(id)
  BY DEF Confirmed, IsActive
<1>2. \A b \in Agents : \A i \in DOMAIN toRic'[b] :
        \/ i \in DOMAIN toRic[b] /\ toRic'[b][i] = toRic[b][i]
        \/ b = a /\ i = Len(toRic[a]) + 1 /\ toRic'[b][i] = m
  BY <1>0, <1>a, <1>b, SendToRicShape
<1>3. /\ \A b \in Agents : \A i \in DOMAIN toRic[b] :
           /\ i \in DOMAIN toRic'[b] /\ toRic'[b][i] = toRic[b][i]
           /\ i \in Nat /\ i < Len(toRic[b]) + 1
      /\ ricPhase = "up" =>
           Len(toRic[a]) + 1 \in DOMAIN toRic'[a] /\ toRic'[a][Len(toRic[a]) + 1] = m
  BY <1>0, <1>a, <1>b, SendToRicKeeps
<1>4. \A b \in Agents : \A i \in Nat : Deleted(b, i)' <=> Deleted(b, i)
  BY <1>b, <1>2, <1>3 DEF Deleted
<1>e. /\ \A b \in Agents : \A id : id \in ind_event'[b] <=> id \in ind_event[b] \/ (b = a /\ id = new)
      /\ ricPhase \in {"up", "aborted"}
  BY <1>0, <1>a, <1>c DEF TypeOK, AgentTypeOK, ChannelTypeOK
<1>5. ConfirmedOnce'
  <2>1. \A id \in RicId : Confirmed(id)' => Issued(id)' /\ ~Held(id)'
    BY <1>b, <1>1 DEF ServiceInv, ConfirmedOnce, Issued
  <2>2. \A b \in Agents : \A i \in Nat : Deleted(b, i)' => toRic'[b][i].id \notin closed'
    BY <1>3, <1>4 DEF ServiceInv, ConfirmedOnce, Deleted
  <2> QED BY <1>1, <2>1, <2>2 DEF ServiceInv, ConfirmedOnce, IsActive
<1>6. BehindResponse'
  <2> SUFFICES ASSUME NEW b \in Agents, NEW i \in DOMAIN toRic'[b], NEW id,
                      toRic'[b][i].type \in {"INDICATION", "DELETE_RESPONSE"},
                      toRic'[b][i].id = id
               PROVE  Confirmed(id)' \/ Ahead(b, i, "SUBSCRIPTION_RESPONSE", id)'
    BY DEF BehindResponse, Confirmed, IsActive, Ahead
  <2>1. i \in DOMAIN toRic[b] /\ toRic'[b][i] = toRic[b][i]
    BY <1>b, <1>2
  <2> QED BY <1>1, <1>3, <2>1 DEF ServiceInv, BehindResponse, Ahead
<1>7. BeforeDelete'
  <2> SUFFICES ASSUME NEW b \in Agents, NEW i \in DOMAIN toRic'[b],
                      toRic'[b][i].type = "INDICATION"
               PROVE  /\ toRic'[b][i].id \notin closed
                      /\ \A c \in Agents : \A j \in Nat :
                           Deleted(c, j)' /\ toRic'[c][j].id = toRic'[b][i].id => c = b /\ i < j
                      /\ \A c \in Agents : toRic'[b][i].id \in ind_event'[c] => c = b
    BY DEF BeforeDelete
  <2>1. i \in DOMAIN toRic[b] /\ toRic'[b][i] = toRic[b][i]
    BY <1>b, <1>2
  <2>2. toRic[b][i].id # new
    <3>1. \/ Confirmed(toRic[b][i].id)
          \/ Ahead(b, i, "SUBSCRIPTION_RESPONSE", toRic[b][i].id)
      BY <2>1 DEF ServiceInv, BehindResponse
    <3>2. ~Ahead(b, i, "SUBSCRIPTION_RESPONSE", new)
      BY <1>d, <1>3 DEF Ahead, Answered, NewAns
    <3> QED BY <1>d, <3>1, <3>2
  <2> QED BY <1>3, <1>4, <1>e, <2>1, <2>2 DEF ServiceInv, BeforeDelete, Deleted
<1>8. ServedIsAnswered'
  <2> SUFFICES ASSUME NEW b \in Agents, NEW id \in ind_event'[b], ricPhase' # "aborted"
               PROVE  Confirmed(id)' \/ \E i \in DOMAIN toRic'[b] :
                                         At(b, i, "SUBSCRIPTION_RESPONSE", id)'
    BY DEF ServedIsAnswered
  <2>1. CASE id \in ind_event[b]
    BY <1>a, <1>1, <1>3, <2>1 DEF ServiceInv, ServedIsAnswered, At
  <2>2. CASE b = a /\ id = new
    BY <1>a, <1>b, <1>3, <1>e, <2>2 DEF At
  <2> QED BY <1>e, <2>1, <2>2
<1>9. \A id : Accounted(id) => Accounted(id)'
  BY <1>a, <1>3, <1>e DEF Accounted, At
<1>10. Accounted(new)'
  BY <1>e DEF Accounted
<1>11. AnsweredIsServed'
  <2>1. \A id \in RicId : Confirmed(id)' => Accounted(id)'
    BY <1>1, <1>9 DEF ServiceInv, AnsweredIsServed
  <2>2. ASSUME NEW b \in Agents, NEW i \in DOMAIN toRic'[b], NEW id, toRic'[b][i].id = id,
               toRic'[b][i].type = "SUBSCRIPTION_RESPONSE"
        PROVE  Accounted(id)'
    BY <1>b, <1>2, <1>9, <1>10, <2>2 DEF ServiceInv, AnsweredIsServed
  <2> QED BY <2>1, <2>2 DEF AnsweredIsServed, Accounted, At
<1>12. NothingWhileDown'
  BY <1>a, <1>c DEF NothingWhileDown
<1> QED BY <1>1, <1>5, <1>6, <1>7, <1>8, <1>11, <1>12 DEF ServiceInv, Same

(* e2ap_handle_subscription_delete_request_agent, for a subscription that is   *)
(* served: its response is ahead of the answer, its indications are too.       *)
LEMMA DeleteKeeps ==
  ASSUME IInv, IInv', ServiceInv, NEW a \in Agents, AgentReads(a, "DELETE_REQUEST"),
         Head(toAgent[a]).id \in ind_event[a],
         ind_event' = [ind_event EXCEPT ![a] = @ \ {Head(toAgent[a]).id}],
         SendToRic(a, [type |-> "DELETE_RESPONSE", id |-> Head(toAgent[a]).id]),
         UNCHANGED ricVars
  PROVE  ServiceInv' /\ Same
<1> USE DEF ricVars
<1>0. TypeInv /\ TypeOK /\ TypeInv' /\ ServedOnce
  BY DEF IInv, TypeInv
<1> PICK old \in RicId : old = Head(toAgent[a]).id
  BY <1>0, AgentReadType
<1> DEFINE m == [type |-> "DELETE_RESPONSE", id |-> old]
<1>a. /\ UNCHANGED ricPhase /\ old \in ind_event[a] /\ SendToRic(a, m)
      /\ m \in ToRicMsg /\ m.type = "DELETE_RESPONSE" /\ m.id = old
  BY DEF AgentReads, ToRicMsg
<1>c. ricPhase \in {"up", "aborted"}
  BY <1>0, AgentReadType DEF ServiceInv, NothingWhileDown, TypeOK, ChannelTypeOK
<1> HIDE DEF m
<1>e. \A b \in Agents : \A id : id \in ind_event'[b] <=> id \in ind_event[b] /\ ~(b = a /\ id = old)
  BY <1>0 DEF TypeOK, AgentTypeOK
<1>1. \A id : Confirmed(id)' <=> Confirmed(id)
  BY DEF Confirmed, IsActive
<1>2. \A b \in Agents : \A i \in DOMAIN toRic'[b] :
        \/ i \in DOMAIN toRic[b] /\ toRic'[b][i] = toRic[b][i]
        \/ b = a /\ i = Len(toRic[a]) + 1 /\ toRic'[b][i] = m /\ ricPhase = "up"
  BY <1>0, <1>a, SendToRicShape, SendToRicKeeps
<1>3. /\ \A b \in Agents : \A i \in DOMAIN toRic[b] :
           /\ i \in DOMAIN toRic'[b] /\ toRic'[b][i] = toRic[b][i]
           /\ i \in Nat /\ i < Len(toRic[b]) + 1
      /\ ricPhase = "up" =>
           Len(toRic[a]) + 1 \in DOMAIN toRic'[a] /\ toRic'[a][Len(toRic[a]) + 1] = m
  BY <1>0, <1>a, SendToRicKeeps
<1>4. \A b \in Agents : \A i \in Nat :
        Deleted(b, i)' => \/ Deleted(b, i) /\ toRic'[b][i] = toRic[b][i]
                          \/ b = a /\ i = Len(toRic[a]) + 1 /\ toRic'[b][i].id = old
  <2> SUFFICES ASSUME NEW b \in Agents, NEW i \in Nat, Deleted(b, i)'
               PROVE  \/ Deleted(b, i) /\ toRic'[b][i] = toRic[b][i]
                      \/ b = a /\ i = Len(toRic[a]) + 1 /\ toRic'[b][i].id = old
    OBVIOUS
  <2>0. i \in DOMAIN toRic'[b] /\ toRic'[b][i].type = "DELETE_RESPONSE"
    BY DEF Deleted
  <2>1. CASE i \in DOMAIN toRic[b] /\ toRic'[b][i] = toRic[b][i]
    BY <2>0, <2>1 DEF Deleted
  <2>2. CASE b = a /\ i = Len(toRic[a]) + 1 /\ toRic'[b][i] = m
    BY <1>a, <2>2
  <2> QED BY <1>2, <2>0, <2>1, <2>2
<1>5. ConfirmedOnce'
  <2>0. \A id \in RicId : Held(id)' => Held(id)
    <3>1. \A b \in Agents : \A i \in Nat : Queued(b, i)' =>
            \E j \in Nat : Queued(b, j) /\ toAgent'[b][i] = toAgent[b][j]
      BY <1>0, QueuedBefore
    <3>2. \A b \in Agents : \A i \in Nat : Answered(b, i)' =>
            Answered(b, i) /\ toRic'[b][i] = toRic[b][i]
      BY <1>a, <1>2 DEF Answered, NewAns
    <3> QED BY <3>1, <3>2 DEF Held, Holds
  <2>1. \A id \in RicId : Confirmed(id)' => Issued(id)' /\ ~Held(id)'
    BY <1>1, <2>0 DEF ServiceInv, ConfirmedOnce, Issued
  <2>2. \A b \in Agents : \A i \in Nat : Deleted(b, i)' => toRic'[b][i].id \notin closed'
    BY <1>0, <1>a, <1>4 DEF ServiceInv, ConfirmedOnce, ServedOnce
  <2> QED BY <1>1, <2>1, <2>2 DEF ServiceInv, ConfirmedOnce, IsActive
<1>6. BehindResponse'
  <2> SUFFICES ASSUME NEW b \in Agents, NEW i \in DOMAIN toRic'[b], NEW id,
                      toRic'[b][i].type \in {"INDICATION", "DELETE_RESPONSE"},
                      toRic'[b][i].id = id
               PROVE  Confirmed(id)' \/ Ahead(b, i, "SUBSCRIPTION_RESPONSE", id)'
    BY DEF BehindResponse, Confirmed, IsActive, Ahead
  <2>1. CASE i \in DOMAIN toRic[b] /\ toRic'[b][i] = toRic[b][i]
    BY <1>1, <1>3, <2>1 DEF ServiceInv, BehindResponse, Ahead
  <2>2. CASE b = a /\ i = Len(toRic[a]) + 1 /\ toRic'[b][i] = m /\ ricPhase = "up"
    <3>1. \/ Confirmed(old)
          \/ \E j \in DOMAIN toRic[a] : At(a, j, "SUBSCRIPTION_RESPONSE", old)
      BY <1>a, <2>2 DEF ServiceInv, ServedIsAnswered
    <3> QED BY <1>a, <1>1, <1>3, <2>2, <3>1 DEF At, Ahead
  <2> QED BY <1>2, <2>1, <2>2
<1>7. BeforeDelete'
  <2> SUFFICES ASSUME NEW b \in Agents, NEW i \in DOMAIN toRic'[b],
                      toRic'[b][i].type = "INDICATION"
               PROVE  /\ toRic'[b][i].id \notin closed
                      /\ \A c \in Agents : \A j \in Nat :
                           Deleted(c, j)' /\ toRic'[c][j].id = toRic'[b][i].id => c = b /\ i < j
                      /\ \A c \in Agents : toRic'[b][i].id \in ind_event'[c] => c = b
    BY DEF BeforeDelete
  <2>1. i \in DOMAIN toRic[b] /\ toRic'[b][i] = toRic[b][i]
    BY <1>a, <1>2
  <2>2. /\ toRic[b][i].id \notin closed
        /\ \A c \in Agents : \A j \in Nat :
             Deleted(c, j) /\ toRic[c][j].id = toRic[b][i].id => c = b /\ i < j
        /\ \A c \in Agents : toRic[b][i].id \in ind_event[c] => c = b
    BY <2>1 DEF ServiceInv, BeforeDelete
  <2> QED BY <1>a, <1>3, <1>4, <1>e, <2>1, <2>2
<1>8. ServedIsAnswered'
  BY <1>a, <1>1, <1>3, <1>e DEF ServiceInv, ServedIsAnswered, At
<1>9. \A id : Accounted(id) => Accounted(id)'
  <2> SUFFICES ASSUME NEW id, Accounted(id) PROVE Accounted(id)'
    OBVIOUS
  <2>1. CASE id # old
    BY <1>a, <1>3, <1>e, <2>1 DEF Accounted, At
  <2>2. CASE id = old
    BY <1>a, <1>c, <1>3, <2>2 DEF Accounted, At
  <2> QED BY <2>1, <2>2
<1>10. AnsweredIsServed'
  <2>1. \A id \in RicId : Confirmed(id)' => Accounted(id)'
    BY <1>1, <1>9 DEF ServiceInv, AnsweredIsServed
  <2>2. ASSUME NEW b \in Agents, NEW i \in DOMAIN toRic'[b], NEW id, toRic'[b][i].id = id,
               toRic'[b][i].type = "SUBSCRIPTION_RESPONSE"
        PROVE  Accounted(id)'
    BY <1>a, <1>2, <1>9, <2>2 DEF ServiceInv, AnsweredIsServed
  <2> QED BY <2>1, <2>2 DEF AnsweredIsServed, Accounted, At
<1>11. NothingWhileDown'
  BY <1>a, <1>c DEF NothingWhileDown
<1> QED BY <1>1, <1>5, <1>6, <1>7, <1>8, <1>10, <1>11 DEF ServiceInv, Same

-----------------------------------------------------------------------------
(***************************************************************************)
(* The RIC's loop.                                                         *)
(***************************************************************************)

(* The queues after a read of the RIC and before it: the head is gone, the    *)
(* rest keeps its order.                                                      *)
LEMMA RicReadView ==
  ASSUME TypeInv, NEW a \in Agents, NEW t, RicReads(a, t)
  PROVE  /\ 1 \in DOMAIN toRic[a] /\ toRic[a][1] = Head(toRic[a]) /\ toRic[a][1].type = t
         /\ \A b \in Agents : \A i \in DOMAIN toRic'[b] :
              /\ i \in Nat /\ Before(a, b, i) \in Nat
              /\ Before(a, b, i) \in DOMAIN toRic[b]
              /\ toRic'[b][i] = toRic[b][Before(a, b, i)]
              /\ b = a => Before(a, b, i) # 1
         /\ \A b \in Agents : \A k \in DOMAIN toRic[b] :
              \/ b = a /\ k = 1
              \/ \E i \in DOMAIN toRic'[b] : Before(a, b, i) = k /\ toRic'[b][i] = toRic[b][k]
         /\ \A b \in Agents : \A i, j \in Nat : Before(a, b, i) < Before(a, b, j) <=> i < j
<1>1. 1 \in DOMAIN toRic[a] /\ toRic[a][1] = Head(toRic[a]) /\ toRic[a][1].type = t
  BY RicReadShape, RicReadType
<1>2. \A b \in Agents : \A i \in DOMAIN toRic'[b] :
        /\ i \in Nat /\ Before(a, b, i) \in Nat
        /\ Before(a, b, i) \in DOMAIN toRic[b]
        /\ toRic'[b][i] = toRic[b][Before(a, b, i)]
        /\ b = a => Before(a, b, i) # 1
  BY RicReadShape DEF Before
<1>3. ASSUME NEW b \in Agents, NEW k \in DOMAIN toRic[b], ~(b = a /\ k = 1)
      PROVE  \E i \in DOMAIN toRic'[b] : Before(a, b, i) = k /\ toRic'[b][i] = toRic[b][k]
  <2>1. CASE b = a
    <3>1. /\ k \in Nat /\ k - 1 \in Nat
          /\ k - 1 \in DOMAIN toRic'[a] /\ toRic'[a][k - 1] = toRic[a][k]
      BY <1>3, <2>1, RicReadKeeps
    <3>2. Before(a, b, k - 1) = k
      BY <2>1, <3>1 DEF Before
    <3> QED BY <2>1, <3>1, <3>2
  <2>2. CASE b # a
    BY <2>2, RicReadKeeps DEF Before
  <2> QED BY <2>1, <2>2
<1>4. \A b \in Agents : \A i, j \in Nat : Before(a, b, i) < Before(a, b, j) <=> i < j
  BY DEF Before
<1> QED BY <1>1, <1>2, <1>3, <1>4

(* A read confirms at most the subscription whose response it took, and       *)
(* closes at most the one whose delete response it took.                      *)
LEMMA RicReadService ==
  ASSUME IInv, IInv', ServiceInv, NEW a \in Agents, NEW t, RicReads(a, t),
         NEW h, h = Head(toRic[a]).id,
         UNCHANGED <<toAgent, ind_event, act_req, api, req_id>>,
         ricPhase' = ricPhase,
         \A x : Confirmed(x) => Confirmed(x)',
         \A x : Confirmed(x)' => Confirmed(x) \/ (x = h /\ t = "SUBSCRIPTION_RESPONSE"),
         t = "SUBSCRIPTION_RESPONSE" => Confirmed(h)',
         ricPc' = "push" => ricId' = h /\ t = "SUBSCRIPTION_RESPONSE",
         \A x : x \in closed' <=> x \in closed \/ (x = h /\ t = "DELETE_RESPONSE")
  PROVE  /\ ServiceInv'
         /\ t = "SUBSCRIPTION_RESPONSE" => h \in RicId /\ ~Confirmed(h) /\ h \notin closed
         /\ t = "DELETE_RESPONSE" => h \in RicId /\ Confirmed(h) /\ h \notin closed
<1>0. TypeInv /\ TypeInv' /\ AllIssued /\ HoldersDistinct /\ ServedOnce
  BY DEF IInv
<1>u. ricPhase = "up" /\ (t # "SETUP_REQUEST" => h \in RicId)
  BY <1>0, RicReadType
<1>1. 1 \in DOMAIN toRic[a] /\ toRic[a][1].id = h /\ toRic[a][1].type = t
  BY <1>0, RicReadView
<1>2. \A b \in Agents : \A i \in DOMAIN toRic'[b] :
        /\ i \in Nat /\ Before(a, b, i) \in Nat
        /\ Before(a, b, i) \in DOMAIN toRic[b]
        /\ toRic'[b][i] = toRic[b][Before(a, b, i)]
        /\ b = a => Before(a, b, i) # 1
  BY <1>0, RicReadView
<1>3. \A b \in Agents : \A k \in DOMAIN toRic[b] :
        \/ b = a /\ k = 1
        \/ \E i \in DOMAIN toRic'[b] : Before(a, b, i) = k /\ toRic'[b][i] = toRic[b][k]
  BY <1>0, RicReadView
<1>4. \A b \in Agents : \A i, j \in Nat : Before(a, b, i) < Before(a, b, j) <=> i < j
  BY <1>0, RicReadView
<1>5. \A b \in Agents : \A i \in Nat :
        /\ Answered(b, i)' => /\ Answered(b, Before(a, b, i)) /\ Before(a, b, i) \in Nat
                              /\ toRic'[b][i] = toRic[b][Before(a, b, i)]
                              /\ b = a => Before(a, b, i) # 1
        /\ Deleted(b, i)' => /\ Deleted(b, Before(a, b, i)) /\ Before(a, b, i) \in Nat
                             /\ toRic'[b][i] = toRic[b][Before(a, b, i)]
                             /\ b = a => Before(a, b, i) # 1
  BY <1>2 DEF Answered, Deleted
<1>6. \A x \in RicId : Held(x)' => Held(x)
  BY <1>5 DEF Held, Holds, Queued
<1>7. t = "SUBSCRIPTION_RESPONSE" =>
        h \in RicId /\ ~Confirmed(h) /\ h \notin closed /\ Issued(h) /\ ~Held(h)'
  <2> SUFFICES ASSUME t = "SUBSCRIPTION_RESPONSE"
               PROVE  h \in RicId /\ ~Confirmed(h) /\ h \notin closed /\ Issued(h) /\ ~Held(h)'
    OBVIOUS
  <2>1. 1 \in Nat /\ Answered(a, 1)
    BY <1>1 DEF Answered, NewAns
  <2>2. Held(h) /\ Issued(h)
    BY <1>0, <1>1, <2>1 DEF Held, AllIssued
  <2>3. ~Confirmed(h) /\ h \notin closed
    BY <1>u, <2>2 DEF ServiceInv, ConfirmedOnce
  <2>4. /\ \A u \in Threads : Holds(u) => api[u].id # h
        /\ \A b \in Agents : \A i \in Nat : Queued(b, i) => toAgent[b][i].id # h
        /\ \A b \in Agents : \A i \in Nat : Answered(b, i)' => toRic'[b][i].id # h
    BY <1>0, <1>1, <1>5, <2>1 DEF HoldersDistinct
  <2>5. ~Held(h)'
    BY <2>4 DEF Held, Holds, Queued
  <2> QED BY <1>u, <2>2, <2>3, <2>5
<1>8. t = "DELETE_RESPONSE" => h \in RicId /\ Confirmed(h) /\ h \notin closed /\ Deleted(a, 1)
  <2> SUFFICES ASSUME t = "DELETE_RESPONSE"
               PROVE  h \in RicId /\ Confirmed(h) /\ h \notin closed /\ Deleted(a, 1)
    OBVIOUS
  <2>1. 1 \in Nat /\ Deleted(a, 1)
    BY <1>1 DEF Deleted
  <2>2. \A j \in DOMAIN toRic[a] : ~(j < 1)
    BY <1>0 DEF TypeInv, TypeOK, ChannelTypeOK
  <2>3. Confirmed(h)
    BY <1>1, <2>2 DEF ServiceInv, BehindResponse, Ahead
  <2> QED BY <1>u, <1>1, <2>1, <2>3 DEF ServiceInv, ConfirmedOnce
<1>9. ConfirmedOnce'
  <2>1. \A id \in RicId : Confirmed(id)' => Issued(id)' /\ ~Held(id)'
    BY <1>6, <1>7 DEF ServiceInv, ConfirmedOnce, Issued
  <2>2. ricPc' = "push" => ~IsActive(ricId)'
    BY <1>7 DEF Confirmed, IsActive
  <2>3. \A id \in closed' : Confirmed(id)'
    BY <1>8 DEF ServiceInv, ConfirmedOnce
  <2>4. \A b \in Agents : \A i \in Nat : Deleted(b, i)' => toRic'[b][i].id \notin closed'
    <3> SUFFICES ASSUME NEW b \in Agents, NEW i \in Nat, Deleted(b, i)', NEW id,
                        toRic'[b][i].id = id
                 PROVE  id \notin closed'
      OBVIOUS
    <3>1. id \notin closed
      BY <1>5 DEF ServiceInv, ConfirmedOnce
    <3>2. ~(id = h /\ t = "DELETE_RESPONSE")
      <4>1. 1 \in Nat
        OBVIOUS
      <4> QED BY <1>0, <1>1, <1>5, <1>8, <4>1 DEF ServedOnce
    <3> QED BY <3>1, <3>2
  <2>5. \A i, j \in DOMAIN act_req' : act_req'[i] = act_req'[j] => i = j
    BY DEF ServiceInv, ConfirmedOnce
  <2> QED BY <2>1, <2>2, <2>3, <2>4, <2>5 DEF ConfirmedOnce
<1>10. BehindResponse'
  <2> SUFFICES ASSUME NEW b \in Agents, NEW i \in DOMAIN toRic'[b], NEW id,
                      toRic'[b][i].type \in {"INDICATION", "DELETE_RESPONSE"},
                      toRic'[b][i].id = id
               PROVE  Confirmed(id)' \/ Ahead(b, i, "SUBSCRIPTION_RESPONSE", id)'
    BY DEF BehindResponse, Confirmed, IsActive, Ahead
  <2>1. Confirmed(id) \/ Ahead(b, Before(a, b, i), "SUBSCRIPTION_RESPONSE", id)
    BY <1>2 DEF ServiceInv, BehindResponse
  <2>2. ASSUME NEW k \in DOMAIN toRic[b], k < Before(a, b, i),
               toRic[b][k].type = "SUBSCRIPTION_RESPONSE", toRic[b][k].id = id
        PROVE  Confirmed(id)' \/ Ahead(b, i, "SUBSCRIPTION_RESPONSE", id)'
    <3>1. CASE b = a /\ k = 1
      BY <1>1, <2>2, <3>1
    <3>2. ASSUME NEW j \in DOMAIN toRic'[b], Before(a, b, j) = k, toRic'[b][j] = toRic[b][k]
          PROVE  Ahead(b, i, "SUBSCRIPTION_RESPONSE", id)'
      <4>1. j < i
        BY <1>2, <1>4, <2>2, <3>2
      <4> QED BY <2>2, <3>2, <4>1 DEF Ahead
    <3> QED BY <1>3, <3>1, <3>2
  <2> QED BY <2>1, <2>2 DEF Ahead
<1>11. BeforeDelete'
  <2> SUFFICES ASSUME NEW b \in Agents, NEW i \in DOMAIN toRic'[b],
                      toRic'[b][i].type = "INDICATION"
               PROVE  /\ toRic'[b][i].id \notin closed'
                      /\ \A c \in Agents : \A j \in Nat :
                           Deleted(c, j)' /\ toRic'[c][j].id = toRic'[b][i].id => c = b /\ i < j
                      /\ \A c \in Agents : toRic'[b][i].id \in ind_event[c] => c = b
    BY DEF BeforeDelete
  <2> DEFINE k == Before(a, b, i)
  <2>1. /\ i \in Nat /\ k \in Nat /\ k \in DOMAIN toRic[b] /\ toRic'[b][i] = toRic[b][k]
        /\ b = a => k # 1
    BY <1>2
  <2> HIDE DEF k
  <2>2. /\ toRic[b][k].id \notin closed
        /\ \A c \in Agents : \A j \in Nat :
             Deleted(c, j) /\ toRic[c][j].id = toRic[b][k].id => c = b /\ k < j
        /\ \A c \in Agents : toRic[b][k].id \in ind_event[c] => c = b
    BY <2>1 DEF ServiceInv, BeforeDelete
  <2>3. toRic'[b][i].id \notin closed'
    <3>1. 1 \in Nat /\ ~(k < 1 /\ k # 0) /\ k # 0
      BY <1>0, <2>1 DEF TypeInv, TypeOK, ChannelTypeOK
    <3>2. ~(toRic[b][k].id = h /\ t = "DELETE_RESPONSE")
      BY <1>1, <1>8, <2>2, <3>1
    <3> QED BY <2>1, <2>2, <3>2
  <2>4. ASSUME NEW c \in Agents, NEW j \in Nat, Deleted(c, j)',
               toRic'[c][j].id = toRic'[b][i].id
        PROVE  c = b /\ i < j
    <3>1. c = b /\ k < Before(a, c, j)
      BY <1>5, <2>1, <2>2, <2>4
    <3> QED BY <1>4, <2>1, <3>1 DEF k
  <2> QED BY <2>1, <2>2, <2>3, <2>4
<1>12. ServedIsAnswered'
  <2> SUFFICES ASSUME NEW b \in Agents, NEW id \in ind_event[b]
               PROVE  Confirmed(id)' \/ \E i \in DOMAIN toRic'[b] :
                                         At(b, i, "SUBSCRIPTION_RESPONSE", id)'
    BY DEF ServedIsAnswered
  <2>1. Confirmed(id) \/ \E k \in DOMAIN toRic[b] : At(b, k, "SUBSCRIPTION_RESPONSE", id)
    BY <1>u DEF ServiceInv, ServedIsAnswered
  <2>2. ASSUME NEW k \in DOMAIN toRic[b], At(b, k, "SUBSCRIPTION_RESPONSE", id)
        PROVE  Confirmed(id)' \/ \E i \in DOMAIN toRic'[b] :
                                   At(b, i, "SUBSCRIPTION_RESPONSE", id)'
    <3>1. CASE b = a /\ k = 1
      BY <1>1, <2>2, <3>1 DEF At
    <3>2. CASE \E i \in DOMAIN toRic'[b] : toRic'[b][i] = toRic[b][k]
      BY <2>2, <3>2 DEF At
    <3> QED BY <1>3, <3>1, <3>2
  <2> QED BY <2>1, <2>2
<1>13. \A id : Accounted(id) => Accounted(id)'
  <2> SUFFICES ASSUME NEW id, Accounted(id) PROVE Accounted(id)'
    OBVIOUS
  <2>1. ASSUME NEW b \in Agents, NEW k \in DOMAIN toRic[b], At(b, k, "DELETE_RESPONSE", id)
        PROVE  Accounted(id)'
    <3>1. CASE b = a /\ k = 1
      BY <1>1, <2>1, <3>1 DEF At, Accounted
    <3>2. CASE \E i \in DOMAIN toRic'[b] : toRic'[b][i] = toRic[b][k]
      BY <2>1, <3>2 DEF At, Accounted
    <3> QED BY <1>3, <3>1, <3>2
  <2> QED BY <2>1 DEF Accounted
<1>14. AnsweredIsServed'
  <2>0. t = "SUBSCRIPTION_RESPONSE" => Accounted(h)
    BY <1>1 DEF ServiceInv, AnsweredIsServed
  <2>1. \A id \in RicId : Confirmed(id)' => Accounted(id)'
    BY <1>13, <2>0 DEF ServiceInv, AnsweredIsServed
  <2>2. ASSUME NEW b \in Agents, NEW i \in DOMAIN toRic'[b], NEW id, toRic'[b][i].id = id,
               toRic'[b][i].type = "SUBSCRIPTION_RESPONSE"
        PROVE  Accounted(id)'
    BY <1>2, <1>13, <2>2 DEF ServiceInv, AnsweredIsServed
  <2> QED BY <2>1, <2>2 DEF AnsweredIsServed, Accounted, At
<1>15. NothingWhileDown'
  BY <1>u DEF NothingWhileDown
<1> QED BY <1>7, <1>8, <1>9, <1>10, <1>11, <1>12, <1>14, <1>15 DEF ServiceInv

(* The push moves the confirmed id from the loop to act_req. *)
LEMMA PushKeeps ==
  ASSUME IInv, IInv', ServiceInv, PushActive, UNCHANGED ind_event
  PROVE  ServiceInv' /\ Same
<1>0. TypeInv /\ act_req \in Seq(RicId) /\ ricId \in RicId
  BY DEF IInv, TypeInv, TypeOK, RicTypeOK, PushActive
<1>1. /\ UNCHANGED <<toRic, toAgent, ind_event, closed, api, req_id, ricPhase>>
      /\ ricPhase = "up" /\ ricPc = "push" /\ ricPc' = "poll"
      /\ act_req' = Append(act_req, ricId)
  BY DEF PushActive, channelVars
<1>2. /\ \A i \in DOMAIN act_req : i \in DOMAIN act_req' /\ act_req'[i] = act_req[i]
      /\ \A i \in DOMAIN act_req' : \/ i \in DOMAIN act_req /\ act_req'[i] = act_req[i]
                                    \/ i = Len(act_req) + 1 /\ act_req'[i] = ricId
      /\ Len(act_req) + 1 \in DOMAIN act_req' /\ act_req'[Len(act_req) + 1] = ricId
  BY <1>0, <1>1, AppendShape
<1>3. \A id : IsActive(id)' <=> IsActive(id) \/ id = ricId
  BY <1>2 DEF IsActive
<1>4. \A id : Confirmed(id)' <=> Confirmed(id)
  BY <1>1, <1>3 DEF Confirmed
<1>5. ConfirmedOnce'
  <2>1. \A id \in RicId : Confirmed(id)' => Issued(id)' /\ ~Held(id)'
    BY <1>1, <1>4 DEF ServiceInv, ConfirmedOnce, Issued, Held, Holds, Queued, Answered
  <2>2. \A i, j \in DOMAIN act_req' : act_req'[i] = act_req'[j] => i = j
    BY <1>1, <1>2 DEF ServiceInv, ConfirmedOnce, IsActive
  <2>3. /\ \A id \in closed' : Confirmed(id)'
        /\ \A a \in Agents : \A i \in Nat : Deleted(a, i)' => toRic'[a][i].id \notin closed'
    BY <1>1, <1>4 DEF ServiceInv, ConfirmedOnce, Deleted
  <2> QED BY <1>1, <2>1, <2>2, <2>3 DEF ConfirmedOnce
<1>6. BehindResponse' /\ BeforeDelete'
  BY <1>1, <1>4 DEF ServiceInv, BehindResponse, BeforeDelete, Ahead, Deleted
<1>7. ServedIsAnswered' /\ AnsweredIsServed'
  BY <1>1, <1>4 DEF ServiceInv, ServedIsAnswered, AnsweredIsServed, Accounted, At
<1>8. NothingWhileDown'
  BY <1>1 DEF NothingWhileDown
<1> QED BY <1>1, <1>4, <1>5, <1>6, <1>7, <1>8 DEF ServiceInv, Same

(* The steps of the RIC's loop: one kind of read confirms, one removes. *)
LEMMA RicLoopService ==
  ASSUME IInv, IInv', ServiceInv, RicLoopStep
  PROVE  ServiceInv' /\ (Same \/ Confirms \/ Removes)
<1>0. TypeInv /\ TypeInv' /\ Books /\ UNCHANGED ind_event
  BY DEF IInv, Books, RicLoopStep, agentVars
<1>1. CASE StartRic
  <2>1. /\ UNCHANGED <<toRic, ind_event, act_req, closed, ricPc, ricId, toAgent, api, req_id>>
        /\ ricPhase = "down" /\ ricPhase' = "up"
    BY <1>0, <1>1 DEF StartRic, ricVars
  <2>2. \A id \in RicId : (Issued(id) => Issued(id)') /\ (Held(id)' => Held(id))
    BY <2>1 DEF Issued, Held, Holds, Queued, Answered
  <2> QED BY <2>1, <2>2, QuietKeeps DEF NothingWhileDown
<1>2. CASE SendSetupResponse
  <2>1. /\ UNCHANGED <<toRic, ind_event, act_req, closed, ricId, api, req_id, ricPhase>>
        /\ ricPc = "answer" /\ ricPc' = "poll" /\ ricPhase = "up"
    BY <1>0, <1>2 DEF SendSetupResponse
  <2>2. \A b \in Agents : \A i \in Nat :
          Queued(b, i)' => Queued(b, i) /\ toAgent'[b][i] = toAgent[b][i]
    <3> DEFINE m == [type |-> "SETUP_RESPONSE", id |-> NoId]
    <3>1. SendToAgent(ep_to, m) /\ m \in ToAgentMsg /\ m.type \notin NewReq
      BY <1>2 DEF SendSetupResponse, ToAgentMsg, NewReq
    <3> HIDE DEF m
    <3> QED BY <1>0, <3>1, SendToAgentShape DEF Queued, TypeInv
  <2>3. \A id \in RicId : (Issued(id) => Issued(id)') /\ (Held(id)' => Held(id))
    BY <2>1, <2>2 DEF Issued, Held, Holds, Answered
  <2> QED BY <2>1, <2>3, QuietKeeps DEF NothingWhileDown
<1>3. CASE PushActive
  BY <1>0, <1>3, PushKeeps
<1>4. ASSUME NEW a \in Agents, HandleSetupRequest(a) PROVE ServiceInv' /\ Same
  <2> PICK h : h = Head(toRic[a]).id
    OBVIOUS
  <2>1. /\ RicReads(a, "SETUP_REQUEST") /\ ricPc = "poll" /\ ricPc' = "answer"
        /\ UNCHANGED <<toAgent, ind_event, act_req, api, req_id, closed, ricPhase>>
    BY <1>0, <1>4 DEF HandleSetupRequest, RicReads
  <2>2. \A x : Confirmed(x)' <=> Confirmed(x)
    BY <2>1 DEF Confirmed, IsActive
  <2>3. ServiceInv'
    BY <2>1, <2>2, RicReadService
  <2> QED BY <2>1, <2>2, <2>3 DEF Same
<1>5. ASSUME NEW a \in Agents, HandleIndication(a) PROVE ServiceInv' /\ Same
  <2> PICK h : h = Head(toRic[a]).id
    OBVIOUS
  <2>1. /\ RicReads(a, "INDICATION") /\ ricPc = "poll" /\ ricPc' = "poll"
        /\ UNCHANGED <<toAgent, ind_event, act_req, api, req_id, closed, ricPhase>>
    BY <1>0, <1>5 DEF HandleIndication, RicReads
  <2>2. \A x : Confirmed(x)' <=> Confirmed(x)
    BY <2>1 DEF Confirmed, IsActive
  <2>3. ServiceInv'
    BY <2>1, <2>2, RicReadService
  <2> QED BY <2>1, <2>2, <2>3 DEF Same
<1>6. ASSUME NEW a \in Agents, HandleControlAck(a) PROVE ServiceInv' /\ Same
  <2> PICK h : h = Head(toRic[a]).id
    OBVIOUS
  <2>1. /\ RicReads(a, "CONTROL_ACK") /\ ricPc = "poll" /\ ricPc' = "poll"
        /\ UNCHANGED <<toAgent, ind_event, act_req, api, req_id, closed>>
        /\ StopPending(CtrlEv, Head(toRic[a]).id)
    BY <1>0, <1>6 DEF HandleControlAck, RicReads
  <2>a. ricPhase' = ricPhase
    BY <1>0, <2>1, StopPendingFinds DEF EventOf, AnswerTypes
  <2>2. \A x : Confirmed(x)' <=> Confirmed(x)
    BY <2>1 DEF Confirmed, IsActive
  <2>3. ServiceInv'
    BY <2>1, <2>2, <2>a, RicReadService
  <2> QED BY <2>1, <2>2, <2>3 DEF Same
<1>7. ASSUME NEW a \in Agents, HandleSubscriptionResponse(a) PROVE ServiceInv' /\ Confirms
  <2> PICK h : h = Head(toRic[a]).id
    OBVIOUS
  <2>1. /\ RicReads(a, "SUBSCRIPTION_RESPONSE") /\ ricPc = "poll" /\ ricPc' = "push" /\ ricId' = h
        /\ UNCHANGED <<toAgent, ind_event, act_req, api, req_id, closed>>
        /\ StopPending(SubEv, Head(toRic[a]).id)
    BY <1>0, <1>7 DEF HandleSubscriptionResponse, RicReads
  <2>a. ricPhase' = ricPhase
    BY <1>0, <2>1, StopPendingFinds DEF EventOf, AnswerTypes
  <2>2. \A x : Confirmed(x)' <=> Confirmed(x) \/ x = h
    BY <2>1 DEF Confirmed, IsActive
  <2>3. ServiceInv' /\ h \in RicId /\ ~Confirmed(h) /\ h \notin closed
    BY <2>1, <2>2, <2>a, RicReadService
  <2> QED BY <2>1, <2>2, <2>3 DEF Confirms
<1>8. ASSUME NEW a \in Agents, HandleDeleteResponse(a) PROVE ServiceInv' /\ Removes
  <2> PICK h : h = Head(toRic[a]).id
    OBVIOUS
  <2>1. /\ RicReads(a, "DELETE_RESPONSE") /\ ricPc = "poll" /\ ricPc' = "poll"
        /\ UNCHANGED <<toAgent, ind_event, act_req, api, req_id>>
        /\ closed' = closed \cup {h}
        /\ StopPending(DelEv, Head(toRic[a]).id)
    BY <1>0, <1>8 DEF HandleDeleteResponse, RicReads
  <2>a. ricPhase' = ricPhase
    BY <1>0, <2>1, StopPendingFinds DEF EventOf, AnswerTypes
  <2>2. \A x : Confirmed(x)' <=> Confirmed(x)
    BY <2>1 DEF Confirmed, IsActive
  <2>3. ServiceInv' /\ h \in RicId /\ Confirmed(h) /\ h \notin closed
    BY <2>1, <2>2, <2>a, RicReadService
  <2> QED BY <2>1, <2>2, <2>3 DEF Removes
<1> QED BY <1>1, <1>2, <1>3, <1>4, <1>5, <1>6, <1>7, <1>8 DEF RicLoopStep

-----------------------------------------------------------------------------
(***************************************************************************)
(* The agents' steps and the API threads.                                  *)
(***************************************************************************)
LEMMA AgentService ==
  ASSUME IInv, IInv', ServiceInv, NEW a \in Agents, AgentStep(a)
  PROVE  ServiceInv' /\ Same
<1>0. TypeInv /\ TypeInv' /\ UNCHANGED ricVars /\ UNCHANGED <<api, closed, act_req, req_id, ricPc, ricId>>
  BY DEF IInv, AgentStep, ricVars
<1>1. ASSUME NEW m \in ToRicMsg, SendToRic(a, m), m.type \in {"SETUP_REQUEST", "INDICATION"},
             m.type = "INDICATION" => m.id \in ind_event[a],
             UNCHANGED <<toAgent, ricPhase, ind_event>>
      PROVE  ServiceInv' /\ Same
  <2>1. \A b \in Agents : \A i \in Nat : Answered(b, i)' =>
          Answered(b, i) /\ toRic'[b][i] = toRic[b][i]
    BY <1>0, <1>1, SendToRicShape DEF Answered, NewAns, TypeInv
  <2>2. \A id \in RicId : Held(id)' => Held(id)
    BY <1>0, <1>1, <2>1 DEF Held, Holds, Queued
  <2>3. NothingWhileDown'
    BY <1>1 DEF NothingWhileDown, ServiceInv
  <2> QED BY <1>0, <1>1, <2>2, <2>3, PlainSendKeeps
<1>2. ASSUME NEW t, AgentReads(a, t) PROVE ricPhase # "down" /\ ricPhase' = ricPhase
  BY <1>0, <1>2, AgentReadType DEF ServiceInv, NothingWhileDown
<1>3. ASSUME NEW t, AgentReads(a, t), UNCHANGED <<toRic, ind_event>>
      PROVE  ServiceInv' /\ Same
  <2>1. \A id \in RicId : Held(id)' => Held(id)
    BY <1>0, <1>3, AgentReadHeld
  <2>2. NothingWhileDown'
    BY <1>2, <1>3 DEF NothingWhileDown
  <2>3. \A id \in RicId : Issued(id) => Issued(id)'
    BY <1>0 DEF Issued
  <2> QED BY <1>0, <1>2, <1>3, <2>1, <2>2, <2>3, QuietKeeps
<1>4. CASE StartAgent(a) \/ SetupTimeout(a)
  <2>1. SetupRequest \in ToRicMsg /\ SetupRequest.type = "SETUP_REQUEST"
    BY DEF SetupRequest, ToRicMsg
  <2>2. SendToRic(a, SetupRequest) /\ UNCHANGED <<toAgent, ricPhase, ind_event>>
    BY <1>4 DEF StartAgent, SetupTimeout, agentVars
  <2> QED BY <1>1, <2>1, <2>2
<1>5. ASSUME NEW id \in ind_event[a], IndicationTimeout(a, id) PROVE ServiceInv' /\ Same
  <2>1. id \in RicId
    BY <1>0, IdsTyped
  <2> DEFINE m == [type |-> "INDICATION", id |-> id]
  <2>2. /\ m \in ToRicMsg /\ m.type = "INDICATION" /\ m.id = id
        /\ SendToRic(a, m) /\ UNCHANGED <<toAgent, ricPhase, ind_event>>
    BY <1>5, <2>1 DEF IndicationTimeout, agentVars, ToRicMsg
  <2> HIDE DEF m
  <2> QED BY <1>1, <2>2
<1>6. CASE HandleSetupResponse(a)
  BY <1>3, <1>6 DEF HandleSetupResponse
<1>7. CASE HandleSubscriptionRequest(a)
  BY <1>0, <1>7, SubscriptionKeeps
<1>8. CASE HandleDeleteRequest(a)
  <2>1. CASE Head(toAgent[a]).id \in ind_event[a]
    BY <1>0, <1>8, <2>1, DeleteKeeps DEF HandleDeleteRequest
  <2>2. CASE Head(toAgent[a]).id \notin ind_event[a]
    BY <1>3, <1>8, <2>2 DEF HandleDeleteRequest
  <2> QED BY <2>1, <2>2
<1>9. CASE HandleControlRequest(a)
  <2>1. /\ AgentReads(a, "CONTROL_REQUEST") /\ UNCHANGED ind_event
        /\ SendToRic(a, [type |-> "CONTROL_ACK", id |-> Head(toAgent[a]).id])
    BY <1>9 DEF HandleControlRequest, agentVars
  <2>2. "CONTROL_REQUEST" \in NewReq /\ "CONTROL_ACK" \in NewAns
    BY DEF NewReq, NewAns
  <2>3. /\ \A id \in RicId : Held(id)' => Held(id)
        /\ [type |-> "CONTROL_ACK", id |-> Head(toAgent[a]).id] \in ToRicMsg
    BY <1>0, <2>1, <2>2, AnswerHeld
  <2>4. NothingWhileDown' /\ UNCHANGED ricPhase
    BY <1>2, <2>1 DEF NothingWhileDown
  <2> QED BY <1>0, <2>1, <2>3, <2>4, PlainSendKeeps
<1> QED BY <1>4, <1>5, <1>6, <1>7, <1>8, <1>9 DEF AgentStep

(* A call of the API, or the next step of one: an id changes holder, or is    *)
(* new.                                                                       *)
LEMMA ApiService ==
  ASSUME IInv, IInv', ServiceInv, NEW t \in Threads,
         (\E f \in RanFuncs : ApiCall(t, f)) \/ ApiStep(t)
  PROVE  ServiceInv' /\ Same
<1>0. /\ TypeInv /\ TypeInv' /\ ricPhase = "up"
      /\ UNCHANGED <<toRic, ind_event, act_req, closed, ricPc, ricId>>
      /\ ricPhase' \in {"up", "aborted"}
  BY DEF IInv, ApiCall, ApiStep, ReportService, ControlService, RmReportFind, RmReportUse,
         InsertPending, SendRequest, AbortRic, channelVars, agentVars
<1>1. SUFFICES /\ \A id \in RicId : Issued(id) => Issued(id)'
               /\ \A id \in RicId : Held(id)' => Held(id) \/ ~Issued(id)
  BY <1>0, QuietKeeps DEF NothingWhileDown
<1>2. ASSUME UNCHANGED <<toAgent, req_id>>,
             \A u \in Threads : Holds(u)' => Holds(u) /\ api'[u].id = api[u].id
      PROVE  /\ \A id \in RicId : Issued(id) => Issued(id)'
             /\ \A id \in RicId : Held(id)' => Held(id)
  BY <1>0, <1>2 DEF Issued, Held, Queued, Answered
<1>3. ASSUME NEW f \in RanFuncs, NEW ev \in Events, NewRequest(t, ev, f), UNCHANGED toAgent
      PROVE  /\ \A id \in RicId : Issued(id) => Issued(id)'
             /\ \A id \in RicId : Held(id)' => Held(id) \/ ~Issued(id)
  <2> PICK new \in RicId : new = [ric_req_id |-> req_id, ran_func_id |-> f]
    BY <1>0, <1>3, NewRequestType DEF TypeInv
  <2>1. PICK fd \in Fds : api' = [api EXCEPT ![t] = Prepared(ev, new, fd)]
    BY <1>0, <1>3, NewRequestType DEF TypeInv
  <2>2. /\ req_id \in Nat /\ req_id' = req_id + 1 /\ api'[t].id = new
        /\ \A u \in Threads : u # t => api'[u] = api[u]
    BY <1>0, <1>3, <2>1, NewRequestType DEF TypeInv, TypeOK, RicTypeOK, Prepared
  <2>3. \A id \in RicId : Issued(id) => Issued(id)' /\ id # new
    BY <2>2 DEF Issued, RicId
  <2>4. ~Issued(new)
    BY <2>3
  <2>5. \A u \in Threads : Holds(u)' => (Holds(u) /\ api'[u] = api[u]) \/ api'[u].id = new
    BY <2>2 DEF Holds
  <2>6. \A id \in RicId : Held(id)' => Held(id) \/ id = new
    BY <1>0, <1>3, <2>5 DEF Held, Queued, Answered
  <2> QED BY <2>3, <2>4, <2>6
<1>4. ASSUME NEW f \in RanFuncs, ApiCall(t, f)
      PROVE  /\ \A id \in RicId : Issued(id) => Issued(id)'
             /\ \A id \in RicId : Held(id)' => Held(id) \/ ~Issued(id)
  <2>0. SubEv \in Events /\ CtrlEv \in Events
    BY DEF Events
  <2>1. CASE ReportService(t, f)
    BY <1>3, <2>0, <2>1 DEF ReportService, channelVars
  <2>2. CASE ControlService(t, f)
    <3>1. CASE NewRequest(t, CtrlEv, f)
      BY <1>3, <2>0, <2>2, <3>1 DEF ControlService
    <3>2. CASE UNCHANGED <<req_id, api>>
      BY <1>2, <2>2, <3>2 DEF ControlService, Holds
    <3> QED BY <2>2, <3>1, <3>2 DEF ControlService
  <2>3. CASE RmReportFind(t, f)
    <3>1. /\ api'[t].pc = "use" /\ \A u \in Threads : u # t => api'[u] = api[u]
          /\ UNCHANGED <<toAgent, req_id>>
      BY <1>0, <2>3 DEF RmReportFind, channelVars, TypeInv, TypeOK, RicTypeOK
    <3> QED BY <1>2, <3>1 DEF Holds
  <2> QED BY <1>4, <2>1, <2>2, <2>3 DEF ApiCall
<1>5. CASE RmReportUse(t)
  <2>1. /\ \A u \in Threads : u # t => api'[u] = api[u]
        /\ UNCHANGED <<toAgent, req_id>>
        /\ api' = api \/ api'[t].ev = DelEv
    BY <1>0, <1>5 DEF RmReportUse, Prepared, TypeInv, TypeOK, RicTypeOK
  <2> QED BY <1>2, <2>1 DEF Holds
<1>6. CASE InsertPending(t)
  <2>1. api[t] \in ApiState /\ api'[t] = [api[t] EXCEPT !.pc = "send"]
    BY <1>0, <1>6 DEF InsertPending, TypeInv, TypeOK, RicTypeOK
  <2>2. api'[t].ev = api[t].ev /\ api'[t].id = api[t].id
    BY <2>1 DEF ApiState, Idle
  <2>3. /\ \A u \in Threads : u # t => api'[u] = api[u]
        /\ UNCHANGED <<toAgent, req_id>> /\ api[t].pc = "insert"
    BY <1>0, <1>6 DEF InsertPending, channelVars, TypeInv, TypeOK, RicTypeOK
  <2> QED BY <1>2, <2>2, <2>3 DEF Holds
<1>7. CASE SendRequest(t)
  <2> PICK id \in RicId, ev \in Events : id = api[t].id /\ ev = api[t].ev
    BY <1>0, <1>7, ApiHolds DEF SendRequest, TypeInv
  <2> DEFINE m == [type |-> RequestOf(ev), id |-> id]
  <2>0. /\ UNCHANGED req_id /\ api[t].pc = "send" /\ api'[t] = Idle
        /\ \A u \in Threads : u # t => api'[u] = api[u]
        /\ m \in ToAgentMsg /\ m.type = RequestOf(ev) /\ m.id = id
        /\ SendToAgent(ep_to, m)
    BY <1>0, <1>7, RequestType DEF SendRequest, TypeInv, TypeOK, RicTypeOK
  <2>1. RequestOf(ev) \in NewReq => Holds(t)
    BY <2>0 DEF Holds, RequestOf, NewReq, Events, SubEv, DelEv, CtrlEv
  <2>2. \A u \in Threads : Holds(u)' => Holds(u) /\ api'[u] = api[u]
    BY <2>0 DEF Holds, Idle
  <2> HIDE DEF m
  <2>3. \A b \in Agents : \A i \in Nat :
          Queued(b, i)' =>
            \/ Queued(b, i) /\ toAgent'[b][i] = toAgent[b][i]
            \/ toAgent'[b][i].id = api[t].id /\ Holds(t)
    BY <1>0, <2>0, <2>1, SendToAgentShape DEF Queued, TypeInv
  <2>4. \A x \in RicId : Held(x)' => Held(x)
    BY <1>0, <2>2, <2>3 DEF Held, Answered
  <2> QED BY <2>0, <2>4 DEF Issued
<1> QED BY <1>4, <1>5, <1>6, <1>7 DEF ApiStep

-----------------------------------------------------------------------------
LEMMA ServiceInvInit == Init => ServiceInv
<1> SUFFICES ASSUME Init PROVE ServiceInv
  OBVIOUS
<1>1. /\ \A a \in Agents : toAgent[a] = << >> /\ DOMAIN toRic[a] = {} /\ ind_event[a] = {}
      /\ closed = {} /\ DOMAIN act_req = {} /\ ricPc = "poll"
  BY DEF Init, ChannelInit, AgentInit, RicInit
<1>2. \A id : ~Confirmed(id)
  BY <1>1 DEF Confirmed, IsActive
<1> QED BY <1>1, <1>2 DEF ServiceInv, NothingWhileDown, ConfirmedOnce, BehindResponse,
                          BeforeDelete, ServedIsAnswered, AnsweredIsServed, Deleted

LEMMA ServiceInvNext ==
  IInv /\ ServiceInv /\ [Next]_vars => ServiceInv' /\ (Same \/ Confirms \/ Removes)
<1> SUFFICES ASSUME IInv, ServiceInv, [Next]_vars
             PROVE  ServiceInv' /\ (Same \/ Confirms \/ Removes)
  OBVIOUS
<1>0. IInv'
  BY IInvNext
<1>1. CASE UNCHANGED vars
  <2>1. UNCHANGED <<toRic, toAgent, ind_event, act_req, closed, ricPc, ricId, ricPhase, api, req_id>>
    BY <1>1 DEF vars, channelVars, agentVars, ricVars
  <2>2. NothingWhileDown' /\ \A id : (Issued(id)' <=> Issued(id)) /\ (Held(id)' <=> Held(id))
    BY <2>1 DEF ServiceInv, NothingWhileDown, Issued, Held, Holds, Queued, Answered
  <2> QED BY <1>0, <2>1, <2>2, QuietKeeps
<1>2. CASE Next
  BY <1>0, <1>2, AgentService, RicLoopService, ApiService DEF Next
<1> QED BY <1>1, <1>2

(* For any agents, threads and functions: an indication on its way is behind  *)
(* the response of its subscription or the RIC has that response, it is ahead *)
(* of the delete response, and the RIC has not closed the subscription.       *)
THEOREM IndicationsInTheirTime == Spec => []IndicationsWhileActive
<1>1. IInv /\ ServiceInv => IndicationsWhileActive
  <2> SUFFICES ASSUME IInv, ServiceInv PROVE IndicationsWhileActive
    OBVIOUS
  <2>1. IndicationAfterResponse
    BY DEF ServiceInv, BehindResponse, IndicationAfterResponse, Confirmed
  <2>2. ASSUME NEW a \in Agents, NEW i \in DOMAIN toRic[a], toRic[a][i].type = "INDICATION",
               NEW j \in DOMAIN toRic[a], toRic[a][j].type = "DELETE_RESPONSE",
               toRic[a][j].id = toRic[a][i].id
        PROVE  ~(j < i)
    <3>1. j \in Nat /\ i \in Nat
      BY DEF IInv, TypeInv, TypeOK, ChannelTypeOK
    <3>2. i < j
      BY <2>2, <3>1 DEF ServiceInv, BeforeDelete, Deleted
    <3> QED BY <3>1, <3>2
  <2>3. NoIndicationAfterDelete
    BY <2>2 DEF ServiceInv, BeforeDelete, NoIndicationAfterDelete, Ahead
  <2> QED BY <2>1, <2>3 DEF IndicationsWhileActive
<1> QED BY <1>1, IInvInit, IInvNext, ServiceInvInit, ServiceInvNext, PTL DEF Spec

(* For any agents, threads and functions: ind_event of the agents and act_req *)
(* of the RIC agree up to what is in flight, and no id is subscribed twice.   *)
THEOREM BooksAlwaysAgree == Spec => []BooksAgree
<1>1. IInv /\ ServiceInv => BooksAgree
  <2> SUFFICES ASSUME IInv, ServiceInv PROVE BooksAgree
    OBVIOUS
  <2>0. TypeInv /\ ServedOnce
    BY DEF IInv
  <2>1. \A a \in Agents : \A i \in DOMAIN toRic[a] :
          i < Len(toRic[a]) + 1 /\ \A ty, id : At(a, i, ty, id) => InFlightToRic(ty, id)
    <3>1. \A a \in Agents : \A i \in DOMAIN toRic[a] : i < Len(toRic[a]) + 1
      BY <2>0 DEF TypeInv, TypeOK, ChannelTypeOK
    <3> QED BY <3>1 DEF At, InFlightToRic, Ahead
  <2>2. \A a, b \in Agents : a # b => ind_event[a] \cap ind_event[b] = {}
    BY <2>0 DEF ServedOnce
  <2>3. \A a \in Agents : \A id \in ind_event[a] :
          \/ IsActive(id)
          \/ ricPhase = "aborted"
          \/ ricPc = "push" /\ ricId = id
          \/ InFlightToRic("SUBSCRIPTION_RESPONSE", id)
    BY <2>1 DEF ServiceInv, ServedIsAnswered, Confirmed
  <2>4. ASSUME NEW i \in DOMAIN act_req
        PROVE  \/ act_req[i] \in closed
               \/ InFlightToRic("DELETE_RESPONSE", act_req[i])
               \/ ricPhase = "aborted"
               \/ \E a \in Agents : act_req[i] \in ind_event[a]
    <3>1. act_req[i] \in RicId /\ Confirmed(act_req[i])
      BY <2>0, IdsTyped DEF Confirmed, IsActive
    <3>2. Accounted(act_req[i])
      BY <3>1 DEF ServiceInv, AnsweredIsServed
    <3> QED BY <2>1, <3>2 DEF Accounted
  <2>5. ASSUME NEW a \in Agents, NEW b \in Agents, NEW i \in DOMAIN toAgent[a],
               toAgent[a][i].type = "SUBSCRIPTION_REQUEST"
        PROVE  toAgent[a][i].id \notin ind_event[b] /\ ~IsActive(toAgent[a][i].id)
    <3>1. i \in Nat /\ toAgent[a][i] \in ToAgentMsg
      BY <2>0 DEF TypeInv, TypeOK, ChannelTypeOK
    <3>2. Queued(a, i) /\ toAgent[a][i].id \in RicId
      BY <2>5, <3>1 DEF Queued, NewReq, ToAgentMsg
    <3>3. Held(toAgent[a][i].id) /\ Unserved(toAgent[a][i].id)
      BY <2>0, <3>1, <3>2 DEF Held, ServedOnce
    <3> QED BY <3>2, <3>3 DEF ServiceInv, ConfirmedOnce, Confirmed, Unserved
  <2>6. \A i, j \in DOMAIN act_req : act_req[i] = act_req[j] => i = j
    BY DEF ServiceInv, ConfirmedOnce
  <2> QED BY <2>2, <2>3, <2>4, <2>5, <2>6 DEF BooksAgree, SubscriptionAgreement, SubscriptionIdsFresh
<1> QED BY <1>1, IInvInit, IInvNext, ServiceInvInit, ServiceInvNext, PTL DEF Spec

(* Agents, channels and RIC together implement the subscription service: for  *)
(* the API's callers each step confirms one new subscription, removes one     *)
(* that is active, or changes nothing.                                        *)
THEOREM ServiceImplemented == Spec => ImplementsService
<1>1. Init => Service!ServiceInit
  <2> SUFFICES ASSUME Init PROVE Service!ServiceInit
    OBVIOUS
  <2>1. closed = {} /\ DOMAIN act_req = {} /\ ricPc = "poll"
    BY DEF Init, RicInit
  <2> QED BY <2>1 DEF Service!ServiceInit, ActiveSubscriptions, IsActive
<1>2. IInv /\ IInv' /\ ServiceInv /\ (Same \/ Confirms \/ Removes)
        => [Service!ServiceNext]_(Service!serviceVars)
  <2> SUFFICES ASSUME IInv, IInv', ServiceInv, Same \/ Confirms \/ Removes
               PROVE  [Service!ServiceNext]_(Service!serviceVars)
    OBVIOUS
  <2>1. ActiveSubscriptions = {id \in RicId : Confirmed(id)} \ closed
    BY DEF ActiveSubscriptions, Confirmed
  <2>2. ActiveSubscriptions' = {id \in RicId : Confirmed(id)'} \ closed'
    BY DEF ActiveSubscriptions, Confirmed, IsActive
  <2>3. CASE Same
    <3>1. ActiveSubscriptions' = ActiveSubscriptions /\ closed' = closed
      BY <2>1, <2>2, <2>3 DEF Same
    <3> QED BY <3>1 DEF Service!serviceVars
  <2>4. CASE Confirms
    <3>1. PICK id \in RicId :
            /\ ~Confirmed(id) /\ id \notin closed
            /\ \A x \in RicId : Confirmed(x)' <=> Confirmed(x) \/ x = id
            /\ UNCHANGED closed
      BY <2>4 DEF Confirms
    <3>2. /\ id \notin ActiveSubscriptions \cup closed
          /\ ActiveSubscriptions' = ActiveSubscriptions \cup {id}
          /\ closed' = closed
      BY <2>1, <2>2, <3>1
    <3> QED BY <3>2 DEF Service!ServiceNext, Service!Confirm
  <2>5. CASE Removes
    <3>1. PICK id \in RicId :
            /\ Confirmed(id) /\ id \notin closed
            /\ \A x \in RicId : Confirmed(x)' <=> Confirmed(x)
            /\ closed' = closed \cup {id}
      BY <2>5 DEF Removes
    <3>2. /\ id \in ActiveSubscriptions
          /\ ActiveSubscriptions' = ActiveSubscriptions \ {id}
          /\ closed' = closed \cup {id}
      BY <2>1, <2>2, <3>1
    <3> QED BY <3>2 DEF Service!ServiceNext, Service!Remove
  <2> QED BY <2>3, <2>4, <2>5
<1> QED BY <1>1, <1>2, IInvInit, IInvNext, ServiceInvInit, ServiceInvNext, PTL
        DEF Spec, ImplementsService, Service!ServiceSpec

-----------------------------------------------------------------------------
(***************************************************************************)
(* Paced callers: with one agent, a setup timer slower than the answer and *)
(* one report per function, no assert fails.                               *)
(***************************************************************************)

\* Where a setup exchange of agent a can be: asked, being answered, answered.
Asked(a, i) == i \in DOMAIN toRic[a] /\ toRic[a][i].type = "SETUP_REQUEST"
Telling(a) == ricPc = "answer" /\ ep_to = a
Told(a, i) == i \in DOMAIN toAgent[a] /\ toAgent[a][i].type = "SETUP_RESPONSE"

\* The agents whose pending event is armed.
Waiting == {a \in Agents : agPending[a]}

\* An agent has at most one setup exchange under way, and then it waits for it.
OneSetup ==
  \A a \in Agents :
    /\ \A i, j \in Nat : Asked(a, i) /\ Asked(a, j) => i = j
    /\ \A i, j \in Nat : Told(a, i) /\ Told(a, j) => i = j
    /\ \A i, j \in Nat : ~(Asked(a, i) /\ Told(a, j))
    /\ \A i \in Nat : Asked(a, i) \/ Told(a, i) =>
         ~Telling(a) /\ a \in Waiting /\ agPhase[a] # "init"
    /\ Telling(a) => a \in Waiting /\ agPhase[a] # "init"

\* Where the removal of a subscription can be before an agent has served it: in
\* a thread, and which subscription it removes; in the queue of an agent.
Removing(t) == api[t].ev = DelEv
Target(t) == IF api[t].pc = "use" THEN act_req[api[t].idx] ELSE api[t].id
QueuedDel(a, i) == i \in DOMAIN toAgent[a] /\ toAgent[a][i].type = "DELETE_REQUEST"

Removals(id) == calls["remove"][id.ran_func_id]

\* The RIC may remove id: it is active and no agent has removed it.
Removable(id) ==
  /\ IsActive(id) /\ id \notin closed /\ Removals(id) > 0
  /\ \A a \in Agents : \A i \in Nat : Deleted(a, i) => toRic[a][i].id # id

\* The iterator of a removal points to what it was taken for until it is used.
IteratorsRight ==
  /\ \A t, u \in Threads : api[t].pc # "idle" /\ api[u].pc # "idle" => t = u
  /\ \A t \in Threads : api[t].pc = "use" =>
       /\ pending = {} /\ ricPc # "push"
       /\ api[t].cap = act_cap /\ api[t].idx \in DOMAIN act_req

\* One removal is under way, and what it removes was not removed before.
RemovalsRight ==
  /\ \A t \in Threads : Removing(t) => Removable(Target(t))
  /\ \A a \in Agents : \A i \in Nat : QueuedDel(a, i) => Removable(toAgent[a][i].id)
  /\ \A a \in Agents : \A i \in Nat : QueuedDel(a, i) => \A t \in Threads : ~Removing(t)
  /\ \A a, b \in Agents : \A i, j \in Nat : QueuedDel(a, i) /\ QueuedDel(b, j) => a = b /\ i = j
  /\ \A a \in Agents : \A i \in Nat : Deleted(a, i) => Removals(toRic[a][i].id) > 0
  /\ \A id \in closed : Removals(id) > 0

\* The subscription of a report that was made is on its way or confirmed.
Reported(id) ==
  \/ Confirmed(id)
  \/ HasEntry(SubEv, id)
  \/ \E t \in Threads : api[t].pc = "insert" /\ api[t].ev = SubEv /\ api[t].id = id

ReportsRight ==
  \A f \in RanFuncs :
    /\ calls["report"][f] <= MaxReports
    /\ calls["report"][f] > 0 => \E id \in RicId : id.ran_func_id = f /\ Reported(id)

PacedInv ==
  OneSetup /\ IteratorsRight /\ RemovalsRight /\ ReportsRight /\ NoAssertFails

-----------------------------------------------------------------------------
(***************************************************************************)
(* One setup exchange at a time.                                           *)
(***************************************************************************)

(* A step that starts no setup exchange and moves none on keeps them apart,   *)
(* although queues may shift: x has read from the RIC, the RIC from y.        *)
LEMMA SetupSame ==
  ASSUME OneSetup, NEW x, NEW y,
         \A b \in Agents : \A i \in Nat :
           /\ Asked(b, i)' => Before(y, b, i) \in Nat /\ Asked(b, Before(y, b, i))
           /\ Told(b, i)' => Before(x, b, i) \in Nat /\ Told(b, Before(x, b, i)),
         \A b \in Agents : Telling(b)' => Telling(b),
         Waiting' = Waiting,
         \A b \in Agents : agPhase'[b] = "init" => agPhase[b] = "init"
  PROVE  OneSetup'
<1>1. \A b \in Agents : \A z : \A i, j \in Nat : Before(z, b, i) = Before(z, b, j) => i = j
  BY DEF Before
<1>2. ASSUME NEW b \in Agents, NEW i \in Nat, NEW j \in Nat
      PROVE  /\ Asked(b, i)' /\ Asked(b, j)' => i = j
             /\ Told(b, i)' /\ Told(b, j)' => i = j
             /\ ~(Asked(b, i)' /\ Told(b, j)')
  BY <1>1 DEF OneSetup
<1>3. ASSUME NEW b \in Agents, NEW i \in Nat, Asked(b, i)' \/ Told(b, i)'
      PROVE  ~Telling(b)' /\ b \in Waiting' /\ agPhase'[b] # "init"
  BY <1>3 DEF OneSetup
<1>4. ASSUME NEW b \in Agents, Telling(b)'
      PROVE  b \in Waiting' /\ agPhase'[b] # "init"
  BY <1>4 DEF OneSetup
<1> QED BY <1>2, <1>3, <1>4 DEF OneSetup

LEMMA Unread ==
  \A b \in Agents : \A i \in Nat : Before(NoAgent, b, i) = i
BY NoAgentAssumption DEF Before

(* What an agent's read leaves of its queue. *)
LEMMA ToldBefore ==
  ASSUME TypeInv, NEW a \in Agents, NEW t, AgentReads(a, t)
  PROVE  \A b \in Agents : \A i \in Nat :
           Told(b, i)' => Before(a, b, i) \in Nat /\ Told(b, Before(a, b, i)) /\ Before(a, b, i) # 0
                          /\ (b = a => Before(a, b, i) # 1)
BY AgentReadShape DEF Told, Before

LEMMA AskedBefore ==
  ASSUME TypeInv, NEW a \in Agents, NEW t, RicReads(a, t)
  PROVE  \A b \in Agents : \A i \in Nat :
           Asked(b, i)' => Before(a, b, i) \in Nat /\ Asked(b, Before(a, b, i)) /\ Before(a, b, i) # 0
                           /\ (b = a => Before(a, b, i) # 1)
BY RicReadShape DEF Asked, Before

(* The setup request of an agent that has no exchange under way. *)
LEMMA AskSetup ==
  ASSUME TypeInv, OneSetup, NEW a \in Agents, SendToRic(a, SetupRequest),
         UNCHANGED <<toAgent, ricPc, ep_to>>,
         ~Telling(a), \A i \in Nat : ~Asked(a, i) /\ ~Told(a, i),
         Waiting' = Waiting \cup {a},
         \A b \in Agents : agPhase'[b] = "init" => agPhase[b] = "init" /\ b # a
  PROVE  OneSetup'
<1>1. SetupRequest \in ToRicMsg
  BY DEF SetupRequest, ToRicMsg
<1>2. \A b \in Agents : \A i \in Nat :
        Asked(b, i)' => Asked(b, i) \/ (b = a /\ i = Len(toRic[a]) + 1)
  BY <1>1, SendToRicShape DEF Asked, TypeInv
<1>3. \A b \in Agents : (Telling(b)' <=> Telling(b)) /\ \A i \in Nat : Told(b, i)' <=> Told(b, i)
  BY DEF Telling, Told
<1> QED BY <1>2, <1>3 DEF OneSetup

LEMMA AgentSetup ==
  ASSUME IInv, OneSetup, SlowTimer, NEW a \in Agents, AgentStep(a)
  PROVE  OneSetup'
<1>0. TypeInv /\ TypeOK /\ ricPc' = ricPc /\ ep_to' = ep_to
  BY DEF IInv, TypeInv, AgentStep, ricVars
<1>1. \A b \in Agents : Telling(b)' <=> Telling(b)
  BY <1>0 DEF Telling
<1>2. CASE StartAgent(a)
  <2>1. /\ agPhase[a] = "init" /\ SendToRic(a, SetupRequest) /\ toAgent' = toAgent
        /\ agPhase' = [agPhase EXCEPT ![a] = "running"]
    BY <1>2 DEF StartAgent
  <2>2. Waiting' = Waiting \cup {a}
    BY <1>0, <1>2, Zenon DEF StartAgent, Waiting, TypeOK, AgentTypeOK
  <2>3. ~Telling(a) /\ \A i \in Nat : ~Asked(a, i) /\ ~Told(a, i)
    BY <2>1 DEF OneSetup
  <2>4. \A b \in Agents : agPhase'[b] = "init" => agPhase[b] = "init" /\ b # a
    BY <1>0, <2>1 DEF TypeOK, AgentTypeOK
  <2> QED BY <1>0, <2>1, <2>2, <2>3, <2>4, AskSetup
<1>3. CASE TimerMayFire(a) /\ SetupTimeout(a)
  <2>1. SendToRic(a, SetupRequest) /\ UNCHANGED <<toAgent, agPhase, agPending>> /\ agPhase[a] = "running"
    BY <1>3 DEF SetupTimeout, agentVars
  <2>2. Waiting' = Waiting \cup {a}
    BY <1>3, Zenon DEF SetupTimeout, Waiting, agentVars
  <2>3. ~Telling(a) /\ \A i \in Nat : ~Asked(a, i) /\ ~Told(a, i)
    BY <1>3 DEF TimerMayFire, SetupUnderWay, Telling, Asked, Told
  <2>4. \A b \in Agents : agPhase'[b] = "init" => agPhase[b] = "init" /\ b # a
    BY <2>1
  <2> QED BY <1>0, <2>1, <2>2, <2>3, <2>4, AskSetup
<1>4. ASSUME NEW m \in ToRicMsg, m.type # "SETUP_REQUEST", SendToRic(a, m),
             UNCHANGED <<agPhase, agPending>>,
             NEW x, \A b \in Agents : \A i \in Nat :
               Told(b, i)' => Before(x, b, i) \in Nat /\ Told(b, Before(x, b, i))
      PROVE  OneSetup'
  <2>1. \A b \in Agents : \A i \in Nat :
          Asked(b, i)' => Before(NoAgent, b, i) \in Nat /\ Asked(b, Before(NoAgent, b, i))
    BY <1>0, <1>4, Unread, SendToRicShape DEF Asked
  <2>2. Waiting' = Waiting /\ \A b \in Agents : agPhase'[b] = agPhase[b]
    BY <1>4 DEF Waiting
  <2> QED BY <1>1, <1>4, <2>1, <2>2, SetupSame
<1>5. ASSUME NEW id \in ind_event[a], IndicationTimeout(a, id) PROVE OneSetup'
  <2>0. id \in RicId
    BY <1>0, IdsTyped
  <2> DEFINE m == [type |-> "INDICATION", id |-> id]
  <2>1. m \in ToRicMsg /\ m.type # "SETUP_REQUEST" /\ SendToRic(a, m)
    BY <1>5, <2>0 DEF IndicationTimeout, ToRicMsg
  <2> HIDE DEF m
  <2>2. UNCHANGED <<toAgent, agPhase, agPending>>
    BY <1>5 DEF IndicationTimeout, agentVars
  <2>3. \A b \in Agents : \A i \in Nat :
          Told(b, i)' => Before(NoAgent, b, i) \in Nat /\ Told(b, Before(NoAgent, b, i))
    BY <2>2, Unread DEF Told
  <2> QED BY <1>4, <2>1, <2>2, <2>3
<1>6. ASSUME NEW t, t # "SETUP_RESPONSE", AgentReads(a, t), UNCHANGED <<agPhase, agPending>>,
             NEW ans \in AnswerTypes,
             SendToRic(a, [type |-> ans, id |-> Head(toAgent[a]).id])
      PROVE  OneSetup'
  <2>0. PICK id \in RicId : id = Head(toAgent[a]).id
    BY <1>0, <1>6, AgentReadType
  <2> DEFINE m == [type |-> ans, id |-> id]
  <2>1. m \in ToRicMsg /\ m.type # "SETUP_REQUEST" /\ SendToRic(a, m)
    BY <1>6, <2>0 DEF ToRicMsg, AnswerTypes
  <2> HIDE DEF m
  <2> QED BY <1>0, <1>4, <1>6, <2>1, ToldBefore
<1>7. ASSUME NEW t, AgentReads(a, t), UNCHANGED <<toRic, agPending>>,
             \A b \in Agents : agPhase'[b] = "init" => agPhase[b] = "init"
      PROVE  OneSetup'
  <2>1. \A b \in Agents : \A i \in Nat :
          Asked(b, i)' => Before(NoAgent, b, i) \in Nat /\ Asked(b, Before(NoAgent, b, i))
    BY <1>7, Unread DEF Asked
  <2>2. Waiting' = Waiting
    BY <1>7 DEF Waiting
  <2> QED BY <1>0, <1>1, <1>7, <2>1, <2>2, ToldBefore, SetupSame
<1>8. CASE HandleSetupResponse(a)
  <2>0. AgentReads(a, "SETUP_RESPONSE") /\ UNCHANGED toRic /\ Told(a, 1)
    <3>1. AgentReads(a, "SETUP_RESPONSE") /\ UNCHANGED toRic
      BY <1>8 DEF HandleSetupResponse
    <3> QED BY <1>0, <3>1, AgentReadShape, AgentReadType DEF Told
  <2>1. a \in Waiting /\ ~Telling(a) /\ \A i \in Nat : ~Asked(a, i) /\ (Told(a, i) => i = 1)
    BY <2>0 DEF OneSetup
  <2>2. UNCHANGED agPhase /\ Waiting' = Waiting \ {a}
    BY <1>0, <1>8, <2>1, Zenon DEF HandleSetupResponse, Waiting, TypeOK, AgentTypeOK
  <2>3. \A b \in Agents : \A i \in Nat :
          /\ Asked(b, i)' <=> Asked(b, i)
          /\ b = a => ~Told(b, i)'
          /\ b # a => (Told(b, i)' => Told(b, i))
    <3>1. \A b \in Agents : \A i \in Nat : Asked(b, i)' <=> Asked(b, i)
      BY <2>0 DEF Asked
    <3>2. \A b \in Agents : \A i \in Nat : b # a => Before(a, b, i) = i
      BY DEF Before
    <3> QED BY <1>0, <2>0, <2>1, <3>1, <3>2, ToldBefore
  <2> QED BY <1>1, <2>1, <2>2, <2>3 DEF OneSetup
<1>9. CASE HandleSubscriptionRequest(a)
  BY <1>6, <1>9 DEF HandleSubscriptionRequest, AnswerTypes
<1>10. CASE HandleControlRequest(a)
  BY <1>6, <1>10 DEF HandleControlRequest, AnswerTypes, agentVars
<1>11. CASE HandleDeleteRequest(a)
  <2>1. CASE Head(toAgent[a]).id \in ind_event[a]
    BY <1>6, <1>11, <2>1 DEF HandleDeleteRequest, AnswerTypes
  <2>2. CASE Head(toAgent[a]).id \notin ind_event[a]
    <3>1. /\ AgentReads(a, "DELETE_REQUEST") /\ UNCHANGED <<toRic, agPending>>
          /\ agPhase' = [agPhase EXCEPT ![a] = "aborted"]
      BY <1>11, <2>2 DEF HandleDeleteRequest, AbortAgent
    <3>2. \A b \in Agents : agPhase'[b] = "init" => agPhase[b] = "init"
      BY <1>0, <3>1 DEF TypeOK, AgentTypeOK
    <3> QED BY <1>7, <3>1, <3>2
  <2> QED BY <2>1, <2>2
<1> QED BY <1>2, <1>3, <1>5, <1>8, <1>9, <1>10, <1>11 DEF AgentStep

LEMMA RicSetup ==
  ASSUME IInv, OneSetup, RicLoopStep
  PROVE  OneSetup'
<1>0. TypeInv /\ TypeOK /\ agPhase' = agPhase /\ Waiting' = Waiting
  BY DEF IInv, TypeInv, RicLoopStep, agentVars, Waiting
<1>1. ASSUME NEW y, ricPc' # "answer" \/ (ricPc' = ricPc /\ ep_to' = ep_to),
             \A b \in Agents : \A i \in Nat :
               Asked(b, i)' => Before(y, b, i) \in Nat /\ Asked(b, Before(y, b, i)),
             toAgent' = toAgent
      PROVE  OneSetup'
  <2>1. \A b \in Agents : \A i \in Nat :
          Told(b, i)' => Before(NoAgent, b, i) \in Nat /\ Told(b, Before(NoAgent, b, i))
    BY <1>1, Unread DEF Told
  <2>2. \A b \in Agents : Telling(b)' => Telling(b)
    BY <1>1 DEF Telling
  <2> QED BY <1>0, <1>1, <2>1, <2>2, SetupSame
<1>2. CASE StartRic \/ PushActive
  <2>1. UNCHANGED <<toRic, toAgent>> /\ (ricPc' # "answer" \/ (ricPc' = ricPc /\ ep_to' = ep_to))
    BY <1>2 DEF StartRic, PushActive, ricVars, channelVars
  <2>2. \A b \in Agents : \A i \in Nat :
          Asked(b, i)' => Before(NoAgent, b, i) \in Nat /\ Asked(b, Before(NoAgent, b, i))
    BY <2>1, Unread DEF Asked
  <2> QED BY <1>1, <2>1, <2>2
<1>3. CASE SendSetupResponse
  <2> DEFINE m == [type |-> "SETUP_RESPONSE", id |-> NoId]
  <2>1. /\ m \in ToAgentMsg /\ SendToAgent(ep_to, m) /\ ricPc = "answer" /\ ricPc' = "poll"
        /\ toRic' = toRic
    BY <1>3 DEF SendSetupResponse, ToAgentMsg
  <2> HIDE DEF m
  <2>2. \A b \in Agents : \A i \in Nat :
          /\ Told(b, i)' => Told(b, i) \/ (b = ep_to /\ i = Len(toAgent[b]) + 1)
          /\ Asked(b, i)' <=> Asked(b, i)
    BY <1>0, <2>1, SendToAgentShape DEF Told, Asked
  <2>3. \A b \in Agents : ~Telling(b)' /\ (b = ep_to => Telling(b))
    BY <2>1 DEF Telling
  <2> QED BY <1>0, <2>2, <2>3 DEF OneSetup
<1>4. ASSUME NEW a \in Agents, HandleSetupRequest(a) PROVE OneSetup'
  <2>1. /\ RicReads(a, "SETUP_REQUEST") /\ ricPc' = "answer" /\ ep_to' = a /\ toAgent' = toAgent
    BY <1>4 DEF HandleSetupRequest, RicReads
  <2>2. Asked(a, 1)
    BY <1>0, <2>1, RicReadShape, RicReadType DEF Asked
  <2>3. \A b \in Agents : \A i \in Nat :
          /\ b = a => ~Asked(b, i)'
          /\ b # a => (Asked(b, i)' => Asked(b, i))
          /\ Told(b, i)' <=> Told(b, i)
    <3>1. \A b \in Agents : \A i \in Nat : b # a => Before(a, b, i) = i
      BY DEF Before
    <3>2. \A i \in Nat : Asked(a, i) => i = 1
      BY <2>2 DEF OneSetup
    <3>3. \A b \in Agents : \A i \in Nat : Told(b, i)' <=> Told(b, i)
      BY <2>1 DEF Told
    <3> QED BY <1>0, <2>1, <3>1, <3>2, <3>3, AskedBefore
  <2>4. \A b \in Agents : (Telling(b)' <=> b = a) /\ ~Telling(b)
    BY <1>0, <2>1, RicReadType DEF Telling
  <2>5. a \in Waiting /\ agPhase[a] # "init" /\ \A i \in Nat : ~Told(a, i)
    BY <2>2 DEF OneSetup
  <2> QED BY <1>0, <2>3, <2>4, <2>5 DEF OneSetup
<1>5. ASSUME NEW a \in Agents, NEW t, RicReads(a, t), toAgent' = toAgent, ricPc' # "answer"
      PROVE  OneSetup'
  BY <1>0, <1>1, <1>5, AskedBefore
<1>6. ASSUME NEW a \in Agents,
             \/ HandleSubscriptionResponse(a) \/ HandleDeleteResponse(a)
             \/ HandleControlAck(a) \/ HandleIndication(a)
      PROVE  OneSetup'
  <2>1. /\ toAgent' = toAgent /\ ricPc' # "answer"
        /\ \E t : RicReads(a, t)
    BY <1>6 DEF HandleSubscriptionResponse, HandleDeleteResponse, HandleControlAck,
                HandleIndication, RicReads
  <2> QED BY <1>5, <2>1
<1> QED BY <1>2, <1>3, <1>4, <1>6 DEF RicLoopStep

LEMMA ApiSetup ==
  ASSUME IInv, OneSetup, NEW t \in Threads,
         (\E f \in RanFuncs : ApiCall(t, f)) \/ ApiStep(t)
  PROVE  OneSetup'
<1>0. TypeInv /\ TypeOK /\ UNCHANGED <<toRic, ricPc, ep_to, agPhase>> /\ Waiting' = Waiting
  BY DEF IInv, TypeInv, ApiCall, ApiStep, ReportService, ControlService, RmReportFind,
         RmReportUse, InsertPending, SendRequest, channelVars, agentVars, Waiting
<1>1. SUFFICES \A b \in Agents : \A i \in Nat : Told(b, i)' => Told(b, i)
  <2>1. \A b \in Agents : (Telling(b)' <=> Telling(b)) /\ \A i \in Nat : Asked(b, i)' <=> Asked(b, i)
    BY <1>0 DEF Telling, Asked
  <2> QED BY <1>0, <1>1, <2>1, Unread, SetupSame
<1>2. CASE toAgent' = toAgent
  BY <1>2 DEF Told
<1>3. CASE SendRequest(t)
  <2> PICK id \in RicId, ev \in Events : id = api[t].id /\ ev = api[t].ev
    BY <1>0, <1>3, ApiHolds DEF SendRequest
  <2> DEFINE m == [type |-> RequestOf(ev), id |-> id]
  <2>1. m \in ToAgentMsg /\ m.type = RequestOf(ev) /\ SendToAgent(ep_to, m)
    BY <1>3, RequestType DEF SendRequest
  <2>2. m.type # "SETUP_RESPONSE"
    BY <2>1 DEF RequestOf, Events, SubEv, DelEv, CtrlEv
  <2> HIDE DEF m
  <2> QED BY <1>0, <2>1, <2>2, SendToAgentShape DEF Told
<1> QED
  BY <1>2, <1>3 DEF ApiCall, ApiStep, ReportService, ControlService, RmReportFind,
         RmReportUse, InsertPending, channelVars

-----------------------------------------------------------------------------
(***************************************************************************)
(* One removal at a time, of what is there to be removed.                  *)
(***************************************************************************)

(* A thread outside a call removes nothing; one that holds an iterator does. *)
LEMMA RemovingPc ==
  ASSUME TypeOK, NEW t \in Threads
  PROVE  /\ api[t].pc = "idle" => ~Removing(t)
         /\ api[t].pc = "use" => Removing(t)
         /\ api[t].pc \in {"idle", "use", "insert", "send"}
<1>1. api[t] \in ApiState
  BY DEF TypeOK, RicTypeOK
<1> QED BY <1>1 DEF ApiState, Idle, Removing, SubEv, DelEv

\* After a step the removals in the agents' queues are those that were there,
\* further ahead in the queue of x; the answers to removals likewise, with y.
RemovalsMoved(x) ==
  \A b \in Agents : \A i \in Nat : QueuedDel(b, i)' =>
    /\ Before(x, b, i) \in Nat /\ QueuedDel(b, Before(x, b, i))
    /\ toAgent'[b][i].id = toAgent[b][Before(x, b, i)].id

DeletedMoved(y) ==
  \A b \in Agents : \A i \in Nat : Deleted(b, i)' =>
    /\ Before(y, b, i) \in Nat /\ Deleted(b, Before(y, b, i))
    /\ toRic'[b][i].id = toRic[b][Before(y, b, i)].id

(* A step after which the same threads remove the same, what was removable is, *)
(* and queues have shifted at most.                                            *)
LEMMA RemovalsKept ==
  ASSUME RemovalsRight, NEW x, NEW y, RemovalsMoved(x), DeletedMoved(y),
         \A t \in Threads : (Removing(t)' <=> Removing(t)) /\ (Removing(t) => Target(t)' = Target(t)),
         \A id : (Removable(id) => Removable(id)') /\ Removals(id)' = Removals(id),
         \A id \in closed' : Removals(id) > 0
  PROVE  RemovalsRight'
<1>1. ASSUME NEW t \in Threads, Removing(t)' PROVE Removable(Target(t))'
  <2>1. PICK id : id = Target(t)
    OBVIOUS
  <2>2. Removable(id)' /\ Target(t)' = id
    BY <1>1, <2>1 DEF RemovalsRight
  <2> QED BY <2>2
<1>2. ASSUME NEW a \in Agents, NEW i \in Nat, QueuedDel(a, i)' PROVE Removable(toAgent[a][i].id)'
  <2>1. PICK id : id = toAgent'[a][i].id
    OBVIOUS
  <2>2. Removable(id)'
    BY <1>2, <2>1 DEF RemovalsRight, RemovalsMoved
  <2> QED BY <2>1, <2>2
<1>3. \A b \in Agents : \A z : \A i, j \in Nat : Before(z, b, i) = Before(z, b, j) => i = j
  BY DEF Before
<1>4. /\ \A a \in Agents : \A i \in Nat : QueuedDel(a, i)' => \A t \in Threads : ~Removing(t)'
      /\ \A a, b \in Agents : \A i, j \in Nat : QueuedDel(a, i)' /\ QueuedDel(b, j)' => a = b /\ i = j
  BY <1>3 DEF RemovalsRight, RemovalsMoved
<1>5. /\ \A a \in Agents : \A i \in Nat : Deleted(a, i)' => Removals(toRic[a][i].id)' > 0
      /\ \A id \in closed' : Removals(id)' > 0
  BY DEF RemovalsRight, DeletedMoved
<1> QED BY <1>1, <1>2, <1>4, <1>5 DEF RemovalsRight

(* Nothing was read: nothing has moved. *)
LEMMA NothingMoved ==
  /\ toAgent' = toAgent => RemovalsMoved(NoAgent)
  /\ toRic' = toRic => DeletedMoved(NoAgent)
BY Unread DEF RemovalsMoved, DeletedMoved, QueuedDel, Deleted

(* A step that touches no removal keeps them, although queues may shift. *)
LEMMA RemovalsSame ==
  ASSUME IteratorsRight, RemovalsRight, NEW x, NEW y,
         UNCHANGED <<api, calls, closed, act_cap, act_req>>, pending' \subseteq pending,
         ricPc' = "push" => ricPc = "push" \/ pending # {},
         RemovalsMoved(x), DeletedMoved(y)
  PROVE  IteratorsRight' /\ RemovalsRight'
<1>1. IteratorsRight'
  BY DEF IteratorsRight
<1>2. \A t \in Threads : (Removing(t)' <=> Removing(t)) /\ (Removing(t) => Target(t)' = Target(t))
  BY DEF Removing, Target
<1>3. \A id : Removals(id)' = Removals(id) /\ (IsActive(id)' <=> IsActive(id))
  BY DEF Removals, IsActive
<1>4. \A id : Removable(id) => Removable(id)'
  BY <1>3 DEF Removable, DeletedMoved
<1>5. \A id \in closed' : Removals(id) > 0
  BY DEF RemovalsRight
<1> QED BY <1>1, <1>2, <1>3, <1>4, <1>5, RemovalsKept

LEMMA QueuedDelBefore ==
  ASSUME TypeInv, NEW a \in Agents, NEW t, AgentReads(a, t)
  PROVE  \A b \in Agents : \A i \in Nat : QueuedDel(b, i)' =>
           /\ Before(a, b, i) \in Nat /\ QueuedDel(b, Before(a, b, i))
           /\ toAgent'[b][i].id = toAgent[b][Before(a, b, i)].id
           /\ b = a => Before(a, b, i) # 1
BY AgentReadShape DEF QueuedDel, Before

LEMMA DeletedBefore ==
  ASSUME TypeInv, NEW a \in Agents, NEW t, RicReads(a, t)
  PROVE  DeletedMoved(a)
BY RicReadShape DEF DeletedMoved, Deleted, Before

(* The agent serves the one removal under way.  *)
LEMMA ServeRemoval ==
  ASSUME TypeInv, IteratorsRight, RemovalsRight, NEW a \in Agents, NEW h \in RicId,
         AgentReads(a, "DELETE_REQUEST"), Head(toAgent[a]).id = h,
         SendToRic(a, [type |-> "DELETE_RESPONSE", id |-> h]), UNCHANGED <<ricVars, calls>>
  PROVE  IteratorsRight' /\ RemovalsRight'
<1>0. UNCHANGED <<api, closed, act_cap, act_req, pending, ricPc>>
  BY DEF ricVars
<1>1. QueuedDel(a, 1) /\ toAgent[a][1].id = h
  BY AgentReadShape, AgentReadType DEF QueuedDel
<1>2. /\ \A t \in Threads : ~Removing(t)
      /\ Removals(h) > 0
      /\ \A b \in Agents : \A i \in Nat : QueuedDel(b, i) => b = a /\ i = 1
  BY <1>1 DEF RemovalsRight, Removable
<1>3. \A b \in Agents : \A i \in Nat : ~QueuedDel(b, i)'
  <2>1. \A b \in Agents : \A i \in Nat : b # a => Before(a, b, i) = i
    BY DEF Before
  <2> QED BY <1>2, <2>1, QueuedDelBefore
<1>4. \A b \in Agents : \A i \in Nat : Deleted(b, i)' =>
        (Deleted(b, i) /\ toRic'[b][i].id = toRic[b][i].id) \/ toRic'[b][i].id = h
  <2> DEFINE m == [type |-> "DELETE_RESPONSE", id |-> h]
  <2>1. m \in ToRicMsg /\ m.id = h /\ SendToRic(a, m)
    BY DEF ToRicMsg
  <2> HIDE DEF m
  <2> QED BY <2>1, SendToRicShape DEF Deleted, TypeInv
<1>5. IteratorsRight'
  BY <1>0 DEF IteratorsRight
<1>6. \A t \in Threads : ~Removing(t)'
  BY <1>0, <1>2 DEF Removing
<1>7. \A id : Removals(id)' = Removals(id)
  BY DEF Removals
<1>8. /\ \A b \in Agents : \A i \in Nat : Deleted(b, i)' => Removals(toRic[b][i].id)' > 0
      /\ \A id \in closed' : Removals(id)' > 0
  BY <1>0, <1>2, <1>4, <1>7 DEF RemovalsRight
<1> QED BY <1>3, <1>5, <1>6, <1>8 DEF RemovalsRight

LEMMA AgentRemovals ==
  ASSUME IInv, IteratorsRight, RemovalsRight, NEW a \in Agents, AgentStep(a)
  PROVE  IteratorsRight' /\ RemovalsRight'
<1>0. /\ TypeInv /\ TypeOK /\ UNCHANGED <<ricVars, calls>>
      /\ UNCHANGED <<api, calls, closed, act_cap, act_req>> /\ pending' \subseteq pending
      /\ ricPc' = "push" => ricPc = "push" \/ pending # {}
  BY DEF IInv, TypeInv, AgentStep, ricVars
<1>1. ASSUME NEW x, NEW m \in ToRicMsg, m.type # "DELETE_RESPONSE", SendToRic(a, m),
             RemovalsMoved(x)
      PROVE  IteratorsRight' /\ RemovalsRight'
  <2>1. DeletedMoved(NoAgent)
    BY <1>0, <1>1, Unread, SendToRicShape DEF Deleted, DeletedMoved
  <2> QED BY <1>0, <1>1, <2>1, RemovalsSame
<1>2. ASSUME NEW m \in ToRicMsg, m.type # "DELETE_RESPONSE", SendToRic(a, m), toAgent' = toAgent
      PROVE  IteratorsRight' /\ RemovalsRight'
  <2>1. RemovalsMoved(NoAgent)
    BY <1>2, Unread DEF QueuedDel, RemovalsMoved
  <2> QED BY <1>1, <1>2, <2>1
<1>3. CASE StartAgent(a) \/ SetupTimeout(a)
  <2>1. SetupRequest \in ToRicMsg /\ SetupRequest.type # "DELETE_RESPONSE"
    BY DEF SetupRequest, ToRicMsg
  <2>2. SendToRic(a, SetupRequest) /\ toAgent' = toAgent
    BY <1>3 DEF StartAgent, SetupTimeout
  <2> QED BY <1>2, <2>1, <2>2
<1>4. ASSUME NEW id \in ind_event[a], IndicationTimeout(a, id)
      PROVE  IteratorsRight' /\ RemovalsRight'
  <2>0. id \in RicId
    BY <1>0, IdsTyped
  <2> DEFINE m == [type |-> "INDICATION", id |-> id]
  <2>1. m \in ToRicMsg /\ m.type # "DELETE_RESPONSE" /\ SendToRic(a, m) /\ toAgent' = toAgent
    BY <1>4, <2>0 DEF IndicationTimeout, ToRicMsg
  <2> HIDE DEF m
  <2> QED BY <1>2, <2>1
<1>5. ASSUME NEW t, t # "SETUP_RESPONSE", AgentReads(a, t), NEW ans \in NewAns,
             SendToRic(a, [type |-> ans, id |-> Head(toAgent[a]).id])
      PROVE  IteratorsRight' /\ RemovalsRight'
  <2>0. PICK id \in RicId : id = Head(toAgent[a]).id
    BY <1>0, <1>5, AgentReadType
  <2> DEFINE m == [type |-> ans, id |-> id]
  <2>1. m \in ToRicMsg /\ m.type # "DELETE_RESPONSE" /\ SendToRic(a, m)
    BY <1>5, <2>0 DEF ToRicMsg, NewAns
  <2> HIDE DEF m
  <2>2. RemovalsMoved(a)
    BY <1>0, <1>5, QueuedDelBefore DEF RemovalsMoved
  <2> QED BY <1>1, <2>1, <2>2
<1>6. ASSUME NEW t, AgentReads(a, t), toRic' = toRic
      PROVE  IteratorsRight' /\ RemovalsRight'
  <2>1. DeletedMoved(NoAgent)
    BY <1>6, Unread DEF Deleted, DeletedMoved
  <2>2. RemovalsMoved(a)
    BY <1>0, <1>6, QueuedDelBefore DEF RemovalsMoved
  <2> QED BY <1>0, <2>1, <2>2, RemovalsSame
<1>7. CASE HandleSetupResponse(a)
  BY <1>6, <1>7 DEF HandleSetupResponse
<1>8. CASE HandleSubscriptionRequest(a)
  BY <1>5, <1>8 DEF HandleSubscriptionRequest, NewAns
<1>9. CASE HandleControlRequest(a)
  BY <1>5, <1>9 DEF HandleControlRequest, NewAns
<1>10. CASE HandleDeleteRequest(a)
  <2>1. AgentReads(a, "DELETE_REQUEST")
    BY <1>10 DEF HandleDeleteRequest
  <2>2. PICK h \in RicId : h = Head(toAgent[a]).id
    BY <1>0, <2>1, AgentReadType
  <2>3. toRic' = toRic \/ SendToRic(a, [type |-> "DELETE_RESPONSE", id |-> h])
    BY <1>10, <2>2 DEF HandleDeleteRequest
  <2> QED BY <1>0, <1>6, <2>1, <2>2, <2>3, ServeRemoval
<1> QED BY <1>3, <1>4, <1>7, <1>8, <1>9, <1>10 DEF AgentStep

LEMMA RicRemovals ==
  ASSUME IInv, IInv', IteratorsRight, RemovalsRight, RicLoopStep
  PROVE  IteratorsRight' /\ RemovalsRight'
<1>0. TypeInv /\ TypeOK /\ TypeOK' /\ Books /\ UNCHANGED <<api, calls>>
  <2>1. api' = api
    BY DEF RicLoopStep, StartRic, SendSetupResponse, PushActive, HandleSetupRequest, ricVars,
           HandleSubscriptionResponse, HandleDeleteResponse, HandleControlAck, HandleIndication
  <2> QED BY <2>1 DEF IInv, TypeInv, RicLoopStep, Books
<1>1. ASSUME UNCHANGED <<closed, act_cap, act_req, toAgent>>, pending' \subseteq pending,
             ricPc' = "push" => ricPc = "push" \/ pending # {},
             NEW y, DeletedMoved(y)
      PROVE  IteratorsRight' /\ RemovalsRight'
  <2>1. RemovalsMoved(NoAgent)
    BY <1>1, Unread DEF QueuedDel, RemovalsMoved
  <2> QED BY <1>0, <1>1, <2>1, RemovalsSame
<1>2. CASE StartRic
  <2>1. /\ UNCHANGED <<closed, act_cap, act_req, toAgent, toRic>> /\ pending' \subseteq pending
        /\ ricPc' = "push" => ricPc = "push" \/ pending # {}
    BY <1>2 DEF StartRic, ricVars
  <2>2. DeletedMoved(NoAgent)
    BY <2>1, Unread DEF Deleted, DeletedMoved
  <2> QED BY <1>1, <2>1, <2>2
<1>3. CASE SendSetupResponse
  <2> DEFINE m == [type |-> "SETUP_RESPONSE", id |-> NoId]
  <2>1. /\ UNCHANGED <<closed, act_cap, act_req, toRic>> /\ pending' \subseteq pending
        /\ ricPc' = "push" => ricPc = "push" \/ pending # {}
        /\ m \in ToAgentMsg /\ m.type = "SETUP_RESPONSE" /\ SendToAgent(ep_to, m)
    BY <1>3 DEF SendSetupResponse, ToAgentMsg
  <2> HIDE DEF m
  <2>2. DeletedMoved(NoAgent)
    BY <2>1, Unread DEF Deleted, DeletedMoved
  <2>3. RemovalsMoved(NoAgent)
    BY <1>0, <2>1, Unread, SendToAgentShape DEF QueuedDel, RemovalsMoved
  <2> QED BY <1>0, <2>1, <2>2, <2>3, RemovalsSame
<1>4. CASE PushActive
  <2>1. /\ UNCHANGED <<closed, toAgent, toRic, pending>> /\ ricPc = "push" /\ ricPc' = "poll"
        /\ act_req' = Append(act_req, ricId) /\ act_req \in Seq(RicId) /\ ricId \in RicId
    BY <1>0, <1>4 DEF PushActive, channelVars, TypeOK, RicTypeOK
  <2>2. \A t \in Threads : api[t].pc # "use"
    BY <2>1 DEF IteratorsRight
  <2>3. IteratorsRight'
    BY <1>0, <2>2 DEF IteratorsRight
  <2>4. \A id : IsActive(id) => IsActive(id)'
    BY <2>1 DEF IsActive
  <2>5. \A id : Removable(id) => Removable(id)'
    BY <1>0, <2>1, <2>4 DEF Removable, Removals, Deleted
  <2>6. \A t \in Threads : (Removing(t)' <=> Removing(t)) /\ (Removing(t) => Target(t)' = Target(t))
    BY <1>0, <2>2 DEF Removing, Target
  <2>7. \A id : Removals(id)' = Removals(id)
    BY <1>0 DEF Removals
  <2>8. \A id \in closed' : Removals(id) > 0
    BY <2>1 DEF RemovalsRight
  <2> QED BY <2>1, <2>3, <2>5, <2>6, <2>7, <2>8, NothingMoved, RemovalsKept
<1>5. ASSUME NEW a \in Agents, HandleSetupRequest(a) \/ HandleIndication(a)
      PROVE  IteratorsRight' /\ RemovalsRight'
  <2>1. /\ UNCHANGED <<closed, act_cap, act_req, toAgent>> /\ pending' \subseteq pending
        /\ ricPc' = "push" => ricPc = "push" \/ pending # {}
    BY <1>5 DEF HandleSetupRequest, HandleIndication
  <2>2. \E t : RicReads(a, t)
    BY <1>5 DEF HandleSetupRequest, HandleIndication
  <2>3. DeletedMoved(a)
    BY <1>0, <2>2, DeletedBefore
  <2> QED BY <1>1, <2>1, <2>3
<1>6. ASSUME NEW a \in Agents, NEW t \in AnswerTypes, RicReads(a, t),
             StopPending(EventOf(t), Head(toRic[a]).id)
      PROVE  pending' \subseteq pending /\ pending # {}
  <2>1. 1 \in DOMAIN toRic[a] /\ toRic[a][1] = Head(toRic[a]) /\ Head(toRic[a]).type = t
    BY <1>0, <1>6, RicReadShape, RicReadType
  <2>2. HasEntry(EventOf(t), Head(toRic[a]).id)
    BY <1>0, <1>6, <2>1 DEF Books, AnswersHaveEntries
  <2> QED BY <1>6, <2>2 DEF StopPending, HasEntry
<1>7. ASSUME NEW a \in Agents, HandleSubscriptionResponse(a) \/ HandleControlAck(a)
      PROVE  IteratorsRight' /\ RemovalsRight'
  <2>1. UNCHANGED <<closed, act_cap, act_req, toAgent>>
    BY <1>7 DEF HandleSubscriptionResponse, HandleControlAck
  <2>2. \E t \in AnswerTypes : RicReads(a, t) /\ StopPending(EventOf(t), Head(toRic[a]).id)
    BY <1>7 DEF HandleSubscriptionResponse, HandleControlAck, AnswerTypes, EventOf
  <2>3. DeletedMoved(a)
    BY <1>0, <2>2, DeletedBefore
  <2>4. pending' \subseteq pending /\ pending # {}
    BY <1>6, <2>2
  <2> QED BY <1>1, <2>1, <2>3, <2>4
<1>8. ASSUME NEW a \in Agents, HandleDeleteResponse(a)
      PROVE  IteratorsRight' /\ RemovalsRight'
  <2>1. /\ UNCHANGED <<act_cap, act_req, toAgent, ricPc>> /\ RicReads(a, "DELETE_RESPONSE")
        /\ closed' = closed \cup {Head(toRic[a]).id}
    BY <1>8 DEF HandleDeleteResponse
  <2>2. "DELETE_RESPONSE" \in AnswerTypes /\ StopPending(EventOf("DELETE_RESPONSE"), Head(toRic[a]).id)
    BY <1>8 DEF HandleDeleteResponse, AnswerTypes, EventOf
  <2>3. pending' \subseteq pending
    BY <1>6, <2>1, <2>2
  <2>4. PICK h : h = Head(toRic[a]).id
    OBVIOUS
  <2>h. Deleted(a, 1) /\ toRic[a][1].id = h
    BY <1>0, <2>1, <2>4, RicReadShape, RicReadType DEF Deleted
  <2>5. DeletedMoved(a)
    BY <1>0, <2>1, DeletedBefore
  <2>6. IteratorsRight'
    BY <1>0, <2>1, <2>3 DEF IteratorsRight
  <2>7. \A id : Removals(id)' = Removals(id) /\ (IsActive(id)' <=> IsActive(id))
    BY <1>0, <2>1 DEF Removals, IsActive
  <2>8. \A id : Removable(id) => Removable(id)'
    BY <2>1, <2>4, <2>5, <2>h, <2>7 DEF Removable, DeletedMoved
  <2>9. \A t \in Threads : (Removing(t)' <=> Removing(t)) /\ (Removing(t) => Target(t)' = Target(t))
    BY <1>0, <2>1 DEF Removing, Target
  <2>10. \A id \in closed' : Removals(id) > 0
    BY <2>1, <2>4, <2>h DEF RemovalsRight
  <2> QED BY <2>1, <2>5, <2>6, <2>7, <2>8, <2>9, <2>10, NothingMoved, RemovalsKept
<1> QED BY <1>2, <1>3, <1>4, <1>5, <1>7, <1>8 DEF RicLoopStep

(* What a paced caller finds when it starts a call: nothing is under way. *)
LEMMA CallerFinds ==
  ASSUME TypeOK, SlowCallers, NEW k, NEW f, CallerReady(k, f)
  PROVE  /\ calls[k][f] < MaxCalls(k) /\ pending = {} /\ ricPc = "poll"
         /\ \A t \in Threads : api[t].pc = "idle" /\ ~Removing(t)
         /\ \A a \in Agents : \A i \in Nat : ~QueuedDel(a, i)
         /\ k = "control" => f \in CtrlFuncs
         /\ k = "remove" => calls["remove"][f] < calls["report"][f]
BY RemovingPc DEF CallerReady, QueuedDel

(* A report or a control is prepared: no removal is under way, before and     *)
(* after.                                                                     *)
LEMMA NewRequestRemovals ==
  ASSUME TypeOK, IteratorsRight, RemovalsRight, NEW t \in Threads, NEW f \in RanFuncs,
         NEW ev \in Events, ev # DelEv, NewRequest(t, ev, f),
         \A u \in Threads : api[u].pc = "idle" /\ ~Removing(u),
         \A a \in Agents : \A i \in Nat : ~QueuedDel(a, i),
         UNCHANGED <<toAgent, toRic, closed>>, calls'["remove"] = calls["remove"]
  PROVE  IteratorsRight' /\ RemovalsRight'
<1>1. PICK r : r = [ric_req_id |-> req_id, ran_func_id |-> f]
  OBVIOUS
<1>2. PICK fd \in Fds : api' = [api EXCEPT ![t] = Prepared(ev, r, fd)]
  BY <1>1, NewRequestType
<1>3. /\ api'[t].pc = "insert" /\ api'[t].ev = ev
      /\ \A u \in Threads : u # t => api'[u] = api[u]
  BY <1>2 DEF Prepared, TypeOK, RicTypeOK
<1>4. IteratorsRight'
  BY <1>3 DEF IteratorsRight
<1>5. \A u \in Threads : ~Removing(u)'
  BY <1>3 DEF Removing
<1>6. \A a \in Agents : \A i \in Nat : ~QueuedDel(a, i)' /\ (Deleted(a, i)' <=> Deleted(a, i))
  BY DEF QueuedDel, Deleted
<1>7. \A id : Removals(id)' = Removals(id)
  BY DEF Removals
<1> QED BY <1>4, <1>5, <1>6, <1>7 DEF RemovalsRight

(* The RIC looks for a report to remove: there is one, and it has not been     *)
(* removed.                                                                   *)
LEMMA FindRemovals ==
  ASSUME TypeOK, IteratorsRight, RemovalsRight, ReportsRight, MaxReports <= 1, SlowCallers,
         NEW t \in Threads, NEW f \in RanFuncs, CallerReady("remove", f),
         RmReportFind(t, f), Called("remove", f)
  PROVE  IteratorsRight' /\ RemovalsRight'
<1>0. /\ UNCHANGED <<toAgent, toRic, closed, act_req, act_cap, pending, ricPc>>
      /\ calls \in [Kinds -> [RanFuncs -> Nat]] /\ act_req \in Seq(RicId) /\ closed \subseteq RicId
      /\ calls'["remove"] = [calls["remove"] EXCEPT ![f] = @ + 1]
  BY DEF RmReportFind, channelVars, TypeOK, RicTypeOK, Called, Kinds
<1>1. /\ pending = {} /\ ricPc = "poll" /\ calls["remove"][f] < calls["report"][f]
      /\ \A u \in Threads : api[u].pc = "idle" /\ ~Removing(u)
      /\ \A a \in Agents : \A i \in Nat : ~QueuedDel(a, i)
  BY CallerFinds
<1>2. calls["remove"][f] = 0 /\ calls["report"][f] > 0
  <2>1. calls["report"][f] <= MaxReports /\ MaxReports \in Nat
    BY BoundsAssumption DEF ReportsRight
  <2>2. calls["remove"][f] \in Nat /\ calls["report"][f] \in Nat
    BY <1>0 DEF Kinds
  <2> QED BY <1>1, <2>1, <2>2
<1>3. PICK r \in RicId : r.ran_func_id = f /\ IsActive(r)
  BY <1>1, <1>2 DEF ReportsRight, Reported, Confirmed, HasEntry
<1>4. PICK i \in {0} \cup DOMAIN act_req :
        /\ FindActive(f, i)
        /\ api' = [api EXCEPT ![t] = [pc |-> "use", ev |-> DelEv, id |-> NoId,
                                      fd |-> 0, idx |-> i, cap |-> act_cap]]
  BY DEF RmReportFind
<1>5. i \in DOMAIN act_req /\ act_req[i].ran_func_id = f
  BY <1>3, <1>4 DEF FindActive, IsActive
<1>6. /\ api'[t].pc = "use" /\ api'[t].idx = i /\ api'[t].cap = act_cap
      /\ \A u \in Threads : u # t => api'[u] = api[u]
  BY <1>4 DEF TypeOK, RicTypeOK
<1>7. IteratorsRight'
  BY <1>0, <1>1, <1>5, <1>6 DEF IteratorsRight
<1>8. \A u \in Threads : Removing(u)' => u = t
  BY <1>1, <1>6 DEF Removing
<1>9. \A id \in RicId : Removals(id) \in Nat /\ Removals(id)' \in Nat
                        /\ (Removals(id) > 0 => Removals(id)' > 0)
  <2>1. \A id \in RicId : id.ran_func_id \in RanFuncs
    BY DEF RicId
  <2>2. \A g \in RanFuncs : /\ calls["remove"][g] \in Nat
                            /\ calls'["remove"][g] = IF g = f THEN calls["remove"][g] + 1 ELSE calls["remove"][g]
    BY <1>0 DEF Kinds
  <2> QED BY <2>1, <2>2 DEF Removals
<1>10. PICK x \in RicId : x = act_req[i]
  BY <1>0, <1>5
<1>11. Removals(x) = 0 /\ Removals(x)' > 0
  <2>1. Removals(x) = 0
    BY <1>2, <1>5, <1>10 DEF Removals
  <2>2. Removals(x)' = calls["remove"][f] + 1
    BY <1>0, <1>5, <1>10 DEF Removals, Kinds
  <2> QED BY <1>2, <2>1, <2>2
<1>12. Removable(x)'
  <2>1. x \notin closed /\ \A a \in Agents : \A j \in Nat : Deleted(a, j) => toRic[a][j].id # x
    BY <1>11 DEF RemovalsRight
  <2> QED BY <1>0, <1>5, <1>10, <1>11, <2>1 DEF Removable, IsActive, Deleted
<1>13. Target(t)' = x
  BY <1>0, <1>6, <1>10 DEF Target
<1>14. \A a \in Agents : \A j \in Nat : ~QueuedDel(a, j)' /\ (Deleted(a, j)' <=> Deleted(a, j))
  BY <1>0, <1>1 DEF QueuedDel, Deleted
<1>15. /\ \A a \in Agents : \A j \in Nat : Deleted(a, j)' => Removals(toRic[a][j].id)' > 0
       /\ \A id \in closed' : Removals(id)' > 0
  <2>1. \A a \in Agents : \A j \in Nat : Deleted(a, j) => toRic[a][j].id \in RicId
    BY DEF Deleted, TypeOK, ChannelTypeOK, ToRicMsg
  <2> QED BY <1>0, <1>9, <1>14, <2>1 DEF RemovalsRight
<1>16. \A u \in Threads : Removing(u)' => Removable(Target(u))'
  BY <1>8, <1>12, <1>13
<1> QED BY <1>7, <1>14, <1>15, <1>16 DEF RemovalsRight

(* The iterator is used: it points to what was found. *)
LEMMA UseRemovals ==
  ASSUME TypeInv, IteratorsRight, RemovalsRight, NEW t \in Threads, RmReportUse(t), calls' = calls
  PROVE  IteratorsRight' /\ RemovalsRight' /\ UNCHANGED ricPhase
<1>0. TypeOK /\ UNCHANGED <<toAgent, toRic, closed, act_req, act_cap, pending, ricPc>>
  BY DEF RmReportUse, TypeInv
<1>1. /\ api[t].pc = "use" /\ api[t].cap = act_cap /\ api[t].idx \in DOMAIN act_req
      /\ act_req \in Seq(RicId) /\ Removing(t)
  BY <1>0, RemovingPc DEF RmReportUse, IteratorsRight, TypeOK, RicTypeOK
<1>2. api[t].idx # 0
  BY <1>1
<1>3. PICK fd \in Fds, id \in RicId :
        id = act_req[api[t].idx] /\ api' = [api EXCEPT ![t] = Prepared(DelEv, id, fd)]
  BY <1>1, <1>2 DEF RmReportUse
<1>4. UNCHANGED ricPhase
  BY <1>1, <1>2 DEF RmReportUse
<1>5. /\ api'[t].pc = "insert" /\ api'[t].ev = DelEv /\ api'[t].id = id
      /\ \A u \in Threads : u # t => api'[u] = api[u]
  BY <1>0, <1>3 DEF Prepared, TypeOK, RicTypeOK
<1>6. IteratorsRight'
  BY <1>0, <1>1, <1>5 DEF IteratorsRight
<1>7. \A u \in Threads : (Removing(u)' <=> Removing(u)) /\ (Removing(u) => Target(u)' = Target(u))
  BY <1>0, <1>1, <1>3, <1>5 DEF Removing, Target
<1>8. \A x : (Removable(x) => Removable(x)') /\ Removals(x)' = Removals(x)
  BY <1>0 DEF Removable, Removals, IsActive, Deleted
<1>9. \A x \in closed' : Removals(x) > 0
  BY <1>0 DEF RemovalsRight
<1> QED BY <1>0, <1>4, <1>6, <1>7, <1>8, <1>9, NothingMoved, RemovalsKept

LEMMA InsertRemovals ==
  ASSUME TypeInv, IteratorsRight, RemovalsRight, NEW t \in Threads, InsertPending(t), calls' = calls
  PROVE  IteratorsRight' /\ RemovalsRight'
<1>0. /\ TypeOK /\ UNCHANGED <<toAgent, toRic, closed, act_req, act_cap, ricPc>>
      /\ api[t].pc = "insert"
  BY DEF InsertPending, TypeInv, channelVars
<1>1. api[t] \in ApiState /\ api'[t] = [api[t] EXCEPT !.pc = "send"]
  BY <1>0 DEF InsertPending, TypeOK, RicTypeOK
<1>2. api'[t].ev = api[t].ev /\ api'[t].id = api[t].id /\ api'[t].pc = "send"
  BY <1>1 DEF ApiState, Idle
<1>3. \A u \in Threads : u # t => api'[u] = api[u]
  BY <1>0 DEF InsertPending, TypeOK, RicTypeOK
<1>4. \A u \in Threads : api[u].pc # "use"
  BY <1>0 DEF IteratorsRight
<1>5. IteratorsRight'
  BY <1>0, <1>2, <1>3, <1>4 DEF IteratorsRight
<1>7. \A u \in Threads : (Removing(u)' <=> Removing(u)) /\ (Removing(u) => Target(u)' = Target(u))
  BY <1>0, <1>2, <1>3, <1>4 DEF Removing, Target
<1>8. \A x : (Removable(x) => Removable(x)') /\ Removals(x)' = Removals(x)
  BY <1>0 DEF Removable, Removals, IsActive, Deleted
<1>9. \A x \in closed' : Removals(x) > 0
  BY <1>0 DEF RemovalsRight
<1> QED BY <1>0, <1>5, <1>7, <1>8, <1>9, NothingMoved, RemovalsKept

(* The removal leaves its thread and is queued, alone. *)
LEMMA SendRemovals ==
  ASSUME TypeInv, IteratorsRight, RemovalsRight, NEW t \in Threads, SendRequest(t), calls' = calls
  PROVE  IteratorsRight' /\ RemovalsRight'
<1>0. /\ TypeOK /\ UNCHANGED <<toRic, closed, act_req, act_cap, pending, ricPc>>
      /\ api[t].pc = "send" /\ api'[t] = Idle
      /\ \A u \in Threads : u # t => api'[u] = api[u]
  BY DEF SendRequest, TypeInv, TypeOK, RicTypeOK
<1>1. \A u \in Threads : ~Removing(u)' /\ api'[u].pc = "idle"
  <2>1. \A u \in Threads : u # t => api[u].pc = "idle"
    BY <1>0 DEF IteratorsRight
  <2>2. \A u \in Threads : u # t => ~Removing(u)
    BY <1>0, <2>1, RemovingPc
  <2> QED BY <1>0, <2>1, <2>2 DEF Removing, Idle, SubEv, DelEv
<1>2. IteratorsRight'
  BY <1>1 DEF IteratorsRight
<1>3. PICK id \in RicId, ev \in Events : id = api[t].id /\ ev = api[t].ev
  BY <1>0, ApiHolds
<1> DEFINE m == [type |-> RequestOf(ev), id |-> id]
<1>4. m \in ToAgentMsg /\ m.type = RequestOf(ev) /\ m.id = id /\ SendToAgent(ep_to, m)
  BY <1>3, RequestType DEF SendRequest
<1>5. m.type = "DELETE_REQUEST" => Removing(t) /\ Target(t) = id
  BY <1>0, <1>3, <1>4 DEF RequestOf, Events, SubEv, DelEv, CtrlEv, Removing, Target
<1> HIDE DEF m
<1>6. \A b \in Agents : \A i \in Nat : QueuedDel(b, i)' =>
        \/ QueuedDel(b, i) /\ toAgent'[b][i] = toAgent[b][i]
        \/ /\ b = ep_to /\ i = Len(toAgent[b]) + 1 /\ toAgent'[b][i].id = id
           /\ Removing(t) /\ Target(t) = id
  BY <1>0, <1>4, <1>5, SendToAgentShape DEF QueuedDel
<1>7. \A x : (Removable(x)' <=> Removable(x)) /\ Removals(x)' = Removals(x)
  BY <1>0 DEF Removable, Removals, IsActive, Deleted
<1>8. ASSUME NEW a \in Agents, NEW i \in Nat, QueuedDel(a, i)' PROVE Removable(toAgent[a][i].id)'
  <2>1. PICK x : x = toAgent'[a][i].id
    OBVIOUS
  <2>2. Removable(x)'
    BY <1>6, <1>7, <1>8, <2>1 DEF RemovalsRight
  <2> QED BY <2>1, <2>2
<1>9. \A a, b \in Agents : \A i, j \in Nat : QueuedDel(a, i)' /\ QueuedDel(b, j)' => a = b /\ i = j
  BY <1>6 DEF RemovalsRight
<1>10. \A a \in Agents : \A i \in Nat : Deleted(a, i)' <=> Deleted(a, i)
  BY <1>0 DEF Deleted
<1> QED BY <1>0, <1>1, <1>2, <1>7, <1>8, <1>9, <1>10 DEF RemovalsRight

(* The API threads together: no call of a paced caller fails an assert. *)
LEMMA ApiRemovals ==
  ASSUME TypeInv, IteratorsRight, RemovalsRight, ReportsRight, MaxReports <= 1, SlowCallers,
         NEW t \in Threads, (\E f \in RanFuncs : ApiCall(t, f)) \/ ApiStep(t)
  PROVE  IteratorsRight' /\ RemovalsRight' /\ UNCHANGED ricPhase
<1>0. TypeOK /\ SubEv \in Events /\ CtrlEv \in Events /\ SubEv # DelEv /\ CtrlEv # DelEv
  BY DEF TypeInv, Events, SubEv, CtrlEv, DelEv
<1>1. ASSUME NEW f \in RanFuncs, CallerReady("report", f), ReportService(t, f), Called("report", f)
      PROVE  IteratorsRight' /\ RemovalsRight' /\ UNCHANGED ricPhase
  <2>1. NewRequest(t, SubEv, f) /\ UNCHANGED <<toAgent, toRic, closed, ricPhase>>
    BY <1>1 DEF ReportService, channelVars
  <2>2. calls'["remove"] = calls["remove"]
    BY <1>0, <1>1 DEF Called, TypeOK, Kinds
  <2>3. /\ \A u \in Threads : api[u].pc = "idle" /\ ~Removing(u)
        /\ \A a \in Agents : \A i \in Nat : ~QueuedDel(a, i)
    BY <1>0, <1>1, CallerFinds
  <2> QED BY <1>0, <2>1, <2>2, <2>3, NewRequestRemovals
<1>2. ASSUME NEW f \in RanFuncs, CallerReady("control", f), ControlService(t, f), Called("control", f)
      PROVE  IteratorsRight' /\ RemovalsRight' /\ UNCHANGED ricPhase
  <2>0. f \in CtrlFuncs
    BY <1>0, <1>2, CallerFinds
  <2>1. NewRequest(t, CtrlEv, f) /\ UNCHANGED <<toAgent, toRic, closed, ricPhase>>
    BY <1>2, <2>0 DEF ControlService
  <2>2. calls'["remove"] = calls["remove"]
    BY <1>0, <1>2 DEF Called, TypeOK, Kinds
  <2>3. /\ \A u \in Threads : api[u].pc = "idle" /\ ~Removing(u)
        /\ \A a \in Agents : \A i \in Nat : ~QueuedDel(a, i)
    BY <1>0, <1>2, CallerFinds
  <2> QED BY <1>0, <2>1, <2>2, <2>3, NewRequestRemovals
<1>3. ASSUME NEW f \in RanFuncs, CallerReady("remove", f), RmReportFind(t, f), Called("remove", f)
      PROVE  IteratorsRight' /\ RemovalsRight' /\ UNCHANGED ricPhase
  BY <1>0, <1>3, FindRemovals DEF RmReportFind, channelVars
<1>4. CASE RmReportUse(t) /\ calls' = calls
  BY <1>4, UseRemovals
<1>5. CASE InsertPending(t) /\ calls' = calls
  BY <1>5, InsertRemovals DEF InsertPending, channelVars
<1>6. CASE SendRequest(t) /\ calls' = calls
  BY <1>6, SendRemovals DEF SendRequest
<1> QED BY <1>1, <1>2, <1>3, <1>4, <1>5, <1>6 DEF ApiCall, ApiStep

-----------------------------------------------------------------------------
(***************************************************************************)
(* What was reported stays known.                                          *)
(***************************************************************************)

(* A confirmed subscription stays confirmed; a step that takes its entry out  *)
(* of `pending' confirms it; a thread leaves the insertion only by making it. *)
LEMMA ReportedStays ==
  ASSUME IInv, IInv', Same \/ Confirms \/ Removes, Next
  PROVE  \A id \in RicId : Reported(id) => Reported(id)'
<1>0. TypeInv /\ TypeOK /\ TypeOK' /\ Books
  BY DEF IInv, TypeInv, Books
<1>1. \A id \in RicId : Confirmed(id) => Confirmed(id)'
  BY DEF Same, Confirms, Removes
<1>2. ASSUME api' = api, \A id \in RicId : HasEntry(SubEv, id) => HasEntry(SubEv, id)' \/ Confirmed(id)'
      PROVE  \A id \in RicId : Reported(id) => Reported(id)'
  BY <1>1, <1>2 DEF Reported
<1>3. ASSUME api' = api, pending' = pending PROVE \A id \in RicId : Reported(id) => Reported(id)'
  BY <1>2, <1>3 DEF HasEntry
<1>4. ASSUME NEW a \in Agents, AgentStep(a) PROVE \A id \in RicId : Reported(id) => Reported(id)'
  BY <1>3, <1>4 DEF AgentStep, ricVars
<1>5. ASSUME RicLoopStep PROVE \A id \in RicId : Reported(id) => Reported(id)'
  <2>0. SubEv # DelEv /\ SubEv # CtrlEv
    BY DEF SubEv, DelEv, CtrlEv
  <2>1. CASE StartRic \/ SendSetupResponse \/ PushActive
    BY <1>3, <2>1 DEF StartRic, SendSetupResponse, PushActive, ricVars
  <2>2. ASSUME NEW a \in Agents, HandleSetupRequest(a) \/ HandleIndication(a)
        PROVE  \A id \in RicId : Reported(id) => Reported(id)'
    BY <1>3, <2>2 DEF HandleSetupRequest, HandleIndication
  <2>3. ASSUME NEW a \in Agents, HandleSubscriptionResponse(a)
        PROVE  \A id \in RicId : Reported(id) => Reported(id)'
    <3>1. /\ RicReads(a, "SUBSCRIPTION_RESPONSE") /\ "SUBSCRIPTION_RESPONSE" \in AnswerTypes
          /\ EventOf("SUBSCRIPTION_RESPONSE") = SubEv /\ StopPending(SubEv, Head(toRic[a]).id)
          /\ api' = api /\ ricPc' = "push" /\ ricId' = Head(toRic[a]).id
      BY <2>3 DEF HandleSubscriptionResponse, AnswerTypes, EventOf
    <3>2. \A x : HasEntry(SubEv, x) /\ x # Head(toRic[a]).id => HasEntry(SubEv, x)'
      BY <1>0, <3>1, StopPendingFinds
    <3> QED BY <1>2, <3>1, <3>2 DEF Confirmed
  <2>4. ASSUME NEW a \in Agents, HandleDeleteResponse(a)
        PROVE  \A id \in RicId : Reported(id) => Reported(id)'
    <3>1. /\ RicReads(a, "DELETE_RESPONSE") /\ "DELETE_RESPONSE" \in AnswerTypes
          /\ EventOf("DELETE_RESPONSE") = DelEv /\ StopPending(DelEv, Head(toRic[a]).id) /\ api' = api
      BY <2>4 DEF HandleDeleteResponse, AnswerTypes, EventOf
    <3>2. \A x : HasEntry(SubEv, x) => HasEntry(SubEv, x)'
      BY <1>0, <2>0, <3>1, StopPendingFinds
    <3> QED BY <1>2, <3>1, <3>2
  <2>5. ASSUME NEW a \in Agents, HandleControlAck(a)
        PROVE  \A id \in RicId : Reported(id) => Reported(id)'
    <3>1. /\ RicReads(a, "CONTROL_ACK") /\ "CONTROL_ACK" \in AnswerTypes
          /\ EventOf("CONTROL_ACK") = CtrlEv /\ StopPending(CtrlEv, Head(toRic[a]).id) /\ api' = api
      BY <2>5 DEF HandleControlAck, AnswerTypes, EventOf
    <3>2. \A x : HasEntry(SubEv, x) => HasEntry(SubEv, x)'
      BY <1>0, <2>0, <3>1, StopPendingFinds
    <3> QED BY <1>2, <3>1, <3>2
  <2> QED BY <1>5, <2>1, <2>2, <2>3, <2>4, <2>5 DEF RicLoopStep
<1>6. ASSUME NEW t \in Threads, pending' = pending, api[t].pc # "insert",
             \A u \in Threads : u # t => api'[u] = api[u]
      PROVE  \A id \in RicId : Reported(id) => Reported(id)'
  BY <1>1, <1>6 DEF Reported, HasEntry
<1>7. ASSUME NEW t \in Threads, NEW f \in RanFuncs, ApiCall(t, f)
      PROVE  \A id \in RicId : Reported(id) => Reported(id)'
  <2>1. /\ pending' = pending /\ api[t].pc = "idle"
        /\ \A u \in Threads : u # t => api'[u] = api[u]
    BY <1>0, <1>7 DEF ApiCall, ReportService, ControlService, RmReportFind, NewRequest,
                      TypeOK, RicTypeOK
  <2> QED BY <1>6, <2>1
<1>8. ASSUME NEW t \in Threads, ApiStep(t) PROVE \A id \in RicId : Reported(id) => Reported(id)'
  <2>1. CASE RmReportUse(t) \/ SendRequest(t)
    <3>1. /\ pending' = pending /\ api[t].pc # "insert"
          /\ \A u \in Threads : u # t => api'[u] = api[u]
      BY <1>0, <2>1 DEF RmReportUse, SendRequest, TypeOK, RicTypeOK
    <3> QED BY <1>6, <3>1
  <2>2. CASE InsertPending(t)
    <3>1. /\ pending' = pending \cup {[fd |-> api[t].fd, ev |-> api[t].ev, id |-> api[t].id]}
          /\ \A u \in Threads : u # t => api'[u] = api[u]
      BY <1>0, <2>2 DEF InsertPending, TypeOK, RicTypeOK
    <3>2. ASSUME NEW x, api[t].ev = SubEv, api[t].id = x PROVE HasEntry(SubEv, x)'
      <4>1. PICK p : p = [fd |-> api[t].fd, ev |-> api[t].ev, id |-> api[t].id]
        OBVIOUS
      <4>2. p \in pending' /\ p.ev = SubEv /\ p.id = x
        BY <3>1, <3>2, <4>1
      <4> QED BY <4>2 DEF HasEntry
    <3>3. \A x : HasEntry(SubEv, x) => HasEntry(SubEv, x)'
      BY <3>1 DEF HasEntry
    <3> QED BY <1>1, <3>1, <3>2, <3>3 DEF Reported
  <2> QED BY <1>8, <2>1, <2>2 DEF ApiStep
<1> QED BY <1>4, <1>5, <1>7, <1>8 DEF Next

LEMMA ReportsKept ==
  ASSUME IInv, IInv', Same \/ Confirms \/ Removes, Next, ReportsRight
  PROVE  ReportsRight'
<1>0. TypeOK
  BY DEF IInv, TypeInv
<1>1. \A id \in RicId : Reported(id) => Reported(id)'
  BY ReportedStays
<1>2. ASSUME calls'["report"] = calls["report"] PROVE ReportsRight'
  BY <1>1, <1>2 DEF ReportsRight
<1>3. ASSUME NEW t \in Threads, NEW f \in RanFuncs, CallerReady("report", f), ReportService(t, f),
             Called("report", f)
      PROVE  ReportsRight'
  <2>1. /\ calls["report"] \in [RanFuncs -> Nat]
        /\ calls'["report"] = [calls["report"] EXCEPT ![f] = @ + 1]
    BY <1>0, <1>3 DEF Called, TypeOK, Kinds
  <2>2. calls["report"][f] < MaxReports
    BY <1>3 DEF CallerReady, MaxCalls
  <2>3. PICK r \in RicId : r = [ric_req_id |-> req_id, ran_func_id |-> f]
    BY <1>0, <1>3, NewRequestType DEF ReportService, Events
  <2>4. PICK fd \in Fds : api' = [api EXCEPT ![t] = Prepared(SubEv, r, fd)]
    BY <1>0, <1>3, <2>3, NewRequestType DEF ReportService, Events
  <2>5. Reported(r)' /\ r.ran_func_id = f
    <3>1. api'[t].pc = "insert" /\ api'[t].ev = SubEv /\ api'[t].id = r
      BY <1>0, <2>4 DEF Prepared, TypeOK, RicTypeOK
    <3> QED BY <2>3, <3>1 DEF Reported
  <2>6. \A g \in RanFuncs : g # f => calls'["report"][g] = calls["report"][g]
    BY <2>1
  <2>7. calls'["report"][f] <= MaxReports
    BY <2>1, <2>2, BoundsAssumption
  <2> QED BY <1>1, <2>5, <2>6, <2>7 DEF ReportsRight
<1>4. ASSUME NEW t \in Threads, NEW f \in RanFuncs, ApiCall(t, f) PROVE ReportsRight'
  <2>1. CASE CallerReady("report", f) /\ ReportService(t, f) /\ Called("report", f)
    BY <1>3, <2>1
  <2>2. CASE Called("control", f) \/ Called("remove", f)
    <3>1. calls'["report"] = calls["report"]
      BY <1>0, <2>2 DEF Called, TypeOK, Kinds
    <3> QED BY <1>2, <3>1
  <2> QED BY <1>4, <2>1, <2>2 DEF ApiCall
<1> QED BY <1>2, <1>4 DEF Next, AgentStep, RicLoopStep, ApiStep

-----------------------------------------------------------------------------
(* No agent fails an assert: a setup response finds the pending event, and a  *)
(* removal finds the subscription, since the one agent serves what is active. *)
LEMMA AgentSurvives ==
  ASSUME IInv, ServiceInv, PacedInv, \A a, b \in Agents : a = b, NEW a \in Agents, AgentStep(a)
  PROVE  NoAssertFails'
<1>0. TypeInv /\ TypeOK /\ agPhase \in [Agents -> {"init", "running", "aborted"}]
  BY DEF IInv, TypeInv, TypeOK, AgentTypeOK
<1>1. ricPhase' = ricPhase
  BY DEF AgentStep, StartAgent, SetupTimeout, IndicationTimeout, HandleSetupResponse,
         HandleSubscriptionRequest, HandleDeleteRequest, HandleControlRequest, AgentReads
<1>2. SUFFICES UNCHANGED agPhase \/ agPhase' = [agPhase EXCEPT ![a] = "running"]
  BY <1>0, <1>1 DEF PacedInv, NoAssertFails
<1>3. CASE HandleSetupResponse(a)
  <2>1. AgentReads(a, "SETUP_RESPONSE")
    BY <1>3 DEF HandleSetupResponse
  <2>2. Told(a, 1)
    BY <1>0, <2>1, AgentReadShape, AgentReadType DEF Told
  <2>3. a \in Waiting
    BY <2>2 DEF PacedInv, OneSetup
  <2> QED BY <1>3, <2>3, Zenon DEF HandleSetupResponse, Waiting
<1>4. CASE HandleDeleteRequest(a)
  <2>1. AgentReads(a, "DELETE_REQUEST")
    BY <1>4 DEF HandleDeleteRequest
  <2>2. PICK h \in RicId : h = Head(toAgent[a]).id
    BY <1>0, <2>1, AgentReadType
  <2>3. QueuedDel(a, 1) /\ toAgent[a][1].id = h
    BY <1>0, <2>1, <2>2, AgentReadShape, AgentReadType DEF QueuedDel
  <2>4. Removable(h)
    BY <2>3 DEF PacedInv, RemovalsRight
  <2>5. Accounted(h)
    BY <2>4 DEF Removable, Confirmed, ServiceInv, AnsweredIsServed
  <2>6. ~\E b \in Agents : \E i \in DOMAIN toRic[b] : At(b, i, "DELETE_RESPONSE", h)
    BY <1>0, <2>4, IdsTyped DEF Removable, At, Deleted
  <2>7. h \in ind_event[a]
    BY <2>4, <2>5, <2>6 DEF Accounted, Removable, PacedInv, NoAssertFails
  <2> QED BY <1>4, <2>2, <2>7 DEF HandleDeleteRequest
<1> QED BY <1>3, <1>4 DEF AgentStep, StartAgent, SetupTimeout, IndicationTimeout,
         HandleSubscriptionRequest, HandleControlRequest, agentVars

LEMMA PacedInit == Init => PacedInv
<1> SUFFICES ASSUME Init PROVE PacedInv
  OBVIOUS
<1>1. OneSetup
  <2>1. ricPc = "poll" /\ \A a \in Agents : toRic[a] = << >> /\ toAgent[a] = << >>
    BY DEF Init, ChannelInit, RicInit
  <2>2. \A a \in Agents : ~Telling(a) /\ \A i \in Nat : ~Asked(a, i) /\ ~Told(a, i)
    <3>1. \A i : i \notin DOMAIN << >>
      OBVIOUS
    <3> QED BY <2>1, <3>1 DEF Asked, Told, Telling
  <2> QED BY <2>2 DEF OneSetup
<1>2. IteratorsRight /\ RemovalsRight
  BY DEF Init, ChannelInit, RicInit, IteratorsRight, RemovalsRight, Removing, QueuedDel, Deleted,
         Idle, SubEv, DelEv
<1>3. ReportsRight
  BY BoundsAssumption DEF Init, ReportsRight, Kinds
<1>4. NoAssertFails
  BY DEF Init, ChannelInit, AgentInit, NoAssertFails
<1> QED BY <1>1, <1>2, <1>3, <1>4 DEF PacedInv

LEMMA PacedNext ==
  ASSUME SlowTimer, SlowCallers, \A a, b \in Agents : a = b, MaxReports <= 1
  PROVE  IInv /\ ServiceInv /\ PacedInv /\ [Next]_vars => PacedInv'
<1> SUFFICES ASSUME IInv, ServiceInv, PacedInv, [Next]_vars PROVE PacedInv'
  OBVIOUS
<1>0. /\ OneSetup /\ IteratorsRight /\ RemovalsRight /\ ReportsRight /\ NoAssertFails /\ TypeInv
      /\ IInv' /\ (Same \/ Confirms \/ Removes)
  BY IInvNext, ServiceInvNext DEF PacedInv, IInv
<1>1. CASE Next
  <2>1. ReportsRight'
    BY <1>0, <1>1, ReportsKept
  <2>2. ASSUME NEW a \in Agents, AgentStep(a) PROVE PacedInv'
    BY <1>0, <2>1, <2>2, AgentSetup, AgentRemovals, AgentSurvives DEF PacedInv
  <2>3. CASE RicLoopStep
    <3>1. NoAssertFails'
      BY <1>0, <2>3, LoopStepSurvives DEF NoAssertFails, RicLoopStep, agentVars
    <3> QED BY <1>0, <2>1, <2>3, <3>1, RicSetup, RicRemovals DEF PacedInv
  <2>4. ASSUME NEW t \in Threads, (\E f \in RanFuncs : ApiCall(t, f)) \/ ApiStep(t) PROVE PacedInv'
    <3>1. IteratorsRight' /\ RemovalsRight' /\ UNCHANGED ricPhase
      BY <1>0, <2>4, ApiRemovals
    <3>2. NoAssertFails'
      BY <1>0, <2>4, <3>1 DEF NoAssertFails, ApiCall, ApiStep, agentVars
    <3> QED BY <1>0, <2>1, <2>4, <3>1, <3>2, ApiSetup DEF PacedInv
  <2> QED BY <1>1, <2>2, <2>3, <2>4 DEF Next
<1>2. CASE UNCHANGED vars
  BY <1>0, <1>2 DEF PacedInv, OneSetup, IteratorsRight, RemovalsRight, ReportsRight, NoAssertFails,
     Asked, Told, Telling, Waiting, Removing, Target, QueuedDel, Deleted, Removable, Removals,
     IsActive, Reported, Confirmed, HasEntry, vars, channelVars, agentVars, ricVars
<1> QED BY <1>1, <1>2

(* For any number of functions, API threads and calls of a paced caller, with *)
(* one agent, a setup timer that does not overtake the answer and one report  *)
(* per function: neither the RIC nor the agent ever fails an assert.          *)
THEOREM PacedCallersAreSafe ==
  ASSUME SlowTimer, SlowCallers, \A a, b \in Agents : a = b, MaxReports <= 1
  PROVE  Spec => []NoAssertFails
<1>1. PacedInv => NoAssertFails
  BY DEF PacedInv
<1> QED BY <1>1, IInvInit, IInvNext, ServiceInvInit, ServiceInvNext, PacedInit, PacedNext, PTL DEF Spec

=============================================================================
