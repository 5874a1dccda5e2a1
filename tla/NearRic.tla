------------------------------- MODULE NearRic -------------------------------
(***************************************************************************)
(* The near-RT RIC (ric/near_ric.c, ric/msg_handler_ric.c): an event-loop  *)
(* thread that handles the messages of all agents, and the API threads     *)
(* (main program, console, xApp control server) that call report, remove   *)
(* report and control.  Loop and API threads share `pending' (pend_mtx),   *)
(* `act_req' (act_req_mtx), `req_id' (atomic) and the endpoint (mtx); one  *)
(* action per critical section, so that they interleave as the locks let   *)
(* them.                                                                   *)
(***************************************************************************)
EXTENDS E2Channel

CONSTANTS
  Threads,      \* threads that call the RIC's API
  CtrlFuncs,    \* RAN functions control_service_near_ric implements (MAC, MCS)
  MinSize,      \* MIN_SIZE of seq_arr.c: the initial capacity of act_req
  MaxFds        \* bound on the timer descriptors open at once

ASSUME CtrlFuncsAssumption == CtrlFuncs \subseteq RanFuncs
ASSUME MinSizeAssumption == MinSize \in Nat \ {0, 1}
ASSUME MaxFdsAssumption == MaxFds \in Nat

VARIABLES
  req_id,        \* next request id
  pending,       \* bimap timer fd <-> (event, id)
  act_req,       \* ids of the answered subscriptions, in order of the answers
  act_cap,       \* capacity of act_req's buffer; it moves when this changes
  conn_e2_nodes, \* one entry per setup request handled
  ep_to,         \* peer address of the endpoint: the last sender
  ricPc,         \* what the event loop does next: "poll", "push" or "answer"
  ricId,         \* id the loop is about to push
  api,           \* per API thread: program point and locals
  closed         \* history: ids whose delete response has been handled

ricVars == <<req_id, pending, act_req, act_cap, conn_e2_nodes, ep_to,
             ricPc, ricId, api, closed>>

SubEv  == "SUBSCRIPTION_REQUEST_EVENT"
DelEv  == "SUBSCRIPTION_DELETE_REQUEST_EVENT"
CtrlEv == "CONTROL_REQUEST_EVENT"
Events == {SubEv, DelEv, CtrlEv}

RequestOf(ev) ==
  CASE ev = SubEv  -> "SUBSCRIPTION_REQUEST"
    [] ev = DelEv  -> "DELETE_REQUEST"
    [] ev = CtrlEv -> "CONTROL_REQUEST"

Fds == 1..MaxFds
PendingEntry == [fd : Fds, ev : Events, id : RicId]

\* An API thread outside any call; the locals have no meaning there.
Idle == [pc |-> "idle", ev |-> SubEv, id |-> NoId, fd |-> 0, idx |-> 0, cap |-> 0]

ApiState ==
  {Idle} \cup
  [pc : {"insert", "send"}, ev : Events, id : RicId, fd : Fds, idx : {0}, cap : {0}]
  \cup [pc : {"use"}, ev : {DelEv}, id : {NoId}, fd : {0}, idx : Nat, cap : Nat]

RicTypeOK ==
  /\ req_id \in 0..(MaxReqId + 1)
  /\ pending \in SUBSET PendingEntry
  /\ act_req \in Seq(RicId)
  /\ act_cap \in Nat
  /\ conn_e2_nodes \in Seq(Agents)
  /\ ep_to \in Agents \cup {NoAgent}
  /\ ricPc \in {"poll", "push", "answer"}
  /\ ricId \in RicId \cup {NoId}
  /\ ricPc = "push" => ricId \in RicId
  /\ api \in [Threads -> ApiState]
  /\ closed \in SUBSET RicId

RicInit ==
  /\ req_id = 0
  /\ pending = {}
  /\ act_req = << >>
  /\ act_cap = MinSize
  /\ conn_e2_nodes = << >>
  /\ ep_to = NoAgent
  /\ ricPc = "poll"
  /\ ricId = NoId
  /\ api = [t \in Threads |-> Idle]
  /\ closed = {}

-----------------------------------------------------------------------------
\* init_near_ric and the thread that runs start_near_ric.
StartRic ==
  /\ ricPhase = "down"
  /\ ricPhase' = "up"
  /\ UNCHANGED <<toAgent, toRic, edge, ricVars>>

\* A failed assert in any thread ends the RIC's process.
AbortRic == ricPhase' = "aborted"

-----------------------------------------------------------------------------
(* API threads *)

OpenFds == {p.fd : p \in pending} \cup {api[t].fd : t \in Threads}

\* timerfd_create returns the lowest free descriptor.
IsFreeFd(fd) ==
  /\ fd \in Fds \ OpenFds
  /\ \A n \in Fds \ OpenFds : fd <= n

\* Mutant of Prepared: the timer's descriptor is not recorded.
PreparedWithoutTimer(ev, id, fd) ==
  [pc |-> "insert", ev |-> ev, id |-> id, fd |-> 0, idx |-> 0, cap |-> 0]

\* The thread has built a request and armed its timer; it will insert both into
\* `pending' and send the request afterwards.
Prepared(ev, id, fd) ==
  [pc |-> "insert", ev |-> ev, id |-> id, fd |-> fd, idx |-> 0, cap |-> 0]

\* Mutant of NewRequest: the counter is read but not advanced.
NewRequestSameId(t, ev, f) ==
  \E fd \in Fds :
    /\ IsFreeFd(fd)
    /\ api' = [api EXCEPT ![t] =
                 Prepared(ev, [ric_req_id |-> req_id, ran_func_id |-> f], fd)]
    /\ UNCHANGED req_id

\* The common part of report and control: a fresh id (atomic post-increment of
\* req_id) and a timer.
NewRequest(t, ev, f) ==
  \E fd \in Fds :
    /\ req_id <= MaxReqId
    /\ IsFreeFd(fd)
    /\ req_id' = req_id + 1
    /\ api' = [api EXCEPT ![t] =
                 Prepared(ev, [ric_req_id |-> req_id, ran_func_id |-> f], fd)]

\* report_service_near_ric, up to the timer.
ReportService(t, f) ==
  /\ ricPhase = "up"
  /\ api[t].pc = "idle"
  /\ NewRequest(t, SubEv, f)
  /\ UNCHANGED <<channelVars, pending, act_req, act_cap, conn_e2_nodes, ep_to,
                 ricPc, ricId, closed>>

\* control_service_near_ric, up to the timer; other functions are an assert(0).
ControlService(t, f) ==
  /\ ricPhase = "up"
  /\ api[t].pc = "idle"
  /\ \/ /\ f \in CtrlFuncs
        /\ NewRequest(t, CtrlEv, f)
        /\ UNCHANGED ricPhase
     \/ /\ f \notin CtrlFuncs
        /\ AbortRic
        /\ UNCHANGED <<req_id, api>>
  /\ UNCHANGED <<toAgent, toRic, edge, pending, act_req, act_cap, conn_e2_nodes,
                 ep_to, ricPc, ricId, closed>>

\* The iterator find_if returns for function f: the index of the first active
\* request of f, or 0 for the end iterator.
FindActive(f, i) ==
  LET hits == {j \in DOMAIN act_req : act_req[j].ran_func_id = f} IN
  \/ hits = {} /\ i = 0
  \/ i \in hits /\ \A j \in hits : i <= j

\* rm_report_service_near_ric, the critical section of act_req_mtx: it keeps an
\* iterator into the buffer that act_req has now.
RmReportFind(t, f) ==
  /\ ricPhase = "up"
  /\ api[t].pc = "idle"
  /\ \E i \in {0} \cup DOMAIN act_req :
       /\ FindActive(f, i)
       /\ api' = [api EXCEPT ![t] = [pc |-> "use", ev |-> DelEv, id |-> NoId,
                                     fd |-> 0, idx |-> i, cap |-> act_cap]]
  /\ UNCHANGED <<channelVars, req_id, pending, act_req, act_cap, conn_e2_nodes,
                 ep_to, ricPc, ricId, closed>>

\* ... and what it does with the iterator after the unlock: the end iterator
\* fails the assert; an iterator into a buffer that has been reallocated
\* meanwhile reads freed memory: any id, or a fault.
RmReportUse(t) ==
  /\ ricPhase = "up"
  /\ api[t].pc = "use"
  /\ \/ /\ api[t].idx # 0
        /\ \E fd \in Fds, id \in RicId :
             /\ IsFreeFd(fd)
             /\ api[t].cap = act_cap => id = act_req[api[t].idx]
             /\ api' = [api EXCEPT ![t] = Prepared(DelEv, id, fd)]
        /\ UNCHANGED ricPhase
     \/ /\ api[t].idx = 0 \/ api[t].cap # act_cap
        /\ AbortRic
        /\ UNCHANGED api
  /\ UNCHANGED <<toAgent, toRic, edge, req_id, pending, act_req, act_cap,
                 conn_e2_nodes, ep_to, ricPc, ricId, closed>>

\* The critical section of pend_mtx in report, remove and control.
InsertPending(t) ==
  /\ ricPhase = "up"
  /\ api[t].pc = "insert"
  /\ pending' = pending \cup {[fd |-> api[t].fd, ev |-> api[t].ev, id |-> api[t].id]}
  /\ api' = [api EXCEPT ![t].pc = "send"]
  /\ UNCHANGED <<channelVars, req_id, act_req, act_cap, conn_e2_nodes, ep_to,
                 ricPc, ricId, closed>>

\* Mutant of SendRequest: the request may leave before its entry is inserted.
SendRequestEarly(t) ==
  /\ ricPhase = "up"
  /\ api[t].pc \in {"insert", "send"}
  /\ SendToAgent(ep_to, [type |-> RequestOf(api[t].ev), id |-> api[t].id])
  /\ api' = [api EXCEPT ![t] = Idle]
  /\ UNCHANGED <<toRic, ricPhase, req_id, pending, act_req, act_cap, conn_e2_nodes,
                 ep_to, ricPc, ricId, closed>>

\* The request leaves last, to whatever peer address the endpoint holds.
SendRequest(t) ==
  /\ ricPhase = "up"
  /\ api[t].pc = "send"
  /\ SendToAgent(ep_to, [type |-> RequestOf(api[t].ev), id |-> api[t].id])
  /\ api' = [api EXCEPT ![t] = Idle]
  /\ UNCHANGED <<toRic, ricPhase, req_id, pending, act_req, act_cap, conn_e2_nodes,
                 ep_to, ricPc, ricId, closed>>

-----------------------------------------------------------------------------
(* Event loop.  A timer event only prints a line and reads the descriptor:  *)
(* no request is sent again and no entry leaves `pending'.                  *)

RicReads(a, t) ==
  /\ ricPhase = "up"
  /\ ricPc = "poll"
  /\ RecvAtRic(a)
  /\ Head(toRic[a]).type = t
  /\ ep_to' = a

\* stop_pending_event: bi_map_extract_right asserts that the key is there.
StopPending(ev, id) ==
  \/ /\ \E p \in pending : p.ev = ev /\ p.id = id /\ pending' = pending \ {p}
     /\ UNCHANGED ricPhase
  \/ /\ \A p \in pending : ~(p.ev = ev /\ p.id = id)
     /\ AbortRic
     /\ UNCHANGED pending

\* e2ap_handle_setup_request_ric: the node is appended, whether it is there
\* already or not; the loop then sends the response.
HandleSetupRequest(a) ==
  /\ RicReads(a, "SETUP_REQUEST")
  /\ conn_e2_nodes' = Append(conn_e2_nodes, a)
  /\ ricPc' = "answer"
  /\ UNCHANGED <<toAgent, edge, ricPhase, req_id, pending, act_req, act_cap,
                 ricId, api, closed>>

SendSetupResponse ==
  /\ ricPhase = "up"
  /\ ricPc = "answer"
  /\ SendToAgent(ep_to, [type |-> "SETUP_RESPONSE", id |-> NoId])
  /\ ricPc' = "poll"
  /\ UNCHANGED <<toRic, ricPhase, req_id, pending, act_req, act_cap,
                 conn_e2_nodes, ep_to, ricId, api, closed>>

\* e2ap_handle_subscription_response_ric, up to the unlock of pend_mtx ...
HandleSubscriptionResponse(a) ==
  LET id == Head(toRic[a]).id IN
  /\ RicReads(a, "SUBSCRIPTION_RESPONSE")
  /\ StopPending(SubEv, id)
  /\ ricPc' = "push"
  /\ ricId' = id
  /\ UNCHANGED <<toAgent, edge, req_id, act_req, act_cap, conn_e2_nodes, api, closed>>

\* ... and its critical section of act_req_mtx (seq_arr_push_back).
PushActive ==
  /\ ricPhase = "up"
  /\ ricPc = "push"
  /\ act_cap' = IF Len(act_req) + 1 = act_cap THEN 2 * act_cap ELSE act_cap
  /\ act_req' = Append(act_req, ricId)
  /\ ricPc' = "poll"
  /\ UNCHANGED <<channelVars, req_id, pending, conn_e2_nodes, ep_to, ricId, api, closed>>

\* e2ap_handle_subscription_delete_response_ric: act_req is left alone.
HandleDeleteResponse(a) ==
  LET id == Head(toRic[a]).id IN
  /\ RicReads(a, "DELETE_RESPONSE")
  /\ StopPending(DelEv, id)
  /\ closed' = closed \cup {id}
  /\ UNCHANGED <<toAgent, edge, req_id, act_req, act_cap, conn_e2_nodes,
                 ricPc, ricId, api>>

\* e2ap_handle_control_ack_ric.
HandleControlAck(a) ==
  /\ RicReads(a, "CONTROL_ACK")
  /\ StopPending(CtrlEv, Head(toRic[a]).id)
  /\ UNCHANGED <<toAgent, edge, req_id, act_req, act_cap, conn_e2_nodes,
                 ricPc, ricId, api, closed>>

\* e2ap_handle_indication_ric: decode and publish to the iApps.
HandleIndication(a) ==
  /\ RicReads(a, "INDICATION")
  /\ UNCHANGED <<toAgent, edge, ricPhase, req_id, pending, act_req, act_cap,
                 conn_e2_nodes, ricPc, ricId, api, closed>>

=============================================================================
