------------------------------ MODULE E2System ------------------------------
(***************************************************************************)
(* E2 agents and the near-RT RIC together: every interleaving of the       *)
(* agents' loops, the RIC's loop and the RIC's API threads over the E2     *)
(* channels.                                                               *)
(***************************************************************************)
EXTENDS E2Agent, NearRic, FiniteSets

CONSTANTS
  MaxSetups,    \* bound on setup requests of one agent the RIC gets to see
  MaxQueue,     \* an indication timer is not fired on a longer queue
  MaxReports, MaxRemovals, MaxControls,   \* API calls per RAN function
  SlowTimer,    \* the 1000 ms setup timer never overtakes an answer under way
  SlowCallers   \* API callers wait for a node and for answers; see CallerReady

ASSUME BoundsAssumption ==
  {MaxSetups, MaxQueue, MaxReports, MaxRemovals, MaxControls} \subseteq Nat
ASSUME PacingAssumption == {SlowTimer, SlowCallers} \subseteq BOOLEAN

VARIABLE calls  \* API calls made so far, per kind and RAN function

vars == <<channelVars, agentVars, ricVars, calls>>

Kinds == {"report", "remove", "control"}

MaxCalls(k) ==
  CASE k = "report" -> MaxReports
    [] k = "remove" -> MaxRemovals
    [] k = "control" -> MaxControls

TypeOK ==
  /\ ChannelTypeOK
  /\ AgentTypeOK
  /\ RicTypeOK
  /\ calls \in [Kinds -> [RanFuncs -> Nat]]

Init ==
  /\ ChannelInit
  /\ AgentInit
  /\ RicInit
  /\ calls = [k \in Kinds |-> [f \in RanFuncs |-> 0]]

-----------------------------------------------------------------------------
(* Pacing and bounds *)

\* A setup exchange of agent a is under way.
SetupUnderWay(a) ==
  \/ \E i \in DOMAIN toRic[a] : toRic[a][i].type = "SETUP_REQUEST"
  \/ ricPc = "answer" /\ ep_to = a
  \/ \E i \in DOMAIN toAgent[a] : toAgent[a][i].type = "SETUP_RESPONSE"

SetupsSeen(a) ==
    Cardinality({i \in DOMAIN conn_e2_nodes : conn_e2_nodes[i] = a})
  + Cardinality({i \in DOMAIN toRic[a] : toRic[a][i].type = "SETUP_REQUEST"})

TimerMayFire(a) ==
  /\ ricPhase = "up" => SetupsSeen(a) < MaxSetups
  /\ SlowTimer => ~SetupUnderWay(a)

\* The polite caller: as wait_e2_node of test/ric_sa.c it polls e2_nodes() until
\* a node is there and sleeps before the first call; unlike that program it makes
\* no call before the last one is answered.  It controls only MAC and MCS, and
\* removes only what it has reported.
CallerReady(k, f) ==
  /\ calls[k][f] < MaxCalls(k)
  /\ SlowCallers =>
       /\ Len(conn_e2_nodes) > 0
       /\ ricPc = "poll"
       /\ pending = {}
       /\ \A t \in Threads : api[t].pc = "idle"
       /\ \A a \in Agents : toAgent[a] = << >>
       /\ k = "control" => f \in CtrlFuncs
       /\ k = "remove" => calls["remove"][f] < calls["report"][f]

Called(k, f) == calls' = [calls EXCEPT ![k][f] = @ + 1]

-----------------------------------------------------------------------------
AgentStep(a) ==
  /\ \/ StartAgent(a)
     \/ TimerMayFire(a) /\ SetupTimeout(a)
     \/ \E id \in ind_event[a] :
          Len(toRic[a]) < MaxQueue /\ IndicationTimeout(a, id)
     \/ HandleSetupResponse(a)
     \/ HandleSubscriptionRequest(a)
     \/ HandleDeleteRequest(a)
     \/ HandleControlRequest(a)
  /\ UNCHANGED <<ricVars, calls>>

RicLoopStep ==
  /\ \/ StartRic
     \/ SendSetupResponse
     \/ PushActive
     \/ \E a \in Agents :
          \/ HandleSetupRequest(a)
          \/ HandleSubscriptionResponse(a)
          \/ HandleDeleteResponse(a)
          \/ HandleControlAck(a)
          \/ HandleIndication(a)
  /\ UNCHANGED <<agentVars, calls>>

\* An API thread starts a call ...
ApiCall(t, f) ==
  /\ \/ CallerReady("report", f) /\ ReportService(t, f) /\ Called("report", f)
     \/ CallerReady("control", f) /\ ControlService(t, f) /\ Called("control", f)
     \/ CallerReady("remove", f) /\ RmReportFind(t, f) /\ Called("remove", f)
  /\ UNCHANGED agentVars

\* ... or goes on with the one it is in.
ApiStep(t) ==
  /\ RmReportUse(t) \/ InsertPending(t) \/ SendRequest(t)
  /\ UNCHANGED <<agentVars, calls>>

Next ==
  \/ \E a \in Agents : AgentStep(a)
  \/ RicLoopStep
  \/ \E t \in Threads : (\E f \in RanFuncs : ApiCall(t, f)) \/ ApiStep(t)

Spec == Init /\ [][Next]_vars

-----------------------------------------------------------------------------
(* Safety *)

\* The pending entry of an answer type: what stop_pending_event looks up.
EventOf(type) ==
  CASE type = "SUBSCRIPTION_RESPONSE" -> SubEv
    [] type = "DELETE_RESPONSE" -> DelEv
    [] type = "CONTROL_ACK" -> CtrlEv

AnswerTypes == {"SUBSCRIPTION_RESPONSE", "DELETE_RESPONSE", "CONTROL_ACK"}

HasEntry(ev, id) == \E p \in pending : p.ev = ev /\ p.id = id

\* A message of type ty for id is queued towards the RIC in front of position i.
Ahead(a, i, ty, id) ==
  \E j \in DOMAIN toRic[a] : j < i /\ toRic[a][j].type = ty /\ toRic[a][j].id = id

InFlightToRic(ty, id) ==
  \E a \in Agents : Ahead(a, Len(toRic[a]) + 1, ty, id)

IsActive(id) == \E i \in DOMAIN act_req : act_req[i] = id

(* Every answer on its way to the RIC still has its entry in `pending', in    *)
(* every interleaving of API threads, RIC loop and agents: the assert of      *)
(* bi_map_extract_right inside the RIC's stop_pending_event never fails.      *)
(* It rests on near_ric.c inserting the entry before it sends the request,    *)
(* and on no id being answered twice.                                         *)
AnswersHaveEntries ==
  \A a \in Agents : \A i \in DOMAIN toRic[a] :
    toRic[a][i].type \in AnswerTypes =>
      HasEntry(EventOf(toRic[a][i].type), toRic[a][i].id)

(* The agent registers a subscription before it answers, and answers before   *)
(* its loop can see the first timer event: an indication reaches the RIC only *)
(* after the RIC has handled (or is handling) the response of its             *)
(* subscription.                                                              *)
IndicationAfterResponse ==
  \A a \in Agents : \A i \in DOMAIN toRic[a] :
    toRic[a][i].type = "INDICATION" =>
      \/ IsActive(toRic[a][i].id)
      \/ ricPc = "push" /\ ricId = toRic[a][i].id
      \/ Ahead(a, i, "SUBSCRIPTION_RESPONSE", toRic[a][i].id)

(* Once the RIC has handled the delete response of a subscription, and even   *)
(* behind a delete response that is still queued, no indication of that       *)
(* subscription is on its way: stop_ind_event removes the timer from epoll    *)
(* before the agent answers.                                                  *)
NoIndicationAfterDelete ==
  \A a \in Agents : \A i \in DOMAIN toRic[a] :
    toRic[a][i].type = "INDICATION" =>
      /\ toRic[a][i].id \notin closed
      /\ ~Ahead(a, i, "DELETE_RESPONSE", toRic[a][i].id)

(* An indication travels only between its subscription's response and its     *)
(* delete response, in the order in which e2ap_handle_subscription_request_   *)
(* agent and e2ap_handle_subscription_delete_request_agent arm and stop the   *)
(* timer and answer.                                                          *)
IndicationsWhileActive == IndicationAfterResponse /\ NoIndicationAfterDelete

(* The agents' ind_event and the RIC's books agree up to what is in flight:   *)
(* no subscription is served by two agents; a served one is, or is about to   *)
(* be, in act_req, so that the RIC can remove it; an active one whose delete  *)
(* was not answered is served.                                                *)
SubscriptionAgreement ==
  /\ \A a, b \in Agents : a # b => ind_event[a] \cap ind_event[b] = {}
  /\ \A a \in Agents : \A id \in ind_event[a] :
       \/ IsActive(id)
       \/ ricPhase = "aborted"
       \/ ricPc = "push" /\ ricId = id
       \/ InFlightToRic("SUBSCRIPTION_RESPONSE", id)
  /\ \A i \in DOMAIN act_req :
       \/ act_req[i] \in closed
       \/ InFlightToRic("DELETE_RESPONSE", act_req[i])
       \/ ricPhase = "aborted"
       \/ \E a \in Agents : act_req[i] \in ind_event[a]

(* "Monotonically increasing RIC request ID" (near_ric.h): no two requests    *)
(* share an id, whichever threads made them.  A subscription request that     *)
(* reaches an agent is new to every agent, so the bimap insert of             *)
(* e2ap_handle_subscription_request_agent, which does not look for an equal   *)
(* key, never makes ind_event ambiguous; nor does act_req hold an id twice.   *)
SubscriptionIdsFresh ==
  /\ \A a, b \in Agents : \A i \in DOMAIN toAgent[a] :
       toAgent[a][i].type = "SUBSCRIPTION_REQUEST" =>
         /\ toAgent[a][i].id \notin ind_event[b]
         /\ ~IsActive(toAgent[a][i].id)
  /\ \A i, j \in DOMAIN act_req : act_req[i] = act_req[j] => i = j

(* What the two sides know of the subscriptions fits together, and ids stay   *)
(* unique: see the two parts.                                                 *)
BooksAgree == SubscriptionAgreement /\ SubscriptionIdsFresh

(* The agent's socket is blocking and e2ap_recv_bytes holds the endpoint      *)
(* mutex while it reads: were the loop to read without a queued message, it   *)
(* would hang with the mutex held.  An edge is only ever held for a socket    *)
(* that has a message.                                                        *)
ReadsNeverBlock ==
  \A a \in Agents : edge[a] => toAgent[a] # << >>

(* No assert fails, in the RIC or in an agent.  Holds for paced callers and a *)
(* setup timer slower than the answer, one agent, and one removal per         *)
(* subscription of a function that is not subscribed again.                   *)
NoAssertFails ==
  /\ ricPhase # "aborted"
  /\ \A a \in Agents : agPhase[a] # "aborted"

(* No message of any agent makes the RIC's event loop fail the assert of      *)
(* bi_map_extract_right: only an API call can end the RIC's process, by        *)
(* removing a report that is not active or controlling an unknown function.    *)
LoopNeverAborts == [][RicLoopStep => ricPhase' # "aborted"]_vars

\* Subscriptions the RIC's loop has confirmed and not seen deleted.
ActiveSubscriptions ==
  {id \in RicId : IsActive(id) \/ (ricPc = "push" /\ ricId = id)} \ closed

Service == INSTANCE SubscriptionService
             WITH Ids <- RicId, active <- ActiveSubscriptions, ended <- closed

(* For the callers of the API every subscription is confirmed once and        *)
(* removed at most once, after it was confirmed, although a removal may take  *)
(* its id from freed memory or name a subscription removed before, requests   *)
(* go to whichever agent spoke last, and answers of several agents mix: the   *)
(* agents answer no delete request of a subscription they do not serve, and   *)
(* a delete response never overtakes the response of its subscription.        *)
ImplementsService == Service!ServiceSpec

(* assoc_rb_tree.c: "Trying to extract a key not found in the tree".          *)
(* stop_pending_event and stop_ind_event of the agent rely on the key being   *)
(* there; this is the assert that would fail.                                 *)
AgentKeysFound == \A a \in Agents : agPhase[a] # "aborted"

-----------------------------------------------------------------------------
(* Liveness *)

\* The threads run and the operator starts both programs; the setup timer is
\* periodic.  Nothing is assumed of API callers and indication timers.
Fairness ==
  /\ WF_vars(RicLoopStep)
  /\ \A t \in Threads : WF_vars(ApiStep(t))
  /\ \A a \in Agents :
       /\ WF_vars(StartAgent(a) /\ UNCHANGED <<ricVars, calls>>)
       /\ WF_vars(/\ TimerMayFire(a) /\ SetupTimeout(a)
                  /\ UNCHANGED <<ricVars, calls>>)
       /\ WF_vars(/\ \/ HandleSetupResponse(a)
                     \/ HandleSubscriptionRequest(a)
                     \/ HandleDeleteRequest(a)
                     \/ HandleControlRequest(a)
                  /\ UNCHANGED <<ricVars, calls>>)

FairSpec == Spec /\ Fairness

(* A started agent eventually completes the setup, although the requests it   *)
(* sends before the RIC listens are lost: the pending event resends them.     *)
SetupCompletes ==
  \A a \in Agents : agPhase[a] = "running" ~> ~agPending[a]

(* With paced callers every request is eventually answered and its entry (and *)
(* timer) leaves `pending', although the agent's epoll is edge triggered and  *)
(* its loop reads one message per edge.                                       *)
RequestsAnswered ==
  \A ev \in Events : \A id \in RicId : HasEntry(ev, id) ~> ~HasEntry(ev, id)

=============================================================================
