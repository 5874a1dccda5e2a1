------------------------------ MODULE Plugins ------------------------------
(***************************************************************************)
(* Service models loaded while the system runs. load_sm_near_ric loads a   *)
(* shared object into the near-RT RIC (plugin_ric.c) and sends it in three *)
(* datagrams to UDP port 8080, where a thread of the E2 agent puts it      *)
(* together and loads it (plugin_agent.c) beside the agent's event loop;   *)
(* the end of the agent (e2_free_agent, free_plugin_ag) meets that thread  *)
(* anywhere.                                                               *)
(*                                                                         *)
(* A service model is its RAN function id. An assertion that fails ends    *)
(* its process and puts its name in failed. Inserting into the agent's     *)
(* tree, which its mutex protects, is one step.                            *)
(***************************************************************************)
EXTENDS Integers, Sequences, FiniteSets

CONSTANTS AtStart,      \* service models both sides load from the directory
          Runtime,      \* service models loaded later
          FileSize,     \* length of a shared object
          Modes,        \* how load_sm_near_ric is used: whether datagrams are
                        \* lost, or sent before the agent has its socket,
                        \* whether one thread makes the calls, and the
                        \* longest datagram that can be sent
          MaxSetups     \* bound: setup requests

Sms == AtStart \cup Runtime
MaxDatagram == 65507    \* over IPv4

ASSUME PluginAssumption ==
    /\ Sms \subseteq Nat \ {0} /\ IsFiniteSet(Sms) /\ AtStart # {}
    /\ FileSize \in [Sms -> Nat] /\ \A s \in Sms : FileSize[s] >= 128
    /\ MaxSetups \in Nat
    /\ Modes \subseteq [loss : BOOLEAN, sequential : BOOLEAN, max : 0 .. MaxDatagram]
    /\ Modes # {}

VARIABLES mode,                 \* the mode of this behaviour
          ricSms, pub_sub,      \* the RIC's sm_ds and the keys of pub_sub
          load,                 \* where the call load_sm_near_ric(s) is
          asked,                \* service models subscribed to
          udp,                  \* datagrams in the agent's socket
          rx,                   \* rx_plugin_agent
          agSms,                \* the agent's sm_ds
          loads,                \* history: what the agent has loaded
          walk,                 \* generate_setup_request
          toAgent, toRic,       \* subscription requests and indications
          subs,                 \* service models with an indication timer
          stop,                 \* e2_free_agent
          failed                \* assertions that have failed

ricVars == <<mode, ricSms, pub_sub, load, asked>>
loopVars == <<walk, subs>>
linkVars == <<toAgent, toRic>>
rxVars == <<udp, rx, loads>>
vars == <<ricVars, loopVars, linkVars, rxVars, agSms, stop, failed>>

Stages == <<"idle", "name", "size", "data", "done">>
NoSm == 0               \* bytes that are no name and no shared object
Huge == MaxDatagram + 1 \* four bytes of a name or of a file, read as a size

Init ==
    /\ mode \in Modes
    /\ ricSms = AtStart /\ pub_sub = AtStart
    /\ load = [s \in Runtime |-> "idle"] /\ asked = {}
    /\ udp = <<>> /\ rx = [pc |-> "socket", name |-> NoSm, size |-> 0, data |-> NoSm]
    /\ agSms = AtStart /\ loads = {}
    /\ walk = [pc |-> "idle", left |-> 0, it |-> 0, sent |-> 0]
    /\ toAgent = <<>> /\ toRic = <<>> /\ subs = {}
    /\ stop = [pc |-> "no", woken |-> FALSE] /\ failed = {}

RicAsserts == {"sendto", "publish_ind_msg"}
RicUp == failed \cap RicAsserts = {}
AgentUp == failed \subseteq RicAsserts
Fail(a) == failed' = failed \cup {a}
-----------------------------------------------------------------------------
\* Mutant: listeners are registered, but the service model is not kept.
load_plugin_ric_unkept(s) ==
    /\ RicUp /\ load[s] = "idle"
    /\ pub_sub' = pub_sub \cup {s}
    /\ load' = [load EXCEPT ![s] = "name"]
    /\ UNCHANGED <<mode, ricSms, asked, loopVars, linkVars, rxVars, agSms, stop, failed>>

\* load_sm_near_ric: load_plugin_ric, which registers nobody in pub_sub.
load_plugin_ric(s) ==
    /\ RicUp /\ load[s] = "idle"
    /\ mode.loss \/ rx.pc # "socket"
    /\ mode.sequential => \A r \in Runtime : load[r] \in {"idle", "done"}
    /\ ricSms' = ricSms \cup {s}
    /\ load' = [load EXCEPT ![s] = "name"]
    /\ UNCHANGED <<mode, pub_sub, asked, loopVars, linkVars, rxVars, agSms, stop, failed>>

\* A datagram reaches the agent's socket unless it is lost there, or there is
\* no socket (yet, or any more).
Datagram(d) ==
    \/ rx.pc \notin {"socket", "exit"} /\ udp' = Append(udp, d)
    \/ (mode.loss \/ rx.pc \in {"socket", "exit"}) /\ UNCHANGED udp

\* tx_plugin_ric: the name, the size and the file, a datagram each.
tx_plugin_ric(s) ==
    /\ RicUp
    /\ \E i \in 2 .. 4 :
         /\ load[s] = Stages[i]
         /\ IF Stages[i] = "data" /\ FileSize[s] > mode.max
              THEN Fail("sendto") /\ UNCHANGED <<load, udp>>
              ELSE /\ load' = [load EXCEPT ![s] = Stages[i + 1]]
                   /\ Datagram([kind |-> Stages[i], sm |-> s])
                   /\ UNCHANGED failed
    /\ UNCHANGED <<mode, ricSms, pub_sub, asked, loopVars, linkVars, rx, loads, agSms, stop>>

\* report_service_near_ric for a service model whose load has returned.
report_service(s) ==
    /\ RicUp /\ s \in ricSms \ asked
    /\ s \in Runtime => load[s] = "done"
    /\ asked' = asked \cup {s} /\ toAgent' = Append(toAgent, s)
    /\ UNCHANGED <<mode, ricSms, pub_sub, load, loopVars, toRic, rxVars, agSms, stop, failed>>

\* e2ap_handle_indication_ric: sm_plugin_ric, then publish_ind_msg.
handle_indication ==
    /\ RicUp /\ toRic # <<>>
    /\ IF Head(toRic) \in pub_sub THEN UNCHANGED failed ELSE Fail("publish_ind_msg")
    /\ toRic' = Tail(toRic)
    /\ UNCHANGED <<ricVars, loopVars, toAgent, rxVars, agSms, stop>>
-----------------------------------------------------------------------------
LoopRuns == AgentUp /\ stop.pc = "no"

\* e2ap_handle_subscription_request_agent: sm_plugin_ag, then a timer.
handle_subscription ==
    /\ LoopRuns /\ walk.pc = "idle" /\ toAgent # <<>>
    /\ IF Head(toAgent) \in agSms
         THEN subs' = subs \cup {Head(toAgent)} /\ UNCHANGED failed
         ELSE Fail("sm_plugin_ag") /\ UNCHANGED subs
    /\ toAgent' = Tail(toAgent)
    /\ UNCHANGED <<ricVars, walk, toRic, rxVars, agSms, stop>>

indication_event(s) ==
    /\ LoopRuns /\ walk.pc = "idle" /\ s \in subs /\ toRic = <<>>
    /\ toRic' = Append(toRic, s)
    /\ UNCHANGED <<ricVars, loopVars, toAgent, rxVars, agSms, stop, failed>>

\* The least service model above n, or 0 for the end of the tree.
assoc_next(n) ==
    LET above == {s \in agSms : s > n}
    IN  IF above = {} THEN 0 ELSE CHOOSE s \in above : \A r \in above : s <= r

\* generate_setup_request, first sent by e2_start_agent and then by the timer:
\* assoc_size, then a walk of so many steps, without sm_ds_mtx.
setup_size ==
    /\ LoopRuns /\ walk.pc = "idle" /\ walk.sent < MaxSetups
    /\ walk' = [pc |-> "front", left |-> Cardinality(agSms), it |-> 0, sent |-> walk.sent + 1]
    /\ UNCHANGED <<ricVars, subs, linkVars, rxVars, agSms, stop, failed>>

setup_step ==
    /\ AgentUp
    /\ \/ walk.pc = "front" /\ walk' = [walk EXCEPT !.pc = "walk", !.it = assoc_next(0)]
       \/ /\ walk.pc = "walk" /\ walk.left > 0
          /\ walk' = [walk EXCEPT !.left = @ - 1, !.it = assoc_next(walk.it)]
    /\ UNCHANGED <<ricVars, subs, linkVars, rxVars, agSms, stop, failed>>

setup_end ==
    /\ AgentUp /\ walk.pc = "walk" /\ walk.left = 0
    /\ walk' = [walk EXCEPT !.pc = "idle"]
    /\ IF walk.it = 0 THEN UNCHANGED failed ELSE Fail("Length mismatch")
    /\ UNCHANGED <<ricVars, subs, linkVars, rxVars, agSms, stop>>
-----------------------------------------------------------------------------
\* rx_plugin_agent opens its socket.
rx_socket ==
    /\ AgentUp /\ rx.pc = "socket"
    /\ rx' = [rx EXCEPT !.pc = "name"]
    /\ UNCHANGED <<ricVars, loopVars, linkVars, udp, loads, agSms, stop, failed>>

Shutdown == stop.pc \in {"joining", "joined"}
Length(d) == CASE d.kind = "name" -> 16 [] d.kind = "size" -> 4 [] OTHER -> FileSize[d.sm]

\* recvfrom takes a datagram at the three places of the loop; a longer one is
\* cut to the length asked for. flag_shutdown is not set.
rx_recv ==
    /\ AgentUp /\ ~Shutdown /\ udp # <<>>
    /\ LET d == Head(udp)
       IN  \/ /\ rx.pc = "name"
              /\ IF Length(d) >= 128 THEN Fail("Buffer overflow") ELSE UNCHANGED failed
              /\ rx' = [rx EXCEPT !.pc = "size", !.name = IF d.kind = "name" THEN d.sm ELSE NoSm]
           \/ /\ rx.pc = "size"
              /\ rx' = [rx EXCEPT !.pc = "data",
                                  !.size = IF d.kind = "size" THEN FileSize[d.sm] ELSE Huge]
              /\ \/ UNCHANGED failed
                 \/ d.kind # "size" /\ Fail("Memory exhausted!")
           \/ /\ rx.pc = "data"
              /\ IF Length(d) < rx.size THEN Fail("rc == size") ELSE UNCHANGED failed
              /\ rx' = [rx EXCEPT !.pc = "load", !.data = IF d.kind = "data" THEN d.sm ELSE NoSm]
    /\ udp' = Tail(udp)
    /\ UNCHANGED <<ricVars, loopVars, linkVars, loads, agSms, stop>>

\* Mutant: flag_shutdown is looked at only before a name.
rx_exit_at_name ==
    /\ AgentUp /\ Shutdown
    /\ rx.pc = "name" /\ (stop.woken \/ udp # <<>>)
    /\ rx' = [rx EXCEPT !.pc = "exit"]
    /\ UNCHANGED <<ricVars, loopVars, linkVars, udp, loads, agSms, stop, failed>>

\* The loop ends when flag_shutdown is set and recvfrom returns, with a
\* datagram or because the socket was shut down; or before a load.
rx_exit ==
    /\ AgentUp /\ Shutdown
    /\ \/ rx.pc \in {"name", "size", "data"} /\ (stop.woken \/ udp # <<>>)
       \/ rx.pc = "load"
    /\ rx' = [rx EXCEPT !.pc = "exit"]
    /\ UNCHANGED <<ricVars, loopVars, linkVars, udp, loads, agSms, stop, failed>>

\* Mutant: the name is not used to find the symbol.
load_any ==
    /\ AgentUp /\ ~Shutdown /\ rx.pc = "load"
    /\ loads' = loads \cup {[name |-> rx.name, data |-> rx.data, size |-> rx.size]}
    /\ agSms' = agSms \cup {rx.data}
    /\ rx' = [rx EXCEPT !.pc = "name"]
    /\ UNCHANGED <<ricVars, loopVars, linkVars, udp, stop, failed>>

\* Mutant: the thread goes on to read a size.
load_then_size ==
    /\ AgentUp /\ ~Shutdown /\ rx.pc = "load"
    /\ agSms' = agSms \cup {rx.data}
    /\ rx' = [rx EXCEPT !.pc = "size"]
    /\ UNCHANGED <<ricVars, loopVars, linkVars, loads, udp, stop, failed>>

\* Mutant: the service model is loaded but not inserted.
load_uninserted ==
    /\ AgentUp /\ ~Shutdown /\ rx.pc = "load"
    /\ rx' = [rx EXCEPT !.pc = "name"]
    /\ UNCHANGED <<ricVars, loopVars, linkVars, loads, agSms, udp, stop, failed>>

\* The file is saved under the name and loaded by load_plugin_ag, which looks
\* for a symbol made from the name and inserts under sm_ds_mtx. In a file that
\* was cut short dlopen fails, or not.
load_plugin_ag ==
    /\ AgentUp /\ ~Shutdown /\ rx.pc = "load"
    /\ rx' = [rx EXCEPT !.pc = "name"]
    /\ \/ /\ rx.name # rx.data \/ FileSize[rx.data] # rx.size
          /\ Fail("dlopen") /\ UNCHANGED <<agSms, loads>>
       \/ /\ rx.name = rx.data /\ rx.name # NoSm
          /\ loads' = loads \cup {[name |-> rx.name, data |-> rx.data, size |-> rx.size]}
          /\ CASE stop.pc = "no"   -> agSms' = agSms \cup {rx.data} /\ UNCHANGED failed
               [] stop.pc = "freed" -> Fail("freed tree") /\ UNCHANGED agSms
               [] OTHER -> Fail("sm_ds_mtx") /\ UNCHANGED agSms
    /\ UNCHANGED <<ricVars, loopVars, linkVars, udp, stop>>
-----------------------------------------------------------------------------
\* e2_free_agent once the event loop has stopped: free_plugin_ag frees sm_ds,
\* destroys its mutex, sets flag_shutdown and shuts the socket down, and joins
\* the thread. A socket that is opened later is not shut down.
free_plugin_ag ==
    /\ AgentUp
    /\ \/ stop.pc = "no" /\ walk.pc = "idle" /\ stop' = [stop EXCEPT !.pc = "freed"]
       \/ stop.pc = "freed" /\ stop' = [stop EXCEPT !.pc = "destroyed"]
       \/ /\ stop.pc = "destroyed"
          /\ stop' = [pc |-> "joining", woken |-> rx.pc # "socket"]
       \/ stop.pc = "joining" /\ rx.pc = "exit" /\ stop' = [stop EXCEPT !.pc = "joined"]
    /\ UNCHANGED <<ricVars, loopVars, linkVars, rxVars, agSms, failed>>

RxThread == rx_socket \/ rx_recv \/ rx_exit \/ load_plugin_ag
EventLoop ==
    \/ handle_subscription \/ setup_size \/ setup_step \/ setup_end
    \/ \E s \in Sms : indication_event(s)

Next ==
    \/ \E s \in Runtime : load_plugin_ric(s) \/ tx_plugin_ric(s)
    \/ \E s \in Sms : report_service(s)
    \/ handle_indication \/ EventLoop \/ RxThread \/ free_plugin_ag

Spec == Init /\ [][Next]_vars

\* The thread runs, and a stop that has begun goes on; nobody has to stop.
FairSpec == Spec /\ WF_vars(RxThread) /\ WF_vars(stop.pc # "no" /\ free_plugin_ag)
-----------------------------------------------------------------------------
\* The variables have their types.
PluginTypeOK ==
    /\ pub_sub \subseteq ricSms /\ ricSms \subseteq Sms /\ asked \subseteq Sms
    /\ load \in [Runtime -> {Stages[i] : i \in DOMAIN Stages}]
    /\ rx.pc \in {"socket", "name", "size", "data", "load", "exit"}
    /\ {rx.name, rx.data} \subseteq Sms \cup {NoSm}
    /\ agSms \subseteq Sms /\ subs \subseteq Sms
    /\ walk.left \in 0 .. Cardinality(Sms) /\ walk.it \in Sms \cup {0}

\* What the agent loads is a complete file, under its own name, that the RIC
\* loaded before it: a lost, delayed or foreign datagram makes an assertion of
\* rx_plugin_agent or load_plugin_ag fail, it never makes a different plugin.
\* (With losses and parallel calls together it can: see README.md.)
LoadsWhatWasSent ==
    \A l \in loads : l.name = l.data /\ l.size = FileSize[l.data] /\ l.data \in ricSms

\* "assert(rc == sizeof(int))", "assert(rc == size)" (plugin_agent.c): when one
\* call after the other is made and nothing is lost, the three datagrams are
\* always taken for what they are.
FramingHolds ==
    ~mode.loss /\ mode.sequential =>
    {"Buffer overflow", "Memory exhausted!", "rc == size", "dlopen"} \cap failed = {}

\* The state of rx_plugin_agent and load_sm_near_ric is well formed and the
\* datagrams are taken for what they are.
PluginInvariant == PluginTypeOK /\ FramingHolds

\* A service model whose load has returned at the RIC is loaded by the agent
\* in the end if nothing is lost, unless one of the processes ends before.
EveryLoadArrives ==
    \A s \in Runtime :
        (~mode.loss /\ load[s] = "done") ~> (s \in agSms \/ failed # {} \/ stop.pc # "no")

\* Wherever rx_plugin_agent is when its socket is shut down, it ends and the
\* join in free_plugin_ag returns.
StopEnds == (stop.pc = "joining" /\ stop.woken) ~> (stop.pc = "joined" \/ ~AgentUp)

\* "Could not find a RAN function that matches the SM" (msg_handler_ric.c).
PublishFinds == "publish_ind_msg" \notin failed

\* "RAN function ID not found in the RAN" (plugin_agent.c).
AgentFindsSm == "sm_plugin_ag" \notin failed

\* "Length mismatch" (e2_agent.c).
WalkMatches == "Length mismatch" \notin failed

\* assert(rc == 0) after pthread_mutex_lock in load_plugin_ag (plugin_agent.c).
LockSucceeds == "sm_ds_mtx" \notin failed
=============================================================================
