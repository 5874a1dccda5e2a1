---------------------------- MODULE RicShutdown ----------------------------
(***************************************************************************)
(* The life of a near-RT RIC process (near_ric_api.c, near_ric.c and the   *)
(* nng iApp): one thread starts and stops the RIC and ends the process,    *)
(* while the event loop, the keep-alive timer, the three request servers   *)
(* and another thread that calls the API go on.                            *)
(***************************************************************************)
EXTENDS Integers, Sequences, FiniteSets

CONSTANTS Restarts,     \* bound: how often init_near_ric_api is called
          CallsApi,     \* whether another thread calls the API
          Controls      \* whether xApps send control requests

ASSUME ShutdownAssumption ==
    Restarts \in Nat \ {0} /\ {CallsApi, Controls} \subseteq BOOLEAN

Servers == {"ping", "msg", "ctrl"}

VARIABLES main,         \* the thread that owns the RIC, and how often it did start it
          ric,          \* the object: none, live or freed; the pointer stays
          stop_token, server_stopped,
          loop,         \* the thread of e2_event_loop_ric
          api,          \* a thread inside a call of near_ric_api.c, or not
          server,       \* the threads of req_reply.c
          open,         \* the servers' sockets that are open
          timer,        \* run_keep_alive_timer
          stop_flag,
          status,       \* the exit status of the process
          stale         \* who has used freed memory

ricVars == <<ric, stop_token, server_stopped>>
iAppVars == <<server, open, timer, stop_flag>>
vars == <<main, ricVars, loop, api, iAppVars, status, stale>>

Init ==
    /\ main = [pc |-> "out", starts |-> 0]
    /\ ric = "none" /\ stop_token = FALSE /\ server_stopped = FALSE
    /\ loop = "none" /\ api = "out"
    /\ server = [s \in Servers |-> "none"] /\ open = {} /\ timer = "none"
    /\ stop_flag = TRUE
    /\ status = "running" /\ stale = {}

Up == status = "running"
Goto(pc) == main' = [main EXCEPT !.pc = pc]

\* A thread w reads or writes the RIC.
Touch(w) == stale' = IF ric = "live" THEN stale ELSE stale \cup {w}
-----------------------------------------------------------------------------
\* Mutant: a second start is let through.
init_near_ric_api_again ==
    /\ Up /\ main.pc = "out" /\ main.starts < Restarts /\ ric # "live"
    /\ main' = [main EXCEPT !.starts = @ + 1]
    /\ ric' = "live" /\ stop_token' = FALSE /\ server_stopped' = FALSE
    /\ loop' = "check"
    /\ UNCHANGED <<api, iAppVars, status, stale>>

\* init_near_ric_api, by a caller that knows whether the RIC runs. The pointer is NULL only before the first call.
init_near_ric_api ==
    /\ Up /\ main.pc = "out" /\ main.starts < Restarts /\ ric # "live"
    /\ IF ric # "none"
         THEN status' = "assert" /\ UNCHANGED <<main, ricVars, loop>>
         ELSE /\ main' = [main EXCEPT !.starts = @ + 1]
              /\ ric' = "live" /\ stop_token' = FALSE /\ server_stopped' = FALSE
              /\ loop' = "check" /\ UNCHANGED status
    /\ UNCHANGED <<api, iAppVars, stale>>

\* stop_near_ric_api calls free_near_ric: the stop token is set.
stop_near_ric_api ==
    /\ Up /\ main.pc = "out" /\ ric = "live"
    /\ stop_token' = TRUE /\ Goto("wait")
    /\ UNCHANGED <<ric, server_stopped, loop, api, iAppVars, status, stale>>

\* Mutant: the loop is not waited for.
free_near_ric_at_once ==
    /\ Up /\ main.pc = "wait"
    /\ ric' = "freed" /\ Goto("join")
    /\ UNCHANGED <<stop_token, server_stopped, loop, api, iAppVars, status, stale>>

\* free_near_ric once the loop says that it has stopped.
free_near_ric ==
    /\ Up /\ main.pc = "wait" /\ server_stopped
    /\ ric' = "freed" /\ Goto("join")
    /\ UNCHANGED <<stop_token, server_stopped, loop, api, iAppVars, status, stale>>

\* pthread_join(t_near_ric).
join_loop ==
    /\ Up /\ main.pc = "join" /\ loop = "ended"
    /\ Goto("out")
    /\ UNCHANGED <<ricVars, loop, api, iAppVars, status, stale>>
-----------------------------------------------------------------------------
\* e2_event_loop_ric looks at the stop token.
loop_check ==
    /\ Up /\ loop = "check"
    /\ loop' = IF stop_token THEN "stopping" ELSE "handle"
    /\ Touch("loop")
    /\ UNCHANGED <<main, ricVars, api, iAppVars, status>>

\* init_nng_iapp, once: the keep-alive timer and the servers.
init_nng_iapp ==
    /\ timer = "none"
    /\ timer' = "check" /\ stop_flag' = FALSE
    /\ server' = [s \in Servers |-> "recv"] /\ open' = Servers

\* A message or a timer is handled; the first indication starts the iApp.
loop_handle ==
    /\ Up /\ loop = "handle"
    /\ loop' = "check"
    /\ Touch("loop")
    /\ init_nng_iapp \/ UNCHANGED iAppVars
    /\ UNCHANGED <<main, ricVars, api, status>>

\* Mutant: the loop ends without saying so.
loop_end_silent ==
    /\ Up /\ loop = "stopping"
    /\ loop' = "ended"
    /\ UNCHANGED <<main, ricVars, api, iAppVars, status, stale>>

\* ric->server_stopped = true is the loop's last access.
loop_end ==
    /\ Up /\ loop = "stopping"
    /\ loop' = "ended" /\ server_stopped' = TRUE
    /\ Touch("loop")
    /\ UNCHANGED <<main, ric, stop_token, api, iAppVars, status>>
-----------------------------------------------------------------------------
\* A call of the API: assert(ric != NULL), then its work.
api_enter ==
    /\ Up /\ CallsApi /\ api = "out" /\ ric # "none"
    /\ api' = "in"
    /\ UNCHANGED <<main, ricVars, loop, iAppVars, status, stale>>

api_work ==
    /\ Up /\ api = "in"
    /\ api' = "out" /\ Touch("api")
    /\ UNCHANGED <<main, ricVars, loop, iAppVars, status>>

\* A server receives a request; the control server calls the API for it.
server_recv(s) ==
    /\ Up /\ server[s] = "recv" /\ s \in open
    /\ s = "ctrl" => Controls
    /\ server' = [server EXCEPT ![s] = "busy"]
    /\ UNCHANGED <<main, ricVars, loop, api, open, timer, stop_flag, status, stale>>

\* It answers; with its socket closed nng_send fails and fatal ends the
\* process.
server_answer(s) ==
    /\ Up /\ server[s] = "busy"
    /\ IF s = "ctrl" THEN Touch("ctrl") ELSE UNCHANGED stale
    /\ IF s \in open
         THEN server' = [server EXCEPT ![s] = "recv"] /\ UNCHANGED status
         ELSE status' = "fatal" /\ UNCHANGED server
    /\ UNCHANGED <<main, ricVars, loop, api, open, timer, stop_flag>>

\* Mutant: a failed nng_recv is tried again.
server_closed_retries(s) ==
    /\ Up /\ server[s] = "recv" /\ s \notin open
    /\ UNCHANGED vars

\* nng_recv on a closed socket fails: fatal, which calls exit(1).
server_closed(s) ==
    /\ Up /\ server[s] = "recv" /\ s \notin open
    /\ status' = "fatal"
    /\ UNCHANGED <<main, ricVars, loop, api, iAppVars, stale>>

\* run_keep_alive_timer: look at the flag, then wait for the timer.
keep_alive_timer ==
    /\ Up
    /\ \/ timer = "check" /\ timer' = IF stop_flag THEN "ended" ELSE "wait"
       \/ timer = "wait" /\ timer' = "check"
    /\ UNCHANGED <<main, ricVars, loop, api, server, open, stop_flag, status, stale>>
-----------------------------------------------------------------------------
\* exit(0) after stop_near_ric_api, with stop_nng_listener as atexit handler:
\* stop_keep_alive_timer sets the flag.
exit_process ==
    /\ Up /\ main.pc = "out" /\ ric = "freed"
    /\ IF timer = "none"
         THEN status' = "0" /\ UNCHANGED <<main, stop_flag>>
         ELSE Goto("join_timer") /\ stop_flag' = TRUE /\ UNCHANGED status
    /\ UNCHANGED <<ricVars, loop, api, server, open, timer, stale>>

join_timer ==
    /\ Up /\ main.pc = "join_timer" /\ timer = "ended"
    /\ Goto("close")
    /\ UNCHANGED <<ricVars, loop, api, iAppVars, status, stale>>

\* stop_req_reply_server for the first server: close the socket, then join
\* its thread, which never returns from its loop.
close_server ==
    /\ Up /\ main.pc = "close"
    /\ open' = open \ {"ping"} /\ Goto("join_server")
    /\ UNCHANGED <<ricVars, loop, api, server, timer, stop_flag, status, stale>>

Owner ==
    \/ init_near_ric_api \/ stop_near_ric_api \/ free_near_ric \/ join_loop
    \/ exit_process \/ join_timer \/ close_server

Loop == loop_check \/ loop_handle \/ loop_end
Server(s) == server_recv(s) \/ server_answer(s) \/ server_closed(s)

\* The process has ended, with a status.
Ended == ~Up /\ UNCHANGED vars

Next ==
    \/ Owner \/ Loop \/ api_enter \/ api_work
    \/ \E s \in Servers : Server(s)
    \/ keep_alive_timer \/ Ended

Fairness ==
    /\ WF_vars(free_near_ric \/ join_loop \/ join_timer \/ close_server)
    /\ WF_vars(Loop) /\ WF_vars(keep_alive_timer)
    /\ \A s \in Servers : WF_vars(server_answer(s) \/ server_closed(s))

Spec == Init /\ [][Next]_vars /\ Fairness
-----------------------------------------------------------------------------
\* The variables have their types; a process starts its RIC once.
ShutdownTypeOK ==
    /\ main.pc \in {"out", "wait", "join", "join_timer", "close", "join_server"}
    /\ main.starts \in 0 .. 1
    /\ ric \in {"none", "live", "freed"} /\ timer \in {"none", "check", "wait", "ended"}
    /\ loop \in {"none", "check", "handle", "stopping", "ended"}
    /\ server \in [Servers -> {"none", "recv", "busy"}] /\ open \subseteq Servers
    /\ status \in {"running", "assert", "fatal", "0"}

\* The event loop never meets a freed RIC, whichever of its steps the stop
\* falls into: server_stopped is set by its last access.
LoopNeverStale == "loop" \notin stale

\* The RIC's process is in a known state and its loop never works on freed
\* memory.
ShutdownInvariant == ShutdownTypeOK /\ LoopNeverStale

\* A call of stop_near_ric_api returns, however busy the loop is.
StopReturns == main.pc = "wait" ~> main.pc = "out" \/ ~Up

\* Once the process begins to exit it ends: no join waits for ever.
ExitEnds == main.pc = "join_timer" ~> ~Up

\* "assert(ric!= NULL)" (near_ric_api.c): a call that passes it works on a RIC
\* that exists.
ApiGuarded == stale \cap {"api", "ctrl"} = {}

\* "at exit clean the resources taken" (notify_nng_listener.c): the exit
\* handler closes the servers' sockets and the process ends as asked.
ExitCleans == status # "fatal"

\* "assert(ric == NULL)" (near_ric_api.c): the RIC can be started whenever it
\* is not running, as py_wrapp.c does after a stop.
CanRestart == status # "assert"
=============================================================================
