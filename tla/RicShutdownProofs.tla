-------------------------- MODULE RicShutdownProofs --------------------------
(***************************************************************************)
(* Proofs about the life of the RIC process, for any number of start       *)
(* attempts, with and without API threads and control requests.            *)
(***************************************************************************)
EXTENDS RicShutdown, TLAPS

USE ShutdownAssumption DEF Servers

(***************************************************************************)
(* The inductive invariant.  What the loop may still touch is decided by   *)
(* three variables of two threads: where the owner is in stop_near_ric_api,*)
(* whether the loop has said that it stopped, and whether the RIC exists.  *)
(***************************************************************************)

\* The RIC is started once; its pointer is NULL exactly before that.
StartedOnce ==
  /\ main \in [pc : {"out", "wait", "join", "join_timer", "close", "join_server"},
               starts : 0 .. 1]
  /\ stop_token \in BOOLEAN /\ server_stopped \in BOOLEAN
  /\ ric = "none" <=> main.starts = 0
  /\ ric = "none" <=> loop = "none"

\* The loop says that it has stopped after its last step, and the RIC is freed
\* after that.
FreedLast ==
  /\ server_stopped => loop = "ended"
  /\ ric = "freed" => server_stopped
  /\ main.pc \notin {"out", "wait"} => ric = "freed"
  /\ main.pc = "wait" => ric = "live"

IInv == ShutdownInvariant /\ StartedOnce /\ FreedLast

(* The invariant holds before the first call of init_near_ric_api. *)
LEMMA IInvInit == Init => IInv
<1> SUFFICES ASSUME Init PROVE IInv
  OBVIOUS
<1>1. stop_token \in BOOLEAN /\ server_stopped \in BOOLEAN /\ ~server_stopped
  BY Zenon DEF Init
<1>2. /\ main = [pc |-> "out", starts |-> 0] /\ ric = "none" /\ loop = "none"
      /\ server = [s \in Servers |-> "none"] /\ open = {} /\ timer = "none"
      /\ status = "running" /\ stale = {}
  BY Zenon DEF Init
<1> QED BY <1>1, <1>2 DEF IInv, ShutdownInvariant, ShutdownTypeOK, LoopNeverStale,
           StartedOnce, FreedLast

(* A step of the thread that starts and stops the RIC keeps the invariant. *)
LEMMA OwnerKeepsIInv ==
  ASSUME IInv, Owner
  PROVE  IInv'
<1> USE DEF IInv, ShutdownInvariant, ShutdownTypeOK, LoopNeverStale, StartedOnce,
            FreedLast, Up, Goto, ricVars, iAppVars
<1>1. CASE init_near_ric_api
  <2>1. CASE ric # "none"
    BY <1>1, <2>1 DEF init_near_ric_api
  <2>2. CASE ric = "none"
    <3>1. stop_token' \in BOOLEAN /\ server_stopped' \in BOOLEAN /\ ~server_stopped'
      BY <1>1, <2>2, Zenon DEF init_near_ric_api
    <3>2. /\ main.pc = "out" /\ main' = [main EXCEPT !.starts = @ + 1]
          /\ ric' = "live" /\ loop' = "check"
          /\ UNCHANGED <<status, server, open, timer, stale>>
      BY <1>1, <2>2, Zenon DEF init_near_ric_api
    <3> QED BY <2>2, <3>1, <3>2
  <2> QED BY <2>1, <2>2
<1>2. CASE stop_near_ric_api
  BY <1>2 DEF stop_near_ric_api
<1>3. CASE free_near_ric
  BY <1>3 DEF free_near_ric
<1>4. CASE join_loop
  BY <1>4 DEF join_loop
<1>5. CASE exit_process
  BY <1>5 DEF exit_process
<1>6. CASE join_timer
  BY <1>6 DEF join_timer
<1>7. CASE close_server
  BY <1>7 DEF close_server
<1> QED BY <1>1, <1>2, <1>3, <1>4, <1>5, <1>6, <1>7 DEF Owner

(* A step of e2_event_loop_ric keeps the invariant: it is taken by a live RIC. *)
LEMMA LoopKeepsIInv ==
  ASSUME IInv, Loop
  PROVE  IInv'
<1> USE DEF IInv, ShutdownInvariant, ShutdownTypeOK, LoopNeverStale, StartedOnce,
            FreedLast, Up, Touch, ricVars, iAppVars
<1>1. CASE loop_check
  BY <1>1 DEF loop_check
<1>2. CASE loop_handle
  BY <1>2 DEF loop_handle, init_nng_iapp
<1>3. CASE loop_end
  BY <1>3 DEF loop_end
<1> QED BY <1>1, <1>2, <1>3 DEF Loop

(* API threads, servers and the timer keep the invariant. *)
LEMMA OthersKeepIInv ==
  ASSUME IInv,
         \/ api_enter \/ api_work \/ keep_alive_timer \/ Ended
         \/ \E s \in Servers : Server(s)
  PROVE  IInv'
<1> USE DEF IInv, ShutdownInvariant, ShutdownTypeOK, LoopNeverStale, StartedOnce,
            FreedLast, Up, Touch, ricVars, iAppVars
<1>1. CASE api_enter
  BY <1>1 DEF api_enter
<1>2. CASE api_work
  BY <1>2 DEF api_work
<1>3. CASE keep_alive_timer
  BY <1>3 DEF keep_alive_timer
<1>4. CASE Ended
  BY <1>4 DEF Ended, vars
<1>5. ASSUME NEW s \in Servers, server_recv(s) PROVE IInv'
  BY <1>5 DEF server_recv
<1>6. ASSUME NEW s \in Servers, server_answer(s) PROVE IInv'
  BY <1>6 DEF server_answer
<1>7. ASSUME NEW s \in Servers, server_closed(s) PROVE IInv'
  BY <1>7 DEF server_closed
<1> QED BY <1>1, <1>2, <1>3, <1>4, <1>5, <1>6, <1>7 DEF Server

(* The RIC is started once per process and the event loop never works on a *)
(* freed RIC (e2_event_loop_ric, free_near_ric).                           *)
THEOREM ShutdownSafe == Spec => []ShutdownInvariant
<1>1. Init => IInv
  BY IInvInit
<1>2. IInv /\ [Next]_vars => IInv'
  <2> SUFFICES ASSUME IInv, [Next]_vars PROVE IInv'
    OBVIOUS
  <2>1. CASE Next
    BY <2>1, OwnerKeepsIInv, LoopKeepsIInv, OthersKeepIInv DEF Next
  <2>2. CASE UNCHANGED vars
    BY <2>2 DEF vars, ricVars, iAppVars, IInv, ShutdownInvariant, ShutdownTypeOK,
       LoopNeverStale, StartedOnce, FreedLast
  <2> QED BY <2>1, <2>2
<1>3. IInv => ShutdownInvariant
  BY DEF IInv
<1> QED BY <1>1, <1>2, <1>3, PTL DEF Spec
=============================================================================
