----------------------------- MODULE NrL2Queues -----------------------------
(***************************************************************************)
(* The threads between NR PDCP and NR RLC in OpenAirInterface              *)
(* (nr_pdcp_oai_api.c, nr_rlc_oai_api.c, nr_pdcp_timer_thread.c).          *)
(*                                                                         *)
(* Each layer has one big lock. Downlink: an application thread (GTP, TUN, *)
(* RRC) enters PDCP under PDCP's lock, and the PDU it produces goes through*)
(* a bounded queue to a thread that enters RLC under RLC's lock. Uplink: a *)
(* MAC thread enters RLC under RLC's lock, and the SDU it produces goes    *)
(* through a second bounded queue to a thread that enters PDCP. Both       *)
(* queues have one condition variable for "full" and "empty" together and  *)
(* wake a single waiter. Entities disappear when RRC removes a UE.         *)
(*                                                                         *)
(* A packet is abstracted to the UE it belongs to. A step is what happens  *)
(* between two operations on a lock or a condition variable.               *)
(***************************************************************************)
EXTENDS Integers, Sequences, FiniteSets

CONSTANTS Apps,          \* threads that call pdcp_data_req
          Macs,          \* threads that call mac_rlc_data_ind
          UEs,           \* the UEs, identified by their rnti
          Removable,     \* those RRC may remove
          QueueSize,     \* RLC_DATA_REQ_QUEUE_SIZE, PDCP_DATA_IND_QUEUE_SIZE
          MaxDl          \* how many downlink packets the applications have on
                         \* their way to RLC at most

ASSUME QueuesAssumption ==
    /\ QueueSize \in Nat \ {0} /\ MaxDl \in Nat \ {0}
    /\ UEs # {} /\ Removable \subseteq UEs
    /\ IsFiniteSet(Apps)
    /\ Apps \cap Macs = {}
    /\ (Apps \cup Macs) \cap {"rlcThread", "pdcpThread", "timer", "rrc", "none"} = {}

Queues == {"rlcQ", "pdcpQ"}
Layers == {"pdcp", "rlc"}
Producers == Apps \cup Macs
Consumers == {"rlcThread", "pdcpThread"}
Threads == Producers \cup Consumers \cup {"timer"}

\* The layer a thread enters, and the queue it feeds or empties.
LayerOf(t) == IF t \in Apps \cup {"pdcpThread", "timer"} THEN "pdcp" ELSE "rlc"
QueueOf(t) == IF t \in Apps \cup {"rlcThread"} THEN "rlcQ" ELSE "pdcpQ"

VARIABLES lock,      \* who holds a layer's lock
          start, length, slot,   \* the two queues
          waiting,   \* threads in pthread_cond_wait on a queue
          pc, ue,    \* where a thread is, and the UE of its packet
          rbs,       \* per layer, the UEs that have an entity
          newTime,   \* timer_thread_curtime differs from the thread's curtime
          exited,    \* exit(1) was called
          queued     \* history: packets enqueued and not handled, in order

lockVars == <<lock, rbs>>
queueVars == <<start, length, slot, waiting>>
threadVars == <<pc, ue>>

\* What a variable holds that nobody reads any more.
AnyUe == CHOOSE u \in UEs : TRUE
Forget(t) == ue' = [ue EXCEPT ![t] = AnyUe]
vars == <<lockVars, queueVars, threadVars, newTime, exited, queued>>
-----------------------------------------------------------------------------
Init ==
    /\ lock = [l \in Layers |-> "none"]
    /\ start = [q \in Queues |-> 0] /\ length = [q \in Queues |-> 0]
    /\ slot = [q \in Queues |-> [i \in 0 .. QueueSize - 1 |-> AnyUe]]
    /\ waiting = [q \in Queues |-> {}]
    /\ pc = [t \in Threads |-> "idle"]
    /\ ue = [t \in Threads |-> AnyUe]
    /\ rbs = [l \in Layers |-> UEs]
    /\ newTime = FALSE /\ exited = FALSE
    /\ queued = [q \in Queues |-> <<>>]

Goto(t, where) == pc' = [pc EXCEPT ![t] = where]

Lock(t, from, to) ==
    /\ pc[t] = from /\ lock[LayerOf(t)] = "none"
    /\ lock' = [lock EXCEPT ![LayerOf(t)] = t]
    /\ Goto(t, to)

Unlock(t, from, to) ==
    /\ pc[t] = from
    /\ lock' = [lock EXCEPT ![LayerOf(t)] = "none"]
    /\ Goto(t, to)

\* pthread_cond_signal with the threads w waiting: one of them, whichever it
\* waits for, is woken.
Signal(q, w) ==
    \/ w = {} /\ waiting' = [waiting EXCEPT ![q] = w]
    \/ \E t \in w : waiting' = [waiting EXCEPT ![q] = w \ {t}]
-----------------------------------------------------------------------------
(* Producers: pdcp_data_req in an application, mac_rlc_data_ind in a MAC     *)
(* thread, up to the return of the enqueue function.                         *)

OnTheWay == Len(queued["rlcQ"]) + Cardinality({a \in Apps : pc[a] \in {"locked", "enqueue"}})

ProducerLock(t, u) ==
    /\ t \in Apps => OnTheWay < MaxDl
    /\ Lock(t, "idle", "locked")
    /\ ue' = [ue EXCEPT ![t] = u]
    /\ UNCHANGED <<rbs, queueVars, newTime, exited, queued>>

\* The entity is looked up under the lock; without one the call logs and
\* returns.
FindRb(t) ==
    /\ pc[t] = "locked"
    /\ Goto(t, IF ue[t] \in rbs[LayerOf(t)] THEN "enqueue" ELSE "done")
    /\ UNCHANGED <<lockVars, queueVars, ue, newTime, exited, queued>>

\* Mutant: the queue counts as full one packet early.
WaitAlmostFull(t, q) ==
    /\ pc[t] = "enqueue" /\ t \notin waiting[q]
    /\ length[q] >= QueueSize - 1
    /\ waiting' = [waiting EXCEPT ![q] = @ \cup {t}]
    /\ UNCHANGED <<lockVars, start, length, slot, threadVars, newTime, exited, queued>>

WaitNotFull(t, q) ==
    /\ pc[t] = "enqueue" /\ t \notin waiting[q]
    /\ length[q] = QueueSize
    /\ waiting' = [waiting EXCEPT ![q] = @ \cup {t}]
    /\ UNCHANGED <<lockVars, start, length, slot, threadVars, newTime, exited, queued>>

\* Mutants: the slot is the one of the oldest packet; the queue is full one
\* packet later.
EnqueueAtStart(t, q) ==
    /\ pc[t] = "enqueue" /\ t \notin waiting[q]
    /\ length[q] < QueueSize
    /\ slot' = [slot EXCEPT ![q][start[q]] = ue[t]]
    /\ length' = [length EXCEPT ![q] = @ + 1]
    /\ Signal(q, waiting[q])
    /\ Goto(t, "done")
    /\ queued' = [queued EXCEPT ![q] = Append(@, ue[t])]
    /\ UNCHANGED <<lockVars, start, ue, newTime, exited>>

EnqueueOneMore(t, q) ==
    /\ pc[t] = "enqueue" /\ t \notin waiting[q]
    /\ length[q] <= QueueSize
    /\ slot' = [slot EXCEPT ![q][(start[q] + length[q]) % QueueSize] = ue[t]]
    /\ length' = [length EXCEPT ![q] = @ + 1]
    /\ Signal(q, waiting[q])
    /\ Goto(t, "done")
    /\ queued' = [queued EXCEPT ![q] = Append(@, ue[t])]
    /\ UNCHANGED <<lockVars, start, ue, newTime, exited>>

Enqueue(t, q) ==
    /\ pc[t] = "enqueue" /\ t \notin waiting[q]
    /\ length[q] < QueueSize
    /\ slot' = [slot EXCEPT ![q][(start[q] + length[q]) % QueueSize] = ue[t]]
    /\ length' = [length EXCEPT ![q] = @ + 1]
    /\ Signal(q, waiting[q])
    /\ Goto(t, "done")
    /\ queued' = [queued EXCEPT ![q] = Append(@, ue[t])]
    /\ UNCHANGED <<lockVars, start, ue, newTime, exited>>

ProducerUnlock(t) ==
    /\ Unlock(t, "done", "idle") /\ Forget(t)
    /\ UNCHANGED <<rbs, queueVars, newTime, exited, queued>>
-----------------------------------------------------------------------------
(* Consumers: rlc_data_req_thread and pdcp_data_ind_thread.                  *)

WaitNotEmpty(c, q) ==
    /\ pc[c] = "idle" /\ c \notin waiting[q]
    /\ length[q] = 0
    /\ waiting' = [waiting EXCEPT ![q] = @ \cup {c}]
    /\ UNCHANGED <<lockVars, start, length, slot, threadVars, newTime, exited, queued>>

\* The thread notes the slot and leaves the queue's mutex; the packet stays in
\* the queue while it is handled.
Peek(c, q) ==
    /\ pc[c] = "idle" /\ c \notin waiting[q]
    /\ length[q] > 0
    /\ Goto(c, "picked")
    /\ UNCHANGED <<lockVars, queueVars, ue, newTime, exited, queued>>

ConsumerLock(c) ==
    /\ Lock(c, "picked", "locked")
    /\ UNCHANGED <<rbs, queueVars, ue, newTime, exited, queued>>

\* rlc_data_req, do_pdcp_data_ind: the slot is read now. Without an entity the
\* process exits.
Handle(c, q) ==
    /\ pc[c] = "locked"
    /\ ue' = [ue EXCEPT ![c] = slot[q][start[q]]]
    /\ exited' = (slot[q][start[q]] \notin rbs[LayerOf(c)])
    /\ Goto(c, "handled")
    /\ UNCHANGED <<lockVars, queueVars, newTime, queued>>

ConsumerUnlock(c) ==
    /\ Unlock(c, "handled", "pop")
    /\ UNCHANGED <<rbs, queueVars, ue, newTime, exited, queued>>

\* Mutant: the consumer does not signal.
PopSilently(c, q) ==
    /\ pc[c] = "pop"
    /\ length' = [length EXCEPT ![q] = @ - 1]
    /\ start' = [start EXCEPT ![q] = (@ + 1) % QueueSize]
    /\ Goto(c, "idle") /\ Forget(c)
    /\ queued' = [queued EXCEPT ![q] = Tail(@)]
    /\ UNCHANGED <<lockVars, slot, waiting, newTime, exited>>

Pop(c, q) ==
    /\ pc[c] = "pop"
    /\ length' = [length EXCEPT ![q] = @ - 1]
    /\ start' = [start EXCEPT ![q] = (@ + 1) % QueueSize]
    /\ Signal(q, waiting[q])
    /\ Goto(c, "idle") /\ Forget(c)
    /\ queued' = [queued EXCEPT ![q] = Tail(@)]
    /\ UNCHANGED <<lockVars, slot, newTime, exited>>
-----------------------------------------------------------------------------
(* The PDCP timer thread, and RRC.                                           *)

\* nr_pdcp_tick; a second tick before the thread runs changes nothing here.
Tick ==
    /\ ~newTime /\ newTime' = TRUE
    /\ UNCHANGED <<lockVars, queueVars, threadVars, exited, queued>>

TimerLock ==
    /\ newTime /\ newTime' = FALSE
    /\ Lock("timer", "idle", "handled")
    /\ UNCHANGED <<rbs, queueVars, ue, exited, queued>>

TimerUnlock ==
    /\ Unlock("timer", "handled", "idle")
    /\ UNCHANGED <<rbs, queueVars, ue, newTime, exited, queued>>

\* rrc_rlc_remove_ue and pdcp_remove_UE, called one after the other.
RemoveUe(l, u) ==
    /\ lock[l] = "none" /\ u \in rbs[l] \cap Removable
    /\ l = "pdcp" => u \notin rbs["rlc"]
    /\ rbs' = [rbs EXCEPT ![l] = @ \ {u}]
    /\ UNCHANGED <<lock, queueVars, threadVars, newTime, exited, queued>>

\* add_drb of PDCP and of RLC, called one after the other when the UE is back.
AddUe(l, u) ==
    /\ lock[l] = "none" /\ u \notin rbs[l]
    /\ IF l = "rlc" THEN u \in rbs["pdcp"] ELSE u \notin rbs["rlc"]
    /\ rbs' = [rbs EXCEPT ![l] = @ \cup {u}]
    /\ UNCHANGED <<lock, queueVars, threadVars, newTime, exited, queued>>

ProducerStep(t) ==
    \/ \E u \in UEs : ProducerLock(t, u)
    \/ FindRb(t) \/ WaitNotFull(t, QueueOf(t)) \/ Enqueue(t, QueueOf(t)) \/ ProducerUnlock(t)

ConsumerStep(c) ==
    \/ WaitNotEmpty(c, QueueOf(c)) \/ Peek(c, QueueOf(c)) \/ ConsumerLock(c)
    \/ Handle(c, QueueOf(c)) \/ ConsumerUnlock(c) \/ Pop(c, QueueOf(c))

Next ==
    /\ ~exited
    /\ \/ \E t \in Producers : ProducerStep(t)
       \/ \E c \in Consumers : ConsumerStep(c)
       \/ Tick \/ TimerLock \/ TimerUnlock
       \/ \E l \in Layers, u \in UEs : RemoveUe(l, u) \/ AddUe(l, u)

\* Threads that are not blocked go on. Nothing is assumed about who gets a
\* lock that several threads want.
Fairness ==
    /\ \A t \in Producers : WF_vars(~exited /\ (FindRb(t) \/ Enqueue(t, QueueOf(t)) \/ ProducerUnlock(t)))
    /\ \A c \in Consumers : WF_vars(~exited /\ ConsumerStep(c))
    /\ WF_vars(~exited /\ TimerUnlock)

Spec == Init /\ [][Next]_vars /\ Fairness
-----------------------------------------------------------------------------
\* The variables stay within the types of the C variables.
QueuesTypeOK ==
    /\ lock \in [Layers -> Threads \cup {"none"}]
    /\ rbs \in [Layers -> SUBSET UEs]
    /\ start \in [Queues -> 0 .. QueueSize - 1]
    /\ length \in [Queues -> 0 .. QueueSize]
    /\ slot \in [Queues -> [0 .. QueueSize - 1 -> UEs]]
    /\ waiting \in [Queues -> SUBSET Threads]
    /\ pc \in [Threads -> {"idle", "locked", "enqueue", "done", "picked", "handled", "pop"}]
    /\ ue \in [Threads -> UEs]
    /\ newTime \in BOOLEAN /\ exited \in BOOLEAN
    /\ queued \in [Queues -> Seq(UEs)]

\* The ring is the FIFO of the packets enqueued and not handled, although a
\* packet is read outside the queue's mutex: no producer overwrites a slot
\* that waits or is being read.
RingIsFifo ==
    \A q \in Queues :
        /\ length[q] = Len(queued[q])
        /\ \A i \in 1 .. length[q] : slot[q][(start[q] + i - 1) % QueueSize] = queued[q][i]

\* The rings of enqueue_rlc_data_req and enqueue_pdcp_data_ind are well formed
\* and are FIFOs.
RingInvariant == QueuesTypeOK /\ RingIsFifo

\* One condition variable is enough: whoever sleeps on a queue does so because
\* of the queue's present length. So no wake-up is lost, although a signal may
\* reach a thread of the other kind: what a sleeper waits for has not happened.
NoLostWakeup ==
    \A q \in Queues :
        /\ waiting[q] \cap Consumers # {} => length[q] = 0
        /\ waiting[q] \cap Producers # {} => length[q] = QueueSize

\* "To avoid the resulting deadlock it is enough to ensure that a call to
\* lock(pdcp) will never be followed by a call to lock(rlc)"
\* (nr_pdcp_oai_api.c): an application that waits for room holding PDCP's
\* lock and a MAC thread that waits for room holding RLC's lock do not wait
\* for each other's consumers. It takes two full queues to violate it, so it
\* holds while MaxDl packets leave room in the downlink queue (README.md).
NoCircularWait ==
    ~ /\ \E a \in Apps : a \in waiting["rlcQ"] /\ lock["pdcp"] = a
      /\ \E m \in Macs : m \in waiting["pdcpQ"] /\ lock["rlc"] = m
      /\ pc["rlcThread"] = "picked" /\ pc["pdcpThread"] = "picked"

\* "fatal: SDU sent to unknown RB" and "fatal: no RB found" are reported, with
\* exit(1), for a packet whose UE has no entity: it takes no packet to end the
\* process.
NeverExits == ~exited

\* While the applications and the timer leave PDCP's lock alone, a MAC thread
\* that waits for room gets it, unless the process ends: the wake-ups of queue
\* and consumer reach the thread they are needed by.
MacMovesOn ==
    []~exited /\ <>[](\A t \in Apps \cup {"timer"} : pc[t] = "idle") =>
        \A m \in Macs : []<>(pc[m] # "enqueue")
=============================================================================
