-------------------------- MODULE NrL2QueuesProofs --------------------------
(***************************************************************************)
(* Proofs about the threads and queues between NR PDCP and NR RLC, for any *)
(* application and MAC threads, any UEs and any size of the queues.        *)
(***************************************************************************)
EXTENDS NrL2Queues, FiniteSetTheorems, TLAPS

USE QueuesAssumption DEF Queues, Layers

(***************************************************************************)
(* The inductive invariant.                                                *)
(***************************************************************************)
ProducerPc == {"idle", "locked", "enqueue", "done"}
ConsumerPc == {"idle", "picked", "locked", "handled", "pop"}

\* Thread t is between a lock and the unlock of its layer.
Inside(t) ==
  \/ t \in Producers /\ pc[t] \in {"locked", "enqueue", "done"}
  \/ t \in Consumers \cup {"timer"} /\ pc[t] \in {"locked", "handled"}

\* A layer's big lock excludes.
LocksHeld ==
  /\ \A t \in Producers : pc[t] \in ProducerPc
  /\ \A c \in Consumers : pc[c] \in ConsumerPc
  /\ pc["timer"] \in {"idle", "handled"}
  /\ \A t \in Threads : Inside(t) => lock[LayerOf(t)] = t

\* A sleeper is at its wait, in its own queue, and its condition does not hold.
SleepersRight ==
  \A q \in Queues : \A t \in waiting[q] :
    /\ t \in Producers \cup Consumers /\ QueueOf(t) = q
    /\ t \in Producers => pc[t] = "enqueue" /\ length[q] = QueueSize
    /\ t \in Consumers => pc[t] = "idle" /\ length[q] = 0

\* The packet a consumer works on is still in the queue.
PickedIsQueued ==
  \A c \in Consumers : pc[c] # "idle" => length[QueueOf(c)] > 0

IInv == RingInvariant /\ LocksHeld /\ SleepersRight /\ PickedIsQueued

-----------------------------------------------------------------------------
(* The places of a ring: sums of two indices wrap at most once. *)
LEMMA RingIndex ==
  ASSUME NEW a \in 0 .. QueueSize - 1, NEW b \in 0 .. QueueSize
  PROVE  /\ (a + b) % QueueSize = IF a + b < QueueSize THEN a + b ELSE a + b - QueueSize
         /\ (a + b) % QueueSize \in 0 .. QueueSize - 1
OBVIOUS

LEMMA PlacesDiffer ==
  ASSUME NEW a \in 0 .. QueueSize - 1, NEW b \in 0 .. QueueSize - 1,
         NEW c \in 0 .. QueueSize - 1, b # c
  PROVE  (a + b) % QueueSize # (a + c) % QueueSize
<1>1. /\ (a + b) % QueueSize = IF a + b < QueueSize THEN a + b ELSE a + b - QueueSize
      /\ (a + c) % QueueSize = IF a + c < QueueSize THEN a + c ELSE a + c - QueueSize
  BY RingIndex
<1> QED BY <1>1

LEMMA NextPlace ==
  ASSUME NEW a \in 0 .. QueueSize - 1, NEW i \in 1 .. QueueSize - 1
  PROVE  (((a + 1) % QueueSize) + i - 1) % QueueSize = (a + (i + 1) - 1) % QueueSize
<1>1. CASE a + 1 < QueueSize
  <2>1. (a + 1) % QueueSize = a + 1
    BY <1>1
  <2> QED BY <2>1
<1>2. CASE a = QueueSize - 1
  <2>1. (a + 1) % QueueSize = 0
    BY <1>2
  <2>2. (a + i) % QueueSize = i - 1
    <3>1. i \in 0 .. QueueSize /\ a + i >= QueueSize /\ a + i - QueueSize = i - 1
      BY <1>2
    <3>2. (a + i) % QueueSize = IF a + i < QueueSize THEN a + i ELSE a + i - QueueSize
      BY <3>1, RingIndex
    <3> QED BY <3>1, <3>2
  <2>3. (i - 1) % QueueSize = i - 1
    OBVIOUS
  <2>4. a + (i + 1) - 1 = a + i /\ 0 + i - 1 = i - 1
    OBVIOUS
  <2> QED BY <2>1, <2>2, <2>3, <2>4
<1> QED BY <1>1, <1>2

(* The threads are told apart. *)
LEMMA ThreadKinds ==
  /\ Producers \subseteq Threads /\ Consumers \subseteq Threads /\ "timer" \in Threads
  /\ Producers \cap Consumers = {}
  /\ "timer" \notin Producers \cup Consumers
  /\ "none" \notin Threads
  /\ \A t \in Threads : LayerOf(t) \in Layers /\ QueueOf(t) \in Queues
  /\ \A c, d \in Consumers : QueueOf(c) = QueueOf(d) => c = d
  /\ \A t, u \in Producers : QueueOf(t) = QueueOf(u) => LayerOf(t) = LayerOf(u)
  /\ AnyUe \in UEs
BY DEF Producers, Consumers, Threads, LayerOf, QueueOf, AnyUe

(* A queue has at most one sleeper: its producers exclude each other and     *)
(* its consumer sleeps on an empty queue only.                               *)
LEMMA OneSleeper ==
  ASSUME IInv, NEW q \in Queues, NEW t \in waiting[q], NEW u \in waiting[q]
  PROVE  t = u
<1>1. CASE t \in Producers /\ u \in Producers
  <2>1. Inside(t) /\ Inside(u)
    BY <1>1 DEF IInv, SleepersRight, Inside
  <2> QED BY <1>1, <2>1, ThreadKinds DEF IInv, SleepersRight, LocksHeld
<1>2. CASE t \in Consumers /\ u \in Consumers
  BY <1>2, ThreadKinds DEF IInv, SleepersRight
<1> QED BY <1>1, <1>2 DEF IInv, SleepersRight

(* So a signal wakes the one thread that sleeps. *)
LEMMA SignalWakesAll ==
  ASSUME IInv, NEW q \in Queues, Signal(q, waiting[q])
  PROVE  waiting' = [waiting EXCEPT ![q] = {}]
<1>1. \A t, u \in waiting[q] : t = u
  BY OneSleeper
<1>2. ASSUME NEW t \in waiting[q] PROVE waiting[q] \ {t} = {}
  BY <1>1, <1>2
<1> QED BY <1>2 DEF Signal

(* A producer that enqueues is alone at its queue: nobody of its kind sleeps. *)
LEMMA EnqueuerAlone ==
  ASSUME IInv, NEW t \in Producers, pc[t] = "enqueue", t \notin waiting[QueueOf(t)]
  PROVE  waiting[QueueOf(t)] \cap Producers = {}
<1> SUFFICES ASSUME NEW u \in waiting[QueueOf(t)], u \in Producers PROVE FALSE
  OBVIOUS
<1>1. QueueOf(u) = QueueOf(t) /\ pc[u] = "enqueue"
  BY ThreadKinds DEF IInv, SleepersRight
<1>2. Inside(t) /\ Inside(u)
  BY <1>1 DEF Inside
<1>3. lock[LayerOf(t)] = t /\ lock[LayerOf(u)] = u /\ LayerOf(t) = LayerOf(u)
  BY <1>1, <1>2, ThreadKinds DEF IInv, LocksHeld
<1> QED BY <1>3
-----------------------------------------------------------------------------
(* The invariant holds at the start. *)
LEMMA IInvInit == Init => IInv
<1> SUFFICES ASSUME Init PROVE IInv
  OBVIOUS
<1> USE ThreadKinds
<1>1. newTime \in BOOLEAN /\ exited \in BOOLEAN
  BY Zenon DEF Init
<1>2. /\ lock = [l \in Layers |-> "none"] /\ rbs = [l \in Layers |-> UEs]
      /\ start = [q \in Queues |-> 0] /\ length = [q \in Queues |-> 0]
      /\ slot = [q \in Queues |-> [i \in 0 .. QueueSize - 1 |-> AnyUe]]
      /\ waiting = [q \in Queues |-> {}]
      /\ pc = [t \in Threads |-> "idle"] /\ ue = [t \in Threads |-> AnyUe]
      /\ queued = [q \in Queues |-> <<>>]
  BY Zenon DEF Init
<1>3. QueuesTypeOK
  BY <1>1, <1>2 DEF QueuesTypeOK
<1>4. RingIsFifo
  BY <1>2 DEF RingIsFifo
<1>5. LocksHeld
  BY <1>2 DEF LocksHeld, Inside, ProducerPc, ConsumerPc
<1>6. SleepersRight /\ PickedIsQueued
  BY <1>2 DEF SleepersRight, PickedIsQueued
<1> QED BY <1>3, <1>4, <1>5, <1>6 DEF IInv, RingInvariant

(* Taking and releasing a layer's lock keep what is said about the locks. *)
LEMMA LockKeepsLocks ==
  ASSUME IInv, NEW t \in Threads, NEW from, NEW to, Lock(t, from, to),
         \/ t \in Producers /\ to \in ProducerPc
         \/ t \in Consumers /\ to \in ConsumerPc
         \/ t = "timer" /\ to = "handled"
  PROVE  /\ LocksHeld'
         /\ lock' \in [Layers -> Threads \cup {"none"}]
         /\ pc' \in [Threads -> ProducerPc \cup ConsumerPc]
<1> USE ThreadKinds
<1>1. /\ lock \in [Layers -> Threads \cup {"none"}]
      /\ pc \in [Threads -> ProducerPc \cup ConsumerPc]
  BY DEF IInv, RingInvariant, QueuesTypeOK, ProducerPc, ConsumerPc
<1>2. /\ lock[LayerOf(t)] = "none" /\ lock' = [lock EXCEPT ![LayerOf(t)] = t]
      /\ pc' = [pc EXCEPT ![t] = to]
  BY DEF Lock, Goto
<1>3. ASSUME NEW u \in Threads, Inside(u)' PROVE lock'[LayerOf(u)] = u
  <2>1. CASE u = t
    BY <1>1, <1>2, <2>1
  <2>2. CASE u # t
    <3>1. Inside(u)
      BY <1>1, <1>2, <1>3, <2>2 DEF Inside
    <3>2. lock[LayerOf(u)] = u
      BY <3>1 DEF IInv, LocksHeld
    <3> QED BY <1>1, <1>2, <3>2
  <2> QED BY <2>1, <2>2
<1>4. LocksHeld'
  BY <1>1, <1>2, <1>3 DEF IInv, LocksHeld
<1> QED BY <1>1, <1>2, <1>4 DEF ProducerPc, ConsumerPc

LEMMA UnlockKeepsLocks ==
  ASSUME IInv, NEW t \in Threads, NEW from, NEW to, Unlock(t, from, to), Inside(t),
         \/ t \in Producers /\ to = "idle"
         \/ t \in Consumers /\ to = "pop"
         \/ t = "timer" /\ to = "idle"
  PROVE  /\ LocksHeld'
         /\ lock' \in [Layers -> Threads \cup {"none"}]
         /\ pc' \in [Threads -> ProducerPc \cup ConsumerPc]
<1> USE ThreadKinds
<1>1. /\ lock \in [Layers -> Threads \cup {"none"}]
      /\ pc \in [Threads -> ProducerPc \cup ConsumerPc]
  BY DEF IInv, RingInvariant, QueuesTypeOK, ProducerPc, ConsumerPc
<1>2. /\ lock' = [lock EXCEPT ![LayerOf(t)] = "none"]
      /\ pc' = [pc EXCEPT ![t] = to]
  BY DEF Unlock, Goto
<1>3. lock[LayerOf(t)] = t
  BY DEF IInv, LocksHeld
<1>4. ASSUME NEW u \in Threads, Inside(u)' PROVE lock'[LayerOf(u)] = u
  <2>1. u # t
    BY <1>1, <1>2, <1>4 DEF Inside
  <2>2. Inside(u)
    BY <1>1, <1>2, <1>4, <2>1 DEF Inside
  <2>3. lock[LayerOf(u)] = u
    BY <2>2 DEF IInv, LocksHeld
  <2> QED BY <1>1, <1>2, <1>3, <2>1, <2>3
<1>5. LocksHeld'
  BY <1>1, <1>2, <1>4 DEF IInv, LocksHeld, ProducerPc, ConsumerPc
<1> QED BY <1>1, <1>2, <1>5 DEF ProducerPc, ConsumerPc
-----------------------------------------------------------------------------
(* The steps of a producer keep the invariant. *)
LEMMA ProducerLockKeeps ==
  ASSUME IInv, NEW t \in Producers, NEW u \in UEs, ProducerLock(t, u)
  PROVE  IInv'
<1> USE ThreadKinds
<1>1. /\ Lock(t, "idle", "locked") /\ ue' = [ue EXCEPT ![t] = u]
      /\ UNCHANGED <<rbs, start, length, slot, waiting, newTime, exited, queued>>
      /\ pc[t] = "idle" /\ pc' = [pc EXCEPT ![t] = "locked"]
  BY DEF ProducerLock, queueVars, Lock, Goto
<1>2. /\ LocksHeld'
      /\ lock' \in [Layers -> Threads \cup {"none"}]
      /\ pc' \in [Threads -> ProducerPc \cup ConsumerPc]
  BY <1>1, LockKeepsLocks DEF ProducerPc
<1>3. QueuesTypeOK'
  BY <1>1, <1>2 DEF IInv, RingInvariant, QueuesTypeOK, ProducerPc, ConsumerPc
<1>4. RingIsFifo'
  BY <1>1 DEF IInv, RingInvariant, RingIsFifo
<1>5. SleepersRight' /\ PickedIsQueued'
  BY <1>1 DEF IInv, RingInvariant, QueuesTypeOK, SleepersRight, PickedIsQueued
<1> QED BY <1>2, <1>3, <1>4, <1>5 DEF IInv, RingInvariant

LEMMA FindRbKeeps ==
  ASSUME IInv, NEW t \in Producers, FindRb(t)
  PROVE  IInv'
<1> USE ThreadKinds
<1>1. PICK to \in {"enqueue", "done"} :
        /\ pc[t] = "locked" /\ pc' = [pc EXCEPT ![t] = to]
        /\ UNCHANGED <<lock, rbs, start, length, slot, waiting, ue, newTime, exited, queued>>
  BY DEF FindRb, Goto, lockVars, queueVars
<1>2. QueuesTypeOK'
  BY <1>1 DEF IInv, RingInvariant, QueuesTypeOK
<1>3. LocksHeld'
  BY <1>1 DEF IInv, RingInvariant, QueuesTypeOK, LocksHeld, Inside, ProducerPc
<1>4. RingIsFifo'
  BY <1>1 DEF IInv, RingInvariant, RingIsFifo
<1>5. SleepersRight' /\ PickedIsQueued'
  BY <1>1 DEF IInv, RingInvariant, QueuesTypeOK, SleepersRight, PickedIsQueued
<1> QED BY <1>2, <1>3, <1>4, <1>5 DEF IInv, RingInvariant

LEMMA WaitNotFullKeeps ==
  ASSUME IInv, NEW t \in Producers, WaitNotFull(t, QueueOf(t))
  PROVE  IInv'
<1> USE ThreadKinds
<1>1. /\ pc[t] = "enqueue" /\ length[QueueOf(t)] = QueueSize
      /\ waiting' = [waiting EXCEPT ![QueueOf(t)] = @ \cup {t}]
      /\ UNCHANGED <<lock, rbs, start, length, slot, pc, ue, newTime, exited, queued>>
  BY DEF WaitNotFull, lockVars, threadVars
<1>2. QueuesTypeOK'
  BY <1>1 DEF IInv, RingInvariant, QueuesTypeOK
<1>3. LocksHeld' /\ RingIsFifo' /\ PickedIsQueued'
  BY <1>1 DEF IInv, RingInvariant, LocksHeld, Inside, RingIsFifo, PickedIsQueued
<1>4. SleepersRight'
  BY <1>1 DEF IInv, RingInvariant, QueuesTypeOK, SleepersRight
<1> QED BY <1>2, <1>3, <1>4 DEF IInv, RingInvariant

(* The slot of the new packet is none of those in use, and nobody is left    *)
(* asleep.                                                                   *)
LEMMA EnqueueKeeps ==
  ASSUME IInv, NEW t \in Producers, Enqueue(t, QueueOf(t))
  PROVE  IInv'
<1> USE ThreadKinds
<1> DEFINE q == QueueOf(t)
           at == (start[q] + length[q]) % QueueSize
<1>1. /\ pc[t] = "enqueue" /\ length[q] < QueueSize
      /\ slot' = [slot EXCEPT ![q][at] = ue[t]]
      /\ length' = [length EXCEPT ![q] = @ + 1]
      /\ Signal(q, waiting[q])
      /\ pc' = [pc EXCEPT ![t] = "done"]
      /\ queued' = [queued EXCEPT ![q] = Append(@, ue[t])]
      /\ UNCHANGED <<lock, rbs, start, ue, newTime, exited>>
  BY DEF Enqueue, lockVars, Goto
<1>2. waiting' = [waiting EXCEPT ![q] = {}]
  BY <1>1, SignalWakesAll
<1> HIDE DEF q
<1>0. q \in Queues /\ q = QueueOf(t)
  BY DEF q
<1>t. QueuesTypeOK /\ RingIsFifo
  BY DEF IInv, RingInvariant
<1>3. /\ start[q] \in 0 .. QueueSize - 1 /\ length[q] \in 0 .. QueueSize - 1
      /\ at \in 0 .. QueueSize - 1
  <2>1. start[q] \in 0 .. QueueSize - 1 /\ length[q] \in 0 .. QueueSize
    BY <1>0, <1>t DEF QueuesTypeOK
  <2>2. length[q] \in 0 .. QueueSize - 1
    BY <1>1, <2>1
  <2> QED BY <2>1, <2>2, RingIndex
<1>4. QueuesTypeOK'
  <2> HIDE DEF at
  <2>1. /\ slot' \in [Queues -> [0 .. QueueSize - 1 -> UEs]]
        /\ queued' \in [Queues -> Seq(UEs)]
    BY <1>0, <1>1, <1>3, <1>t DEF QueuesTypeOK
  <2>2. length' \in [Queues -> 0 .. QueueSize]
    BY <1>0, <1>1, <1>3, <1>t DEF QueuesTypeOK
  <2> QED BY <1>0, <1>1, <1>2, <1>t, <2>1, <2>2 DEF QueuesTypeOK
<1>5. RingIsFifo'
  <2> SUFFICES ASSUME NEW r \in Queues
               PROVE  /\ length'[r] = Len(queued'[r])
                      /\ \A i \in 1 .. length'[r] :
                           slot'[r][(start'[r] + i - 1) % QueueSize] = queued'[r][i]
    BY DEF RingIsFifo
  <2>1. CASE r # q
    BY <1>1, <1>t, <2>1 DEF QueuesTypeOK, RingIsFifo
  <2>2. CASE r = q
    <3>1. /\ queued[q] \in Seq(UEs) /\ ue[t] \in UEs /\ length[q] = Len(queued[q])
          /\ queued'[q] = Append(queued[q], ue[t]) /\ length'[q] = length[q] + 1
          /\ slot[q] \in [0 .. QueueSize - 1 -> UEs]
          /\ slot'[q] = [slot[q] EXCEPT ![at] = ue[t]] /\ start'[q] = start[q]
      BY <1>0, <1>1, <1>t DEF QueuesTypeOK, RingIsFifo
    <3>2. length'[q] = Len(queued'[q])
      BY <3>1
    <3>3. ASSUME NEW i \in 1 .. length'[q]
          PROVE  slot'[q][(start'[q] + i - 1) % QueueSize] = queued'[q][i]
      <4>1. i - 1 \in 0 .. QueueSize - 1 /\ start[q] + i - 1 = start[q] + (i - 1)
        BY <1>3, <3>1, <3>3
      <4>2. CASE i = length[q] + 1
        BY <1>3, <3>1, <4>1, <4>2
      <4>3. CASE i \in 1 .. length[q]
        <5>1. slot[q][(start[q] + i - 1) % QueueSize] = queued[q][i]
          BY <1>0, <1>t, <4>3 DEF RingIsFifo
        <5>2. (start[q] + i - 1) % QueueSize # at
          <6>1. i - 1 # length[q]
            BY <1>3, <4>3
          <6> QED BY <1>3, <4>1, <6>1, PlacesDiffer
        <5>3. (start[q] + i - 1) % QueueSize \in 0 .. QueueSize - 1
          <6>1. PICK k \in 0 .. QueueSize - 1 : k = i - 1 /\ start[q] + i - 1 = start[q] + k
            BY <4>1
          <6>2. k \in 0 .. QueueSize /\ start[q] \in 0 .. QueueSize - 1
            BY <1>3
          <6>3. (start[q] + k) % QueueSize \in 0 .. QueueSize - 1
            BY <6>2, RingIndex
          <6> QED BY <6>1, <6>3
        <5>4. queued'[q][i] = queued[q][i]
          BY <3>1, <4>3
        <5> QED BY <3>1, <5>1, <5>2, <5>3, <5>4
      <4> QED BY <1>3, <3>1, <4>2, <4>3
    <3> QED BY <2>2, <3>2, <3>3
  <2> QED BY <2>1, <2>2
<1>6. LocksHeld'
  BY <1>1, <1>t DEF IInv, QueuesTypeOK, LocksHeld, Inside, ProducerPc
<1>7. SleepersRight'
  BY <1>0, <1>1, <1>2, <1>t DEF IInv, QueuesTypeOK, SleepersRight
<1>8. PickedIsQueued'
  BY <1>0, <1>1, <1>t DEF IInv, QueuesTypeOK, PickedIsQueued
<1> QED BY <1>4, <1>5, <1>6, <1>7, <1>8 DEF IInv, RingInvariant

LEMMA ProducerUnlockKeeps ==
  ASSUME IInv, NEW t \in Producers, ProducerUnlock(t)
  PROVE  IInv'
<1> USE ThreadKinds
<1>1. /\ Unlock(t, "done", "idle") /\ ue' = [ue EXCEPT ![t] = AnyUe]
      /\ UNCHANGED <<rbs, start, length, slot, waiting, newTime, exited, queued>>
      /\ pc[t] = "done" /\ pc' = [pc EXCEPT ![t] = "idle"]
  BY DEF ProducerUnlock, Forget, queueVars, Unlock, Goto
<1>2. /\ LocksHeld'
      /\ lock' \in [Layers -> Threads \cup {"none"}]
      /\ pc' \in [Threads -> ProducerPc \cup ConsumerPc]
  BY <1>1, UnlockKeepsLocks DEF Inside
<1>3. QueuesTypeOK'
  BY <1>1, <1>2 DEF IInv, RingInvariant, QueuesTypeOK, ProducerPc, ConsumerPc
<1>4. RingIsFifo'
  BY <1>1 DEF IInv, RingInvariant, RingIsFifo
<1>5. SleepersRight' /\ PickedIsQueued'
  BY <1>1 DEF IInv, RingInvariant, QueuesTypeOK, SleepersRight, PickedIsQueued
<1> QED BY <1>2, <1>3, <1>4, <1>5 DEF IInv, RingInvariant
-----------------------------------------------------------------------------
(* The steps of a consumer keep the invariant. *)
LEMMA WaitNotEmptyKeeps ==
  ASSUME IInv, NEW c \in Consumers, WaitNotEmpty(c, QueueOf(c))
  PROVE  IInv'
<1> USE ThreadKinds
<1>1. /\ pc[c] = "idle" /\ length[QueueOf(c)] = 0
      /\ waiting' = [waiting EXCEPT ![QueueOf(c)] = @ \cup {c}]
      /\ UNCHANGED <<lock, rbs, start, length, slot, pc, ue, newTime, exited, queued>>
  BY DEF WaitNotEmpty, lockVars, threadVars
<1>2. QueuesTypeOK'
  BY <1>1 DEF IInv, RingInvariant, QueuesTypeOK
<1>3. LocksHeld' /\ RingIsFifo' /\ PickedIsQueued'
  BY <1>1 DEF IInv, RingInvariant, LocksHeld, Inside, RingIsFifo, PickedIsQueued
<1>4. SleepersRight'
  BY <1>1 DEF IInv, RingInvariant, QueuesTypeOK, SleepersRight
<1> QED BY <1>2, <1>3, <1>4 DEF IInv, RingInvariant

LEMMA PeekKeeps ==
  ASSUME IInv, NEW c \in Consumers, Peek(c, QueueOf(c))
  PROVE  IInv'
<1> USE ThreadKinds
<1>1. /\ pc[c] = "idle" /\ c \notin waiting[QueueOf(c)] /\ length[QueueOf(c)] > 0
      /\ pc' = [pc EXCEPT ![c] = "picked"]
      /\ UNCHANGED <<lock, rbs, start, length, slot, waiting, ue, newTime, exited, queued>>
  BY DEF Peek, Goto, lockVars, queueVars
<1>2. QueuesTypeOK'
  BY <1>1 DEF IInv, RingInvariant, QueuesTypeOK
<1>3. LocksHeld'
  BY <1>1 DEF IInv, RingInvariant, QueuesTypeOK, LocksHeld, Inside, ConsumerPc
<1>4. RingIsFifo'
  BY <1>1 DEF IInv, RingInvariant, RingIsFifo
<1>5. SleepersRight' /\ PickedIsQueued'
  BY <1>1 DEF IInv, RingInvariant, QueuesTypeOK, SleepersRight, PickedIsQueued
<1> QED BY <1>2, <1>3, <1>4, <1>5 DEF IInv, RingInvariant

LEMMA ConsumerLockKeeps ==
  ASSUME IInv, NEW c \in Consumers, ConsumerLock(c)
  PROVE  IInv'
<1> USE ThreadKinds
<1>1. /\ Lock(c, "picked", "locked")
      /\ UNCHANGED <<rbs, start, length, slot, waiting, ue, newTime, exited, queued>>
      /\ pc[c] = "picked" /\ pc' = [pc EXCEPT ![c] = "locked"]
  BY DEF ConsumerLock, queueVars, Lock, Goto
<1>2. /\ LocksHeld'
      /\ lock' \in [Layers -> Threads \cup {"none"}]
      /\ pc' \in [Threads -> ProducerPc \cup ConsumerPc]
  BY <1>1, LockKeepsLocks DEF ConsumerPc
<1>3. QueuesTypeOK'
  BY <1>1, <1>2 DEF IInv, RingInvariant, QueuesTypeOK, ProducerPc, ConsumerPc
<1>4. RingIsFifo'
  BY <1>1 DEF IInv, RingInvariant, RingIsFifo
<1>5. SleepersRight' /\ PickedIsQueued'
  BY <1>1 DEF IInv, RingInvariant, QueuesTypeOK, SleepersRight, PickedIsQueued
<1> QED BY <1>2, <1>3, <1>4, <1>5 DEF IInv, RingInvariant

LEMMA HandleKeeps ==
  ASSUME IInv, NEW c \in Consumers, Handle(c, QueueOf(c))
  PROVE  IInv'
<1> USE ThreadKinds
<1> DEFINE q == QueueOf(c)
<1>1. /\ pc[c] = "locked" /\ ue' = [ue EXCEPT ![c] = slot[q][start[q]]]
      /\ pc' = [pc EXCEPT ![c] = "handled"]
      /\ UNCHANGED <<lock, rbs, start, length, slot, waiting, newTime, queued>>
  BY DEF Handle, Goto, lockVars, queueVars
<1>2. exited' \in BOOLEAN
  BY Zenon DEF Handle
<1>3. slot[q][start[q]] \in UEs
  BY DEF IInv, RingInvariant, QueuesTypeOK
<1>4. QueuesTypeOK'
  BY <1>1, <1>2, <1>3 DEF IInv, RingInvariant, QueuesTypeOK
<1>5. LocksHeld'
  BY <1>1 DEF IInv, RingInvariant, QueuesTypeOK, LocksHeld, Inside, ConsumerPc
<1>6. RingIsFifo'
  BY <1>1 DEF IInv, RingInvariant, RingIsFifo
<1>7. SleepersRight' /\ PickedIsQueued'
  BY <1>1 DEF IInv, RingInvariant, QueuesTypeOK, SleepersRight, PickedIsQueued
<1> QED BY <1>4, <1>5, <1>6, <1>7 DEF IInv, RingInvariant

LEMMA ConsumerUnlockKeeps ==
  ASSUME IInv, NEW c \in Consumers, ConsumerUnlock(c)
  PROVE  IInv'
<1> USE ThreadKinds
<1>1. /\ Unlock(c, "handled", "pop")
      /\ UNCHANGED <<rbs, start, length, slot, waiting, ue, newTime, exited, queued>>
      /\ pc[c] = "handled" /\ pc' = [pc EXCEPT ![c] = "pop"]
  BY DEF ConsumerUnlock, queueVars, Unlock, Goto
<1>2. /\ LocksHeld'
      /\ lock' \in [Layers -> Threads \cup {"none"}]
      /\ pc' \in [Threads -> ProducerPc \cup ConsumerPc]
  BY <1>1, UnlockKeepsLocks DEF Inside
<1>3. QueuesTypeOK'
  BY <1>1, <1>2 DEF IInv, RingInvariant, QueuesTypeOK, ProducerPc, ConsumerPc
<1>4. RingIsFifo'
  BY <1>1 DEF IInv, RingInvariant, RingIsFifo
<1>5. SleepersRight' /\ PickedIsQueued'
  BY <1>1 DEF IInv, RingInvariant, QueuesTypeOK, SleepersRight, PickedIsQueued
<1> QED BY <1>2, <1>3, <1>4, <1>5 DEF IInv, RingInvariant

(* The ring starts one slot later and the FIFO loses its head; the packet was *)
(* still there, and the producer that slept for room is woken.                *)
LEMMA PopKeeps ==
  ASSUME IInv, NEW c \in Consumers, Pop(c, QueueOf(c))
  PROVE  IInv'
<1> USE ThreadKinds
<1> DEFINE q == QueueOf(c)
<1>1. /\ pc[c] = "pop"
      /\ length' = [length EXCEPT ![q] = @ - 1]
      /\ start' = [start EXCEPT ![q] = (@ + 1) % QueueSize]
      /\ Signal(q, waiting[q])
      /\ pc' = [pc EXCEPT ![c] = "idle"] /\ ue' = [ue EXCEPT ![c] = AnyUe]
      /\ queued' = [queued EXCEPT ![q] = Tail(@)]
      /\ UNCHANGED <<lock, rbs, slot, newTime, exited>>
  BY DEF Pop, lockVars, Goto, Forget
<1>2. waiting' = [waiting EXCEPT ![q] = {}]
  BY <1>1, SignalWakesAll
<1>3. q \in Queues /\ length[q] > 0 /\ q = QueueOf(c)
  BY <1>1 DEF IInv, PickedIsQueued
<1> HIDE DEF q
<1>t. QueuesTypeOK /\ RingIsFifo
  BY DEF IInv, RingInvariant
<1>4. /\ start[q] \in 0 .. QueueSize - 1 /\ length[q] \in 1 .. QueueSize
      /\ (start[q] + 1) % QueueSize \in 0 .. QueueSize - 1
      /\ queued[q] \in Seq(UEs) /\ length[q] = Len(queued[q])
  <2>1. /\ start[q] \in 0 .. QueueSize - 1 /\ length[q] \in 0 .. QueueSize
        /\ queued[q] \in Seq(UEs) /\ length[q] = Len(queued[q])
    BY <1>3, <1>t DEF QueuesTypeOK, RingIsFifo
  <2>2. 1 \in 0 .. QueueSize
    OBVIOUS
  <2>3. (start[q] + 1) % QueueSize \in 0 .. QueueSize - 1
    BY <2>1, <2>2, RingIndex
  <2> QED BY <1>3, <2>1, <2>3
<1>5. /\ Tail(queued[q]) \in Seq(UEs)
      /\ Len(Tail(queued[q])) = length[q] - 1
      /\ \A i \in 1 .. length[q] - 1 : Tail(queued[q])[i] = queued[q][i + 1]
  BY <1>4
<1>6. QueuesTypeOK'
  <2>1. queued' \in [Queues -> Seq(UEs)]
    BY <1>1, <1>3, <1>5, <1>t DEF QueuesTypeOK
  <2>2. length' \in [Queues -> 0 .. QueueSize] /\ start' \in [Queues -> 0 .. QueueSize - 1]
    BY <1>1, <1>3, <1>4, <1>t DEF QueuesTypeOK
  <2> QED BY <1>1, <1>2, <1>3, <1>t, <2>1, <2>2 DEF QueuesTypeOK
<1>7. RingIsFifo'
  <2> SUFFICES ASSUME NEW r \in Queues
               PROVE  /\ length'[r] = Len(queued'[r])
                      /\ \A i \in 1 .. length'[r] :
                           slot'[r][(start'[r] + i - 1) % QueueSize] = queued'[r][i]
    BY DEF RingIsFifo
  <2>1. CASE r # q
    BY <1>1, <1>t, <2>1 DEF QueuesTypeOK, RingIsFifo
  <2>2. CASE r = q
    <3>1. /\ queued'[q] = Tail(queued[q]) /\ length'[q] = length[q] - 1
          /\ slot'[q] = slot[q] /\ start'[q] = (start[q] + 1) % QueueSize
      BY <1>1, <1>3, <1>t DEF QueuesTypeOK
    <3>2. ASSUME NEW i \in 1 .. length'[q]
          PROVE  slot'[q][(start'[q] + i - 1) % QueueSize] = queued'[q][i]
      <4>1. i \in 1 .. length[q] - 1 /\ i + 1 \in 1 .. length[q]
        BY <1>4, <3>1, <3>2
      <4>2. slot[q][(start[q] + (i + 1) - 1) % QueueSize] = queued[q][i + 1]
        BY <1>3, <1>t, <4>1 DEF RingIsFifo
      <4>3. (start'[q] + i - 1) % QueueSize = (start[q] + (i + 1) - 1) % QueueSize
        <5>1. i \in 1 .. QueueSize - 1
          BY <1>4, <4>1
        <5> QED BY <1>4, <3>1, <5>1, NextPlace
      <4> QED BY <1>5, <3>1, <4>1, <4>2, <4>3
    <3> QED BY <1>5, <2>2, <3>1, <3>2
  <2> QED BY <2>1, <2>2
<1>8. LocksHeld'
  BY <1>1, <1>t DEF IInv, QueuesTypeOK, LocksHeld, Inside, ConsumerPc
<1>9. SleepersRight'
  BY <1>1, <1>2, <1>3, <1>t DEF IInv, QueuesTypeOK, SleepersRight
<1>10. PickedIsQueued'
  BY <1>1, <1>3, <1>t DEF IInv, QueuesTypeOK, PickedIsQueued
<1> QED BY <1>6, <1>7, <1>8, <1>9, <1>10 DEF IInv, RingInvariant
-----------------------------------------------------------------------------
(* The timer thread and RRC keep the invariant. *)
LEMMA TimerAndRrcKeep ==
  ASSUME IInv,
         \/ Tick \/ TimerLock \/ TimerUnlock
         \/ \E l \in Layers, u \in UEs : RemoveUe(l, u) \/ AddUe(l, u)
  PROVE  IInv'
<1> USE ThreadKinds
<1>1. CASE Tick
  <2>1. newTime' \in BOOLEAN
    BY <1>1, Zenon DEF Tick
  <2> QED BY <1>1, <2>1 DEF Tick, lockVars, queueVars, threadVars, IInv, RingInvariant,
        QueuesTypeOK, RingIsFifo, LocksHeld, Inside, SleepersRight, PickedIsQueued
<1>2. CASE TimerLock
  <2>1. newTime' \in BOOLEAN
    BY <1>2, Zenon DEF TimerLock
  <2>2. /\ Lock("timer", "idle", "handled")
        /\ pc' = [pc EXCEPT !["timer"] = "handled"]
        /\ UNCHANGED <<rbs, start, length, slot, waiting, ue, exited, queued>>
    BY <1>2 DEF TimerLock, queueVars, Lock, Goto
  <2>3. /\ LocksHeld'
        /\ lock' \in [Layers -> Threads \cup {"none"}]
        /\ pc' \in [Threads -> ProducerPc \cup ConsumerPc]
    BY <2>2, LockKeepsLocks
  <2>4. QueuesTypeOK' /\ RingIsFifo'
    BY <2>1, <2>2, <2>3 DEF IInv, RingInvariant, QueuesTypeOK, RingIsFifo, ProducerPc, ConsumerPc
  <2>5. SleepersRight' /\ PickedIsQueued'
    BY <2>2 DEF IInv, RingInvariant, QueuesTypeOK, SleepersRight, PickedIsQueued
  <2> QED BY <2>3, <2>4, <2>5 DEF IInv, RingInvariant
<1>3. CASE TimerUnlock
  <2>1. /\ Unlock("timer", "handled", "idle") /\ pc["timer"] = "handled"
        /\ pc' = [pc EXCEPT !["timer"] = "idle"]
        /\ UNCHANGED <<rbs, start, length, slot, waiting, ue, newTime, exited, queued>>
    BY <1>3 DEF TimerUnlock, queueVars, Unlock, Goto
  <2>2. /\ LocksHeld'
        /\ lock' \in [Layers -> Threads \cup {"none"}]
        /\ pc' \in [Threads -> ProducerPc \cup ConsumerPc]
    BY <2>1, UnlockKeepsLocks DEF Inside
  <2>3. QueuesTypeOK' /\ RingIsFifo'
    BY <2>1, <2>2 DEF IInv, RingInvariant, QueuesTypeOK, RingIsFifo, ProducerPc, ConsumerPc
  <2>4. SleepersRight' /\ PickedIsQueued'
    BY <2>1 DEF IInv, RingInvariant, QueuesTypeOK, SleepersRight, PickedIsQueued
  <2> QED BY <2>2, <2>3, <2>4 DEF IInv, RingInvariant
<1>4. ASSUME NEW l \in Layers, NEW u \in UEs, RemoveUe(l, u) \/ AddUe(l, u)
      PROVE  IInv'
  <2>1. /\ rbs' \in [Layers -> SUBSET UEs]
        /\ UNCHANGED <<lock, start, length, slot, waiting, pc, ue, newTime, exited, queued>>
    BY <1>4 DEF RemoveUe, AddUe, queueVars, threadVars, IInv, RingInvariant, QueuesTypeOK
  <2> QED BY <2>1 DEF IInv, RingInvariant, QueuesTypeOK, RingIsFifo, LocksHeld, Inside,
             SleepersRight, PickedIsQueued
<1> QED BY <1>1, <1>2, <1>3, <1>4

(* Every step keeps the invariant. *)
LEMMA IInvNext == IInv /\ [Next]_vars => IInv'
<1> SUFFICES ASSUME IInv, [Next]_vars PROVE IInv'
  OBVIOUS
<1>1. ASSUME NEW t \in Producers, ProducerStep(t) PROVE IInv'
  BY <1>1, ProducerLockKeeps, FindRbKeeps, WaitNotFullKeeps, EnqueueKeeps,
     ProducerUnlockKeeps DEF ProducerStep
<1>2. ASSUME NEW c \in Consumers, ConsumerStep(c) PROVE IInv'
  BY <1>2, WaitNotEmptyKeeps, PeekKeeps, ConsumerLockKeeps, HandleKeeps,
     ConsumerUnlockKeeps, PopKeeps DEF ConsumerStep
<1>3. CASE UNCHANGED vars
  BY <1>3 DEF vars, lockVars, queueVars, threadVars, IInv, RingInvariant, QueuesTypeOK,
     RingIsFifo, LocksHeld, Inside, SleepersRight, PickedIsQueued
<1> QED BY <1>1, <1>2, <1>3, TimerAndRrcKeep DEF Next
-----------------------------------------------------------------------------
(* The rings of enqueue_rlc_data_req and enqueue_pdcp_data_ind are FIFOs:    *)
(* no packet is overwritten while it waits or while the consumer reads it    *)
(* outside the queue's mutex.                                                *)
THEOREM RingsAreFifos == Spec => []RingInvariant
<1>1. IInv => RingInvariant
  BY DEF IInv
<1> QED BY <1>1, IInvInit, IInvNext, PTL DEF Spec

(* One condition variable with pthread_cond_signal is enough for "full" and  *)
(* "empty" together: a thread sleeps on a queue only while the queue is as   *)
(* the thread saw it.                                                        *)
THEOREM WakeupsAreNotLost == Spec => []NoLostWakeup
<1>1. IInv => NoLostWakeup
  BY DEF IInv, SleepersRight, NoLostWakeup
<1> QED BY <1>1, IInvInit, IInvNext, PTL DEF Spec
-----------------------------------------------------------------------------
(***************************************************************************)
(* The circular wait takes an application that sleeps on a full downlink   *)
(* queue, so one packet more than the queue has room for.                  *)
(***************************************************************************)
\* Applications between their lock and their packet's slot.
Underway == {a \in Apps : pc[a] \in {"locked", "enqueue"}}

DlBounded == OnTheWay <= MaxDl

WayFacts ==
  /\ OnTheWay = Len(queued["rlcQ"]) + Cardinality(Underway)
  /\ IsFiniteSet(Underway) /\ Cardinality(Underway) \in Nat
  /\ queued["rlcQ"] \in Seq(UEs) /\ Len(queued["rlcQ"]) \in Nat

LEMMA OnTheWayIs == IInv => WayFacts
<1> SUFFICES ASSUME IInv PROVE WayFacts
  OBVIOUS
<1>1. IsFiniteSet(Underway)
  BY FS_Subset DEF Underway
<1>2. queued["rlcQ"] \in Seq(UEs)
  BY DEF IInv, RingInvariant, QueuesTypeOK
<1> QED BY <1>1, <1>2, FS_CardinalityType DEF WayFacts, OnTheWay, Underway

(* A step that starts no application and adds no packet keeps the bound. *)
LEMMA NoMoreOnTheWay ==
  ASSUME IInv, IInv', DlBounded, Underway' \subseteq Underway,
         Len(queued'["rlcQ"]) <= Len(queued["rlcQ"])
  PROVE  DlBounded'
<1>1. WayFacts /\ WayFacts'
  BY OnTheWayIs, PTL
<1>2. Cardinality(Underway') <= Cardinality(Underway)
  BY <1>1, FS_Subset DEF WayFacts
<1> QED BY <1>1, <1>2 DEF DlBounded, WayFacts

(* An application enters only while the bound leaves room for its packet; the *)
(* packet it enqueues was counted before.                                     *)
LEMMA DlBoundedNext == IInv /\ DlBounded /\ [Next]_vars => DlBounded'
<1> SUFFICES ASSUME IInv, DlBounded, [Next]_vars PROVE DlBounded'
  OBVIOUS
<1> USE ThreadKinds
<1>0. IInv' /\ WayFacts /\ WayFacts'
  BY IInvNext, OnTheWayIs, PTL
<1>t. QueuesTypeOK /\ RingIsFifo /\ Apps \subseteq Producers /\ Producers \subseteq Threads
  BY DEF IInv, RingInvariant, Producers
<1>1. ASSUME NEW t \in Producers, NEW u \in UEs, ProducerLock(t, u) PROVE DlBounded'
  <2>1. /\ pc[t] = "idle" /\ pc' = [pc EXCEPT ![t] = "locked"] /\ UNCHANGED queued
        /\ t \in Apps => OnTheWay < MaxDl
    BY <1>1 DEF ProducerLock, Lock, Goto
  <2>2. CASE t \in Apps
    <3>1. Underway' = Underway \cup {t} /\ t \notin Underway
      BY <1>t, <2>1, <2>2 DEF Underway, QueuesTypeOK
    <3>2. Cardinality(Underway') = Cardinality(Underway) + 1
      BY <1>0, <3>1, FS_AddElement DEF WayFacts
    <3> QED BY <1>0, <2>1, <2>2, <3>2 DEF WayFacts, DlBounded
  <2>3. CASE t \notin Apps
    <3>1. Underway' \subseteq Underway /\ Len(queued'["rlcQ"]) <= Len(queued["rlcQ"])
      BY <1>0, <1>t, <2>1, <2>3 DEF Underway, QueuesTypeOK, WayFacts
    <3> QED BY <1>0, <3>1, NoMoreOnTheWay
  <2> QED BY <2>2, <2>3
<1>2. ASSUME NEW t \in Producers, Enqueue(t, QueueOf(t)) PROVE DlBounded'
  <2>1. /\ pc[t] = "enqueue" /\ pc' = [pc EXCEPT ![t] = "done"]
        /\ queued' = [queued EXCEPT ![QueueOf(t)] = Append(@, ue[t])]
    BY <1>2 DEF Enqueue, Goto
  <2>2. CASE t \in Apps
    <3>1. Underway' = Underway \ {t} /\ t \in Underway
      BY <1>t, <2>1, <2>2 DEF Underway, QueuesTypeOK
    <3>2. Cardinality(Underway') = Cardinality(Underway) - 1
      BY <1>0, <3>1, FS_RemoveElement DEF WayFacts
    <3>3. Len(queued'["rlcQ"]) = Len(queued["rlcQ"]) + 1
      BY <1>0, <1>t, <2>1, <2>2 DEF QueueOf, QueuesTypeOK, WayFacts
    <3> QED BY <1>0, <3>2, <3>3 DEF WayFacts, DlBounded
  <2>3. CASE t \notin Apps
    <3>1. QueueOf(t) = "pdcpQ"
      BY <2>3 DEF QueueOf, Producers
    <3>2. Underway' \subseteq Underway /\ Len(queued'["rlcQ"]) <= Len(queued["rlcQ"])
      BY <1>0, <1>t, <2>1, <2>3, <3>1 DEF Underway, QueuesTypeOK, WayFacts
    <3> QED BY <1>0, <3>2, NoMoreOnTheWay
  <2> QED BY <2>2, <2>3
<1>3. ASSUME NEW t \in Producers, FindRb(t) \/ WaitNotFull(t, QueueOf(t)) \/ ProducerUnlock(t)
      PROVE  DlBounded'
  <2>1. /\ UNCHANGED queued
        /\ \E to \in {pc[t], "enqueue", "done", "idle"} :
             /\ to = "enqueue" => pc[t] \in {"locked", "enqueue"}
             /\ pc' = [pc EXCEPT ![t] = to]
    <3>1. CASE FindRb(t)
      BY <3>1 DEF FindRb, Goto
    <3>2. CASE WaitNotFull(t, QueueOf(t))
      BY <1>t, <3>2 DEF WaitNotFull, threadVars, QueuesTypeOK
    <3>3. CASE ProducerUnlock(t)
      BY <3>3 DEF ProducerUnlock, Unlock, Goto
    <3> QED BY <1>3, <3>1, <3>2, <3>3
  <2>2. Underway' \subseteq Underway /\ Len(queued'["rlcQ"]) <= Len(queued["rlcQ"])
    BY <1>0, <1>t, <2>1 DEF Underway, QueuesTypeOK, WayFacts
  <2> QED BY <1>0, <2>2, NoMoreOnTheWay
<1>4. ASSUME NEW c \in Consumers, ConsumerStep(c) PROVE DlBounded'
  <2>1. \A a \in Apps : pc'[a] = pc[a]
    BY <1>4, <1>t DEF ConsumerStep, WaitNotEmpty, Peek, ConsumerLock, Handle, ConsumerUnlock,
       Pop, Lock, Unlock, Goto, threadVars, QueuesTypeOK
  <2>2. \/ UNCHANGED queued
        \/ /\ pc[c] = "pop"
           /\ queued' = [queued EXCEPT ![QueueOf(c)] = Tail(@)]
    BY <1>4 DEF ConsumerStep, WaitNotEmpty, Peek, ConsumerLock, Handle, ConsumerUnlock, Pop
  <2>3. Len(queued'["rlcQ"]) <= Len(queued["rlcQ"])
    <3>1. CASE UNCHANGED queued
      BY <1>0, <3>1 DEF WayFacts
    <3>2. CASE pc[c] = "pop" /\ queued' = [queued EXCEPT ![QueueOf(c)] = Tail(@)]
      <4>1. length[QueueOf(c)] > 0 /\ length[QueueOf(c)] = Len(queued[QueueOf(c)])
        BY <1>t, <3>2 DEF IInv, PickedIsQueued, RingIsFifo
      <4>2. CASE QueueOf(c) = "rlcQ"
        <5>1. queued'["rlcQ"] = Tail(queued["rlcQ"])
          BY <1>t, <3>2, <4>2 DEF QueuesTypeOK
        <5> QED BY <1>0, <4>1, <4>2, <5>1 DEF WayFacts
      <4>3. CASE QueueOf(c) # "rlcQ"
        BY <1>0, <1>t, <3>2, <4>3 DEF QueuesTypeOK, WayFacts
      <4> QED BY <4>2, <4>3
    <3> QED BY <2>2, <3>1, <3>2
  <2>4. Underway' \subseteq Underway
    BY <2>1 DEF Underway
  <2> QED BY <1>0, <2>3, <2>4, NoMoreOnTheWay
<1>5. ASSUME \/ Tick \/ TimerLock \/ TimerUnlock \/ UNCHANGED vars
             \/ \E l \in Layers, u \in UEs : RemoveUe(l, u) \/ AddUe(l, u)
      PROVE  DlBounded'
  <2>1. UNCHANGED queued /\ \A a \in Apps : pc'[a] = pc[a]
    BY <1>5, <1>t DEF Tick, TimerLock, TimerUnlock, RemoveUe, AddUe, Lock, Unlock, Goto,
       vars, threadVars, QueuesTypeOK
  <2>2. Underway' \subseteq Underway /\ Len(queued'["rlcQ"]) <= Len(queued["rlcQ"])
    BY <1>0, <2>1 DEF Underway, WayFacts
  <2> QED BY <1>0, <2>2, NoMoreOnTheWay
<1> QED BY <1>1, <1>2, <1>3, <1>4, <1>5 DEF Next, ProducerStep

(* While the applications have no more packets on their way than the         *)
(* downlink queue has slots, an application that holds PDCP's lock never     *)
(* sleeps for room, so it cannot close the circle of the two layers' locks   *)
(* and the two queues (comment in nr_pdcp_oai_api.c).                        *)
THEOREM NoCircleWithRoom ==
  ASSUME MaxDl <= QueueSize
  PROVE  Spec => []NoCircularWait
<1>1. Init => DlBounded
  <2> SUFFICES ASSUME Init PROVE DlBounded
    OBVIOUS
  <2>1. IInv /\ WayFacts
    BY IInvInit, OnTheWayIs
  <2>2. Underway = {} /\ Len(queued["rlcQ"]) = 0
    BY ThreadKinds DEF Init, Underway, Producers
  <2> QED BY <2>1, <2>2, FS_EmptySet DEF DlBounded, WayFacts
<1>2. IInv /\ DlBounded => NoCircularWait
  <2> SUFFICES ASSUME IInv, DlBounded, NEW a \in Apps, a \in waiting["rlcQ"] PROVE FALSE
    BY DEF NoCircularWait
  <2>1. pc[a] = "enqueue" /\ length["rlcQ"] = QueueSize
    BY DEF IInv, SleepersRight, Producers
  <2>2. Len(queued["rlcQ"]) = QueueSize
    BY <2>1 DEF IInv, RingInvariant, RingIsFifo
  <2>3. Cardinality(Underway) # 0
    <3>1. a \in Underway
      BY <2>1 DEF Underway
    <3>2. IsFiniteSet(Underway)
      BY OnTheWayIs DEF WayFacts
    <3> QED BY <3>1, <3>2, FS_EmptySet
  <2> QED BY <2>2, <2>3, OnTheWayIs DEF DlBounded, WayFacts
<1> QED BY <1>1, <1>2, IInvInit, IInvNext, DlBoundedNext, PTL DEF Spec
=============================================================================
