----------------------------- MODULE ThreadPool -----------------------------
(***************************************************************************)
(* The thread pool of OpenAirInterface (common/utils/threadPool): a FIFO   *)
(* of jobs linked through `next', kept by a first (outF) and a last (inF)  *)
(* pointer, worker threads that pull jobs from it, run them and post the   *)
(* job back on a response FIFO, and the selective abort of a key.          *)
(*                                                                         *)
(* Every function body between mutexlock and mutexunlock is one step; the  *)
(* processing function runs outside any lock and is a step of its own.     *)
(* Memory is explicit: an element that was freed can be handed out again   *)
(* by malloc, and a stale pointer to it is then a pointer to a live one.   *)
(***************************************************************************)
EXTENDS Naturals, Sequences, FiniteSets

CONSTANTS Elts,        \* memory blocks that can hold an element
          Keys,        \* keys of jobs
          Workers,     \* the threads created by initNamedTpool
          Null,        \* the null pointer, and the key -1
          Silent,      \* whether clients push jobs without a response FIFO
          AbortsTail   \* whether clients abort the last queued job and
                       \* leave an earlier one of another key in the queue

ASSUME PoolAssumption ==
    /\ Null \notin Elts \cup Keys
    /\ Silent \in BOOLEAN /\ AbortsTail \in BOOLEAN
    /\ IsFiniteSet(Elts) /\ IsFiniteSet(Workers)

Fifos == {"in", "resp"}

VARIABLES activated,   \* FALSE when "N" is among the pool's parameters
          outF, inF,   \* of incomingFifo ("in") and of the response FIFO
          next,        \* of every element, garbage included
          key, reponseFifo, malloced,
          runningOnKey, abortFlag,       \* struct one_thread
          elt, pc,                       \* locals of one_thread()
          \* history variables, which no action reads in a guard
          stage,     \* how far the job in an element has come
          pending,   \* jobs pushed, neither picked up nor aborted, in order
          cancelled  \* elements whose job an abort returned for

queueVars == <<outF, inF, next>>
eltVars == <<key, reponseFifo, malloced>>
workerVars == <<runningOnKey, abortFlag, elt, pc>>
ghostVars == <<stage, pending, cancelled>>
vars == <<activated, queueVars, eltVars, workerVars, ghostVars>>

Stages == {"none", "pushed", "picked", "processed", "posted", "dropped"}
-----------------------------------------------------------------------------
Init ==
    /\ activated \in BOOLEAN
    /\ outF = [f \in Fifos |-> Null] /\ inF = [f \in Fifos |-> Null]
    /\ next = [e \in Elts |-> Null]
    /\ key = [e \in Elts |-> Null]
    /\ reponseFifo = [e \in Elts |-> FALSE]
    /\ malloced = [e \in Elts |-> FALSE]
    /\ runningOnKey = [w \in Workers |-> Null]
    /\ abortFlag = [w \in Workers |-> FALSE]
    /\ elt = [w \in Workers |-> Null] /\ pc = [w \in Workers |-> "wait"]
    /\ stage = [e \in Elts |-> "none"] /\ pending = <<>> /\ cancelled = {}

\* The list that starts at e in the links nxt, cut after as many elements as
\* there are.
ListFrom(e, nxt) ==
    LET at[i \in Nat] == IF i = 0 THEN e
                         ELSE IF at[i - 1] = Null THEN Null ELSE nxt[at[i - 1]]
        len == Cardinality({i \in 0 .. Cardinality(Elts) - 1 : at[i] # Null})
    IN  [i \in 1 .. len |-> at[i - 1]]

\* The elements of the list s that are in S, in their order.
Among(S, s) ==
    LET hits == {i \in DOMAIN s : s[i] \in S}
    IN  [j \in 1 .. Cardinality(hits) |->
           s[CHOOSE i \in hits : Cardinality({h \in hits : h <= i}) = j]]

WithoutKey(k) == {e \in Elts : key[e] # k}

\* The links after pushing msg on f: msg->next is reset before the old last
\* element is made to point at msg.
Linked(f, msg) ==
    LET reset == [next EXCEPT ![msg] = Null]
    IN  IF inF[f] = Null THEN reset ELSE [reset EXCEPT ![inF[f]] = msg]

pushNotifiedFIFO(f, msg) ==
    /\ next' = Linked(f, msg)
    /\ outF' = [outF EXCEPT ![f] = IF @ = Null THEN msg ELSE @]
    /\ inF' = [inF EXCEPT ![f] = msg]

\* Mutant: inF is not reset when the last element is pulled.
PullKeepsInF(f) ==
    /\ outF[f] # Null
    /\ outF' = [outF EXCEPT ![f] = next[@]]
    /\ UNCHANGED <<inF, next>>

pullNotifiedFIFO(f) ==
    /\ outF[f] # Null
    /\ outF' = [outF EXCEPT ![f] = next[@]]
    /\ inF' = [inF EXCEPT ![f] = IF next[outF[f]] = Null THEN Null ELSE @]
    /\ UNCHANGED next
-----------------------------------------------------------------------------
newNotifiedFIFO_elt(e, k, r) ==
    /\ ~malloced[e]
    /\ malloced' = [malloced EXCEPT ![e] = TRUE]
    /\ key' = [key EXCEPT ![e] = k]
    /\ reponseFifo' = [reponseFifo EXCEPT ![e] = r]

delNotifiedFIFO_elts(es) ==
    /\ malloced' = [e \in Elts |-> malloced[e] /\ e \notin es]
    /\ UNCHANGED <<key, reponseFifo>>

\* A client allocates a job and pushes it. Without threads the job runs in
\* the caller.
pushTpool(e, k, r) ==
    /\ newNotifiedFIFO_elt(e, k, r)
    /\ cancelled' = cancelled \ {e}
    /\ IF activated
         THEN /\ pushNotifiedFIFO("in", e)
              /\ stage' = [stage EXCEPT ![e] = "pushed"]
              /\ pending' = Append(pending, e)
         ELSE /\ IF r THEN pushNotifiedFIFO("resp", e) ELSE UNCHANGED queueVars
              /\ stage' = [stage EXCEPT ![e] = IF r THEN "posted" ELSE "processed"]
              /\ UNCHANGED pending
    /\ UNCHANGED workerVars

\* A client collects a result and deletes the element. tryPullTpool does the
\* same when it gets the lock, and nothing otherwise.
pullTpool ==
    /\ pullNotifiedFIFO("resp")
    /\ delNotifiedFIFO_elts({outF["resp"]})
    /\ stage' = [stage EXCEPT ![outF["resp"]] = "none"]
    /\ UNCHANGED <<workerVars, pending, cancelled>>

\* Mutants: the abort flag of the last job is not cleared; the thread
\* remembers the element and not its key; a thread whose job was aborted ends.
PullRememberKeepsFlag(w) ==
    /\ pc[w] = "wait"
    /\ pullNotifiedFIFO("in")
    /\ elt' = [elt EXCEPT ![w] = outF["in"]]
    /\ runningOnKey' = [runningOnKey EXCEPT ![w] = key[outF["in"]]]
    /\ pc' = [pc EXCEPT ![w] = "process"]
    /\ stage' = [stage EXCEPT ![outF["in"]] = "picked"]
    /\ pending' = Among(Elts \ {outF["in"]}, pending)
    /\ UNCHANGED <<eltVars, abortFlag, cancelled>>

PullRememberElt(w) ==
    /\ pc[w] = "wait"
    /\ pullNotifiedFIFO("in")
    /\ elt' = [elt EXCEPT ![w] = outF["in"]]
    /\ runningOnKey' = [runningOnKey EXCEPT ![w] = outF["in"]]
    /\ abortFlag' = [abortFlag EXCEPT ![w] = FALSE]
    /\ pc' = [pc EXCEPT ![w] = "process"]
    /\ stage' = [stage EXCEPT ![outF["in"]] = "picked"]
    /\ pending' = Among(Elts \ {outF["in"]}, pending)
    /\ UNCHANGED <<eltVars, cancelled>>

PullRememberUnlessAborted(w) == ~abortFlag[w] /\ PullRememberKeepsFlag(w)

\* pullNotifiedFifoRemember
PullRemember(w) ==
    /\ pc[w] = "wait"
    /\ pullNotifiedFIFO("in")
    /\ elt' = [elt EXCEPT ![w] = outF["in"]]
    /\ runningOnKey' = [runningOnKey EXCEPT ![w] = key[outF["in"]]]
    /\ abortFlag' = [abortFlag EXCEPT ![w] = FALSE]
    /\ pc' = [pc EXCEPT ![w] = "process"]
    /\ stage' = [stage EXCEPT ![outF["in"]] = "picked"]
    /\ pending' = Among(Elts \ {outF["in"]}, pending)
    /\ UNCHANGED <<eltVars, cancelled>>

\* Mutant: the answer is forgotten.
ProcessForgetsAnswer(w) ==
    /\ pc[w] = "process"
    /\ stage' = [stage EXCEPT ![elt[w]] = "processed"]
    /\ pc' = [pc EXCEPT ![w] = "wait"] /\ elt' = [elt EXCEPT ![w] = Null]
    /\ UNCHANGED <<queueVars, eltVars, runningOnKey, abortFlag, pending, cancelled>>

\* processingFunc runs to its end. Without a response FIFO the worker goes
\* straight on to its next job.
Process(w) ==
    /\ pc[w] = "process"
    /\ stage' = [stage EXCEPT ![elt[w]] = "processed"]
    /\ IF reponseFifo[elt[w]]
         THEN pc' = [pc EXCEPT ![w] = "answer"] /\ UNCHANGED elt
         ELSE pc' = [pc EXCEPT ![w] = "wait"] /\ elt' = [elt EXCEPT ![w] = Null]
    /\ UNCHANGED <<queueVars, eltVars, runningOnKey, abortFlag, pending, cancelled>>

\* Mutant: an aborted job is freed and posted all the same.
AnswerFreesAndPosts(w) ==
    /\ pc[w] = "answer"
    /\ delNotifiedFIFO_elts(IF abortFlag[w] THEN {elt[w]} ELSE {})
    /\ pushNotifiedFIFO("resp", elt[w])
    /\ stage' = [stage EXCEPT ![elt[w]] = IF abortFlag[w] THEN "dropped" ELSE "posted"]
    /\ runningOnKey' = [runningOnKey EXCEPT ![w] = Null]
    /\ pc' = [pc EXCEPT ![w] = "wait"] /\ elt' = [elt EXCEPT ![w] = Null]
    /\ UNCHANGED <<abortFlag, pending, cancelled>>

\* The end of one round of one_thread(), under the lock of incomingFifo.
Answer(w) ==
    /\ pc[w] = "answer"
    /\ IF abortFlag[w]
         THEN /\ delNotifiedFIFO_elts({elt[w]})
              /\ stage' = [stage EXCEPT ![elt[w]] = "dropped"]
              /\ UNCHANGED queueVars
         ELSE /\ pushNotifiedFIFO("resp", elt[w])
              /\ stage' = [stage EXCEPT ![elt[w]] = "posted"]
              /\ UNCHANGED eltVars
    /\ runningOnKey' = [runningOnKey EXCEPT ![w] = Null]
    /\ pc' = [pc EXCEPT ![w] = "wait"] /\ elt' = [elt EXCEPT ![w] = Null]
    /\ UNCHANGED <<abortFlag, pending, cancelled>>

\* What abortTpool and abortNotifiedFIFO do to a FIFO: unlink and free every
\* element with the key, and reset inF when nothing is left.
abortNotifiedFIFO(f, k) ==
    LET list == ListFrom(outF[f], next)
        left == Among(WithoutKey(k), list)
        gone == {list[i] : i \in {j \in DOMAIN list : key[list[j]] = k}}
        after(i) == IF i < Len(left) THEN left[i + 1] ELSE Null
    IN  /\ outF' = [outF EXCEPT ![f] = IF left = <<>> THEN Null ELSE left[1]]
        /\ inF' = [inF EXCEPT ![f] = IF left = <<>> THEN Null ELSE @]
        /\ next' = [e \in Elts |->
                       IF \E i \in DOMAIN left : left[i] = e
                         THEN after(CHOOSE i \in DOMAIN left : left[i] = e)
                         ELSE next[e]]
        /\ delNotifiedFIFO_elts(gone)
        /\ stage' = [e \in Elts |-> IF e \in gone THEN "dropped" ELSE stage[e]]

\* The client assumption that the constant AbortsTail drops.
KeepsTail(k) ==
    LET hits == {i \in DOMAIN pending : key[pending[i]] = k}
    IN  hits = DOMAIN pending \/ Len(pending) \notin hits

\* Mutant: jobs that are running are not flagged.
AbortQueuedOnly(k) ==
    /\ AbortsTail \/ KeepsTail(k)
    /\ abortNotifiedFIFO("in", k)
    /\ pending' = Among(WithoutKey(k), pending)
    /\ cancelled' = cancelled \cup
                      {e \in Elts : key[e] = k /\ stage[e] \in {"pushed", "picked", "processed"}}
    /\ UNCHANGED workerVars

abortTpool(k) ==
    /\ AbortsTail \/ KeepsTail(k)
    /\ abortNotifiedFIFO("in", k)
    /\ abortFlag' = [w \in Workers |-> abortFlag[w] \/ runningOnKey[w] = k]
    /\ pending' = Among(WithoutKey(k), pending)
    /\ cancelled' = cancelled \cup
                      {e \in Elts : key[e] = k /\ stage[e] \in {"pushed", "picked", "processed"}}
    /\ UNCHANGED <<runningOnKey, elt, pc>>

ClientStep ==
    \/ \E e \in Elts, k \in Keys, r \in BOOLEAN : (r \/ Silent) /\ pushTpool(e, k, r)
    \/ pullTpool
    \/ \E k \in Keys : abortTpool(k)

WorkerStep(w) == PullRemember(w) \/ Process(w) \/ Answer(w)

Next == /\ ClientStep \/ \E w \in Workers : WorkerStep(w)
        /\ UNCHANGED activated

\* The workers are real-time threads and processing functions return; the
\* client collects what is posted. Nothing makes it push or abort.
Fairness == /\ \A w \in Workers : WF_vars(WorkerStep(w) /\ UNCHANGED activated)
            /\ WF_vars(pullTpool /\ UNCHANGED activated)

Spec == Init /\ [][Next]_vars /\ Fairness
-----------------------------------------------------------------------------
\* The variables hold values of the C types.
PoolTypeOK ==
    /\ activated \in BOOLEAN
    /\ outF \in [Fifos -> Elts \cup {Null}] /\ inF \in [Fifos -> Elts \cup {Null}]
    /\ next \in [Elts -> Elts \cup {Null}]
    /\ key \in [Elts -> Keys \cup {Null}]
    /\ reponseFifo \in [Elts -> BOOLEAN] /\ malloced \in [Elts -> BOOLEAN]
    /\ runningOnKey \in [Workers -> Keys \cup {Null}]
    /\ abortFlag \in [Workers -> BOOLEAN]
    /\ elt \in [Workers -> Elts \cup {Null}]
    /\ pc \in [Workers -> {"wait", "process", "answer"}]
    /\ stage \in [Elts -> Stages] /\ pending \in Seq(Elts)
    /\ cancelled \subseteq Elts

\* The queue is a proper list: following next from outF reaches exactly the
\* jobs pushed and not picked up or aborted, in the order of the pushes, and
\* inF is the last of them.
QueueIsPending ==
    /\ ListFrom(outF["in"], next) = pending
    /\ inF["in"] = IF pending = <<>> THEN Null ELSE pending[Len(pending)]

\* "adds a job to do in the thread pool" (thread-pool.md on pushTpool): every
\* job pushed, not picked up and not aborted is in the workers' queue.
PushedJobsQueued ==
    LET list == ListFrom(outF["in"], next)
    IN  \A i \in DOMAIN pending : \E j \in DOMAIN list : list[j] = pending[i]

\* No block is freed while a FIFO or a worker still holds it, and no two of
\* them hold the same one: neither an abort nor a worker frees a job that
\* another thread will touch.
EltsOwnedOnce ==
    LET queued(f) == ListFrom(outF[f], next)
        inQueue(f) == {queued(f)[i] : i \in DOMAIN queued(f)}
        held(w) == {elt[w]} \ {Null}
    IN  /\ inQueue("in") \cap inQueue("resp") = {}
        /\ \A e \in inQueue("in") \cup inQueue("resp") : malloced[e]
        /\ \A w \in Workers :
             /\ \A e \in held(w) : malloced[e] /\ e \notin inQueue("in") \cup inQueue("resp")
             /\ \A v \in Workers \ {w} : held(v) \cap held(w) = {}

\* The FIFOs are proper lists of blocks that are allocated and owned once.
QueueInvariant == PoolTypeOK /\ QueueIsPending /\ EltsOwnedOnce

\* "When the abort returns, it garanties no job (matching the key) response
\* will be posted on response queues" (thread-pool.md), whether the job was
\* queued, running or waiting for the lock when the abort came.
NoAnswerAfterAbort == \A e \in cancelled : stage[e] # "posted"

\* The abort is selective and a response is not lost: a worker that will
\* drop its job holds a job of an aborted key, even when the flag was raised
\* while the worker was idle or had another job.
DropsOnlyAborted ==
    \A w \in Workers : pc[w] = "answer" /\ abortFlag[w] => elt[w] \in cancelled

\* abortTpool ends the jobs of its key, all of them and no others.
AbortExact == NoAnswerAfterAbort /\ DropsOnlyAborted

\* "if you don't set it, no return is performed, the thread pool frees the
\* message 'msg' when the job is done" (thread-pool.md).
SilentJobsFreed ==
    \A e \in Elts : stage[e] = "processed" /\ ~reponseFifo[e] => ~malloced[e]

\* Every job pushed is taken up by a worker or aborted, and every job taken
\* up with a response FIFO comes back or was aborted.
JobsTakenUp == \A e \in Elts : stage[e] = "pushed" ~> stage[e] # "pushed"
JobsComeBack ==
    \A e \in Elts : stage[e] = "picked" /\ reponseFifo[e] ~> stage[e] \in {"none", "dropped"}

\* With workers that run, no job that pushTpool was given is forgotten.
JobsFinish == JobsTakenUp /\ JobsComeBack
=============================================================================
