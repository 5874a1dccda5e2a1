---------------------------- MODULE PluginsProofs ----------------------------
(***************************************************************************)
(* Proofs about the service models loaded at run time, for any number of   *)
(* them and any sizes: the agent takes the three datagrams of a call for   *)
(* what they are, and loads what the RIC has sent.                         *)
(***************************************************************************)
EXTENDS Plugins, TLAPS, FiniteSetTheorems, WellFoundedInduction

(* The constants; the longest datagram is only known to be a number. *)
LEMMA Constants ==
  /\ Sms \subseteq Nat \ {0} /\ IsFiniteSet(Sms) /\ Runtime \subseteq Sms /\ AtStart \subseteq Sms
  /\ FileSize \in [Sms -> Nat] /\ \A s \in Sms : FileSize[s] >= 128
  /\ MaxDatagram \in Nat /\ Huge = MaxDatagram + 1 /\ NoSm = 0
<1>1. MaxDatagram \in Nat
  BY SMT DEF MaxDatagram
<1> QED BY <1>1, PluginAssumption DEF Sms, Huge, NoSm

Kinds == {"name", "size", "data"}
Datagrams == [kind : Kinds, sm : Runtime]

RxStates ==
  [pc : {"socket", "name", "size", "data", "load", "exit"}, name : Sms \cup {NoSm},
   size : Nat, data : Sms \cup {NoSm}]

WalkStates ==
  [pc : {"idle", "front", "walk"}, left : 0 .. Cardinality(Sms), it : Sms \cup {0}, sent : Nat]

\* The types, those of the queues and records in full.
TypeInv ==
  /\ PluginTypeOK
  /\ mode \in Modes
  /\ udp \in Seq(Datagrams) /\ toAgent \in Seq(Sms) /\ toRic \in Seq(Sms)
  /\ rx \in RxStates /\ walk \in WalkStates

LEMMA StageNames ==
  /\ {Stages[i] : i \in DOMAIN Stages} = {"idle", "name", "size", "data", "done"}
  /\ Stages[2] = "name" /\ Stages[3] = "size" /\ Stages[4] = "data" /\ Stages[5] = "done"
<1>1. DOMAIN Stages = 1 .. 5
  BY DEF Stages
<1>2. /\ Stages[1] = "idle" /\ Stages[2] = "name" /\ Stages[3] = "size" /\ Stages[4] = "data"
      /\ Stages[5] = "done"
  BY DEF Stages
<1> QED BY <1>1, <1>2

LEMMA HeadTail ==
  ASSUME NEW S, NEW q \in Seq(S), q # << >>
  PROVE  Head(q) \in S /\ Tail(q) \in Seq(S) /\ Head(q) = q[1]
OBVIOUS

(* The walk of the setup request stays in the tree, or ends. *)
LEMMA NextInTree ==
  ASSUME NEW n \in Nat, agSms \subseteq Sms
  PROVE  assoc_next(n) \in Sms \cup {0}
<1> DEFINE above == {s \in agSms : s > n}
           K == {s \in Nat : s \in above}
<1>0. K = above
  BY Constants
<1>1. CASE above = {}
  BY <1>1 DEF assoc_next
<1>2. CASE above # {}
  <2>2. PICK x \in K : \A k \in K : ~(<<k, x>> \in OpToRel(<, Nat))
    <3>1. PICK y : y \in K
      BY <1>0, <1>2
    <3> HIDE DEF above
    <3> QED BY <3>1, NatLessThanWellFounded, WFMin
  <2>3. x \in above /\ \A y \in above : x <= y
    <3>1. \A y \in Nat : <<y, x>> \in OpToRel(<, Nat) <=> y < x
      <4>1. x \in Nat
        BY <2>2
      <4> QED BY <4>1 DEF OpToRel
    <3>2. x \in Nat /\ \A y \in K : y \in Nat /\ ~(y < x)
      BY <2>2, <3>1
    <3>3. x \in K /\ x \in above
      BY <1>0, <2>2
    <3>4. \A y \in above : y \in Nat /\ ~(y < x)
      BY <1>0, <3>2
    <3> HIDE DEF K, above
    <3> QED BY <3>2, <3>3, <3>4
  <2>4. (CHOOSE s \in above : \A r \in above : s <= r) \in above
    BY <2>3
  <2> QED BY <1>2, <2>4 DEF assoc_next
<1> QED BY <1>1, <1>2

(* The RIC: load_sm_near_ric, subscriptions and indications. *)
LEMMA RicTypes ==
  ASSUME TypeInv,
         \/ \E s \in Runtime : load_plugin_ric(s) \/ tx_plugin_ric(s)
         \/ \E s \in Sms : report_service(s)
         \/ handle_indication
  PROVE  TypeInv'
<1> USE DEF TypeInv, PluginTypeOK
<1>1. ASSUME NEW s \in Runtime, load_plugin_ric(s) PROVE TypeInv'
  <2>1. load' \in [Runtime -> {Stages[i] : i \in DOMAIN Stages}]
    BY <1>1, StageNames DEF load_plugin_ric
  <2>2. /\ UNCHANGED <<mode, pub_sub, asked, walk, subs, toAgent, toRic, udp, rx, agSms>>
        /\ ricSms' = ricSms \cup {s}
    BY <1>1 DEF load_plugin_ric, loopVars, linkVars, rxVars
  <2> QED BY <2>1, <2>2, Constants
<1>2. ASSUME NEW s \in Runtime, tx_plugin_ric(s) PROVE TypeInv'
  <2>0. UNCHANGED <<mode, ricSms, pub_sub, asked, walk, subs, toAgent, toRic, rx, agSms>>
    BY <1>2 DEF tx_plugin_ric, loopVars, linkVars
  <2>1. PICK i \in 2 .. 4 :
         /\ load[s] = Stages[i]
         /\ \/ UNCHANGED <<load, udp>>
            \/ /\ load' = [load EXCEPT ![s] = Stages[i + 1]]
               /\ Datagram([kind |-> Stages[i], sm |-> s])
    BY <1>2 DEF tx_plugin_ric
  <2>2a. i + 1 \in DOMAIN Stages /\ Stages[i] \in Kinds
    <3>1. i = 2 \/ i = 3 \/ i = 4
      OBVIOUS
    <3>2. DOMAIN Stages = 1 .. 5
      BY DEF Stages
    <3> QED BY <3>1, <3>2, StageNames DEF Kinds
  <2>2b. PICK next : next = Stages[i + 1]
    OBVIOUS
  <2>2. load' \in [Runtime -> {Stages[k] : k \in DOMAIN Stages}]
    <3>1. next \in {Stages[k] : k \in DOMAIN Stages}
      BY <2>2a, <2>2b
    <3>2. load' = load \/ load' = [load EXCEPT ![s] = next]
      BY <2>1, <2>2b
    <3> QED BY <3>1, <3>2
  <2>3. PICK d \in Datagrams : d = [kind |-> Stages[i], sm |-> s]
    BY <2>2a DEF Datagrams
  <2>4. udp' = udp \/ udp' = Append(udp, d)
    BY <2>1, <2>3 DEF Datagram
  <2>5. udp' \in Seq(Datagrams)
    <3>1. udp \in Seq(Datagrams)
      OBVIOUS
    <3>2. Append(udp, d) \in Seq(Datagrams)
      BY <3>1
    <3> QED BY <2>4, <3>1, <3>2
  <2> QED BY <2>0, <2>2, <2>5
<1>3. ASSUME NEW s \in Sms, report_service(s) PROVE TypeInv'
  <2>1. UNCHANGED <<mode, ricSms, pub_sub, load, walk, subs, toRic, udp, rx, agSms>>
    BY <1>3 DEF report_service, loopVars, rxVars
  <2>2. asked' = asked \cup {s} /\ toAgent' = Append(toAgent, s)
    BY <1>3 DEF report_service
  <2> QED BY <2>1, <2>2
<1>4. CASE handle_indication
  <2>1. UNCHANGED <<mode, ricSms, pub_sub, asked, load, walk, subs, toAgent, udp, rx, agSms>>
    BY <1>4 DEF handle_indication, ricVars, loopVars, rxVars
  <2>2. toRic # <<>> /\ toRic' = Tail(toRic)
    BY <1>4 DEF handle_indication
  <2> QED BY <2>1, <2>2, HeadTail
<1> QED BY <1>1, <1>2, <1>3, <1>4

(* The agent's event loop. *)
LEMMA LoopTypes == ASSUME TypeInv, EventLoop PROVE TypeInv'
<1> USE DEF TypeInv, PluginTypeOK
<1>0. UNCHANGED <<mode, ricSms, pub_sub, asked, load, udp, rx, agSms>>
  BY DEF EventLoop, handle_subscription, setup_size, setup_step, setup_end, indication_event,
         ricVars, rxVars
<1>1. CASE handle_subscription
  <2>1. toAgent # <<>> /\ toAgent' = Tail(toAgent) /\ UNCHANGED <<walk, toRic>>
    BY <1>1 DEF handle_subscription
  <2>2. subs' \subseteq Sms
    BY <1>1, <2>1, HeadTail DEF handle_subscription
  <2> QED BY <1>0, <2>1, <2>2, HeadTail
<1>2. CASE setup_size
  <2>1. /\ walk' = [pc |-> "front", left |-> Cardinality(agSms), it |-> 0, sent |-> walk.sent + 1]
        /\ UNCHANGED <<subs, toAgent, toRic>>
    BY <1>2 DEF setup_size, linkVars
  <2>2. Cardinality(agSms) \in 0 .. Cardinality(Sms)
    <3>1. agSms \in SUBSET Sms /\ IsFiniteSet(Sms)
      BY Constants
    <3>2. IsFiniteSet(agSms) /\ Cardinality(agSms) <= Cardinality(Sms)
      BY <3>1, FS_Subset
    <3>3. Cardinality(agSms) \in Nat /\ Cardinality(Sms) \in Nat
      BY <3>1, <3>2, FS_CardinalityType
    <3> QED BY <3>2, <3>3
  <2> QED BY <1>0, <2>1, <2>2 DEF WalkStates
<1>3. CASE setup_step
  <2>1. UNCHANGED <<subs, toAgent, toRic>>
    BY <1>3 DEF setup_step, linkVars
  <2>2. assoc_next(0) \in Sms \cup {0} /\ assoc_next(walk.it) \in Sms \cup {0}
    BY Constants, NextInTree
  <2>3. walk' \in WalkStates
    <3>1. PICK a, b : a = assoc_next(0) /\ b = assoc_next(walk.it)
      OBVIOUS
    <3>2. a \in Sms \cup {0} /\ b \in Sms \cup {0} /\ Cardinality(Sms) \in Nat
      BY <2>2, <3>1, Constants, FS_CardinalityType
    <3>3. \/ walk' = [walk EXCEPT !.pc = "walk", !.it = a]
          \/ walk.left > 0 /\ walk' = [walk EXCEPT !.left = @ - 1, !.it = b]
      BY <1>3, <3>1 DEF setup_step
    <3>4. walk.left - 1 \in 0 .. Cardinality(Sms) \/ ~(walk.left > 0)
      BY <3>2 DEF WalkStates
    <3>5. CASE walk' = [walk EXCEPT !.pc = "walk", !.it = a]
      BY <3>2, <3>5 DEF WalkStates
    <3>6. CASE walk.left > 0 /\ walk' = [walk EXCEPT !.left = @ - 1, !.it = b]
      <4>1. PICK l \in 0 .. Cardinality(Sms) : l = walk.left - 1
        BY <3>4, <3>6
      <4>2. walk' = [walk EXCEPT !.left = l, !.it = b]
        BY <3>6, <4>1
      <4> QED BY <3>2, <4>2 DEF WalkStates
    <3> QED BY <3>3, <3>5, <3>6
  <2> QED BY <1>0, <2>1, <2>3 DEF WalkStates
<1>4. CASE setup_end
  <2>1. walk' = [walk EXCEPT !.pc = "idle"] /\ UNCHANGED <<subs, toAgent, toRic>>
    BY <1>4 DEF setup_end, linkVars
  <2> QED BY <1>0, <2>1 DEF WalkStates
<1>5. ASSUME NEW s \in Sms, indication_event(s) PROVE TypeInv'
  <2>1. toRic' = Append(toRic, s) /\ UNCHANGED <<walk, subs, toAgent>>
    BY <1>5 DEF indication_event, loopVars
  <2> QED BY <1>0, <2>1
<1> QED BY <1>1, <1>2, <1>3, <1>4, <1>5 DEF EventLoop

(* The receiving thread and the end of the agent. *)
LEMMA RxTypes == ASSUME TypeInv, RxThread \/ free_plugin_ag PROVE TypeInv'
<1> USE DEF TypeInv, PluginTypeOK
<1>0. UNCHANGED <<mode, ricSms, pub_sub, asked, load, walk, subs, toAgent, toRic>>
  BY DEF RxThread, rx_socket, rx_recv, rx_exit, load_plugin_ag, free_plugin_ag, ricVars,
         loopVars, linkVars
<1>1. CASE rx_socket \/ rx_exit \/ free_plugin_ag
  <2>1. UNCHANGED <<udp, agSms>>
    BY <1>1 DEF rx_socket, rx_exit, free_plugin_ag, rxVars
  <2>2. rx' \in RxStates
    BY <1>1 DEF rx_socket, rx_exit, free_plugin_ag, rxVars, RxStates
  <2> QED BY <1>0, <2>1, <2>2 DEF RxStates
<1>2. CASE rx_recv
  <2>1. udp # <<>> /\ udp' = Tail(udp) /\ agSms' = agSms
    BY <1>2 DEF rx_recv
  <2>2. Head(udp) \in Datagrams /\ udp' \in Seq(Datagrams)
    BY <2>1, HeadTail
  <2>3. PICK d \in Datagrams : d = Head(udp)
    BY <2>2
  <2>4. d.sm \in Sms /\ FileSize[d.sm] \in Nat /\ Huge \in Nat
    <3>1. PICK m \in Runtime : m = d.sm
      BY DEF Datagrams
    <3>2. m \in Sms /\ FileSize[m] \in Nat
      BY Constants
    <3>3. Huge \in Nat
      BY Constants
    <3> QED BY <3>1, <3>2, <3>3
  <2>5. rx' \in RxStates
    <3>1. PICK name, size, data :
            /\ name = IF d.kind = "name" THEN d.sm ELSE NoSm
            /\ size = IF d.kind = "size" THEN FileSize[d.sm] ELSE Huge
            /\ data = IF d.kind = "data" THEN d.sm ELSE NoSm
      OBVIOUS
    <3>2. name \in Sms \cup {NoSm} /\ size \in Nat /\ data \in Sms \cup {NoSm}
      BY <2>4, <3>1
    <3>3. \/ rx' = [rx EXCEPT !.pc = "size", !.name = name]
          \/ rx' = [rx EXCEPT !.pc = "data", !.size = size]
          \/ rx' = [rx EXCEPT !.pc = "load", !.data = data]
      BY <1>2, <2>3, <3>1 DEF rx_recv
    <3> QED BY <3>2, <3>3 DEF RxStates
  <2> QED BY <1>0, <2>1, <2>2, <2>5 DEF RxStates
<1>3. CASE load_plugin_ag
  <2>1. udp' = udp /\ rx' = [rx EXCEPT !.pc = "name"]
    BY <1>3 DEF load_plugin_ag
  <2>2. agSms' \subseteq Sms
    BY <1>3 DEF load_plugin_ag
  <2> QED BY <1>0, <2>1, <2>2 DEF RxStates
<1> QED BY <1>1, <1>2, <1>3 DEF RxThread

LEMMA TypeInit == Init => TypeInv
<1> SUFFICES ASSUME Init PROVE TypeInv
  OBVIOUS
<1>0. Cardinality(Sms) \in Nat /\ 0 \in 0 .. Cardinality(Sms)
  BY Constants, FS_CardinalityType
<1>1. load \in [Runtime -> {Stages[i] : i \in DOMAIN Stages}]
  BY StageNames DEF Init
<1>2. walk \in WalkStates /\ walk.left = 0 /\ walk.it = 0
  BY <1>0 DEF Init, WalkStates
<1>3. rx \in RxStates /\ rx.pc = "socket" /\ rx.name = NoSm /\ rx.data = NoSm
  BY DEF Init, RxStates
<1>4. PluginTypeOK
  BY <1>0, <1>1, <1>2, <1>3, Constants DEF Init, PluginTypeOK
<1> QED BY <1>2, <1>3, <1>4 DEF Init, TypeInv

LEMMA TypeNext == TypeInv /\ [Next]_vars => TypeInv'
<1> SUFFICES ASSUME TypeInv, [Next]_vars PROVE TypeInv'
  OBVIOUS
<1>1. CASE Next
  BY <1>1, RicTypes, LoopTypes, RxTypes DEF Next
<1>2. CASE UNCHANGED vars
  BY <1>2 DEF TypeInv, PluginTypeOK, vars, ricVars, loopVars, linkVars, rxVars
<1> QED BY <1>1, <1>2

-----------------------------------------------------------------------------
(***************************************************************************)
(* The datagrams of a call: sent in order, once, by the call.              *)
(***************************************************************************)
Rank(k) == CASE k = "name" -> 1 [] k = "size" -> 2 [] k = "data" -> 3

Sent(k, s) ==
  \/ k = "name" /\ load[s] \in {"size", "data", "done"}
  \/ k = "size" /\ load[s] \in {"data", "done"}
  \/ k = "data" /\ load[s] = "done"

\* What a queue of datagrams holds, without the order; whether the datagrams of
\* each call are in order in it; whether nothing of s is in it from number i on.
Held(q) == {<<q[i].kind, q[i].sm>> : i \in DOMAIN q}
InOrder(q) ==
  \A i, j \in DOMAIN q : i < j /\ q[i].sm = q[j].sm => Rank(q[i].kind) < Rank(q[j].kind)
NoneFrom(q, s, i) == \A k \in DOMAIN q : k >= i => q[k].sm # s

Socket == Held(udp)

\* A service model is sent after the RIC has loaded it; what the agent has
\* received or has in its socket was sent, and a file is no longer than a
\* datagram.
SentInOrder ==
  /\ \A s \in Runtime : load[s] # "idle" => s \in ricSms
  /\ \A k \in Kinds, s \in Runtime : <<k, s>> \in Socket => Sent(k, s)
  /\ \A s \in Runtime : <<"data", s>> \in Socket => FileSize[s] < Huge
  /\ rx.name # NoSm => rx.name \in Runtime /\ Sent("name", rx.name)
  /\ InOrder(udp)

\* The thread waits for the rest of what it has begun with s.
Begun(s) == rx.pc \in {"size", "data"} /\ rx.name = s

\* Nothing of s follows in the socket, now or later, from number i on.
NoMore(s, i) == load[s] = "done" /\ NoneFrom(udp, s, i)

\* Calls one after the other: the datagrams of one come before those of the
\* next, so that a size taken with a name is the one of this name, or no size,
\* or the rest of this name is lost.
OneCall ==
  \A r, s \in Runtime : load[r] \in Kinds /\ load[s] \in Kinds => r = s
SocketApart ==
  \A i, j \in DOMAIN udp : i < j /\ udp[i].sm # udp[j].sm => NoMore(udp[i].sm, j)
RestFirst ==
  \A s \in Runtime : Begun(s) => \A i \in DOMAIN udp : udp[i].sm # s => NoMore(s, i)
SizeFits ==
  \A s \in Runtime : rx.pc = "data" /\ rx.name = s =>
    rx.size = FileSize[s] \/ rx.size = Huge \/ NoMore(s, 1)
LoadFits ==
  AgentUp /\ rx.pc = "load" /\ rx.name = rx.data /\ rx.data # NoSm => rx.size = FileSize[rx.data]

CallsApart == OneCall /\ SocketApart /\ RestFirst /\ SizeFits /\ LoadFits

\* Nothing is lost: of each call the agent has taken nothing, or it is at the
\* datagram that is next, or it has taken all.
Fresh(s) == \A k \in Kinds : Sent(k, s) => <<k, s>> \in Socket
Half(s) ==
  \A k \in Kinds : IF Rank(k) < Rank(rx.pc) THEN Sent(k, s) /\ <<k, s>> \notin Socket
                   ELSE Sent(k, s) => <<k, s>> \in Socket
Over(s) == load[s] = "done" /\ \A k \in Kinds : <<k, s>> \notin Socket
Placed(s) == IF Begun(s) THEN Half(s) ELSE Fresh(s) \/ Over(s)

\* The thread has taken something else for a size, or the size of a file that
\* cannot be sent: the next datagram ends the process. Until then it receives.
Doomed == rx.pc = "data" /\ rx.size = Huge
Receiving == AgentUp /\ rx.pc # "exit" /\ ~Doomed

InStep ==
  /\ \A s \in Runtime : Placed(s)
  /\ rx.pc \in {"size", "data", "load"} => rx.name \in Runtime
  /\ rx.pc \in {"data", "load"} => rx.size = FileSize[rx.name]
  /\ rx.pc = "load" => rx.name = rx.data

NothingLost ==
  /\ rx.pc = "socket" => \A s \in Runtime : load[s] = "idle"
  /\ Receiving => InStep

\* Both together: the three datagrams are always taken for what they are.
FramingAsserts == {"Buffer overflow", "Memory exhausted!", "rc == size", "dlopen"}
Framed == (AgentUp /\ rx.pc # "exit" => InStep) /\ FramingAsserts \cap failed = {}

Serial == mode.sequential
Lossless == ~mode.loss

SocketInv ==
  /\ TypeInv /\ SentInOrder
  /\ Serial => CallsApart
  /\ Lossless => NothingLost
  /\ Serial /\ Lossless => Framed

(***************************************************************************)
(* Datagrams and queues of them.                                           *)
(***************************************************************************)
LEMMA Ranks ==
  /\ Rank("name") = 1 /\ Rank("size") = 2 /\ Rank("data") = 3
  /\ \A k \in Kinds : k = "name" \/ k = "size" \/ k = "data"
  /\ \A k \in Kinds : Rank(k) \in Nat
BY DEF Rank, Kinds

(* The variables the socket and its readers depend on. *)
LEMMA Types ==
  ASSUME TypeInv
  PROVE  /\ load \in [Runtime -> {"idle", "name", "size", "data", "done"}]
         /\ rx \in RxStates
         /\ rx.pc \in {"socket", "name", "size", "data", "load", "exit"}
         /\ rx.size \in Nat /\ rx.name \in Sms \cup {NoSm} /\ rx.data \in Sms \cup {NoSm}
         /\ udp \in Seq(Datagrams) /\ Len(udp) \in Nat /\ DOMAIN udp = 1 .. Len(udp)
<1>1. load \in [Runtime -> {"idle", "name", "size", "data", "done"}]
  BY StageNames DEF TypeInv, PluginTypeOK
<1>2. rx \in RxStates /\ udp \in Seq(Datagrams)
  BY DEF TypeInv
<1>3. Len(udp) \in Nat /\ DOMAIN udp = 1 .. Len(udp)
  BY <1>2
<1> QED BY <1>1, <1>2, <1>3 DEF RxStates

(* The members of a queue. *)
LEMMA HeldAt ==
  ASSUME NEW q \in Seq(Datagrams)
  PROVE  /\ Len(q) \in Nat /\ DOMAIN q = 1 .. Len(q)
         /\ \A i \in DOMAIN q : /\ q[i].kind \in Kinds /\ q[i].sm \in Runtime
                                /\ <<q[i].kind, q[i].sm>> \in Held(q)
         /\ \A k, s : <<k, s>> \in Held(q) <=> \E i \in DOMAIN q : q[i].kind = k /\ q[i].sm = s
<1>1. Len(q) \in Nat /\ DOMAIN q = 1 .. Len(q) /\ \A i \in DOMAIN q : q[i] \in Datagrams
  OBVIOUS
<1>2. \A i \in DOMAIN q : q[i].kind \in Kinds /\ q[i].sm \in Runtime
  BY <1>1 DEF Datagrams
<1>3. \A i \in DOMAIN q : <<q[i].kind, q[i].sm>> \in Held(q)
  BY DEF Held
<1>4. \A k, s : <<k, s>> \in Held(q) <=> \E i \in DOMAIN q : q[i].kind = k /\ q[i].sm = s
  BY DEF Held
<1> QED BY <1>1, <1>2, <1>3, <1>4

Sending(q, k, s, p) == p = Append(q, [kind |-> k, sm |-> s])
Taking(q, d, p) == q # << >> /\ d = Head(q) /\ p = Tail(q)

(* A datagram behind those of its call. *)
LEMMA AppendOne ==
  ASSUME NEW q \in Seq(Datagrams), NEW k \in Kinds, NEW s \in Runtime, InOrder(q),
         \A j \in Kinds : <<j, s>> \in Held(q) => Rank(j) < Rank(k),
         NEW p, Sending(q, k, s, p)
  PROVE  /\ p \in Seq(Datagrams) /\ Len(p) = Len(q) + 1 /\ InOrder(p)
         /\ \A j, r : <<j, r>> \in Held(p) <=> <<j, r>> \in Held(q) \/ (j = k /\ r = s)
         /\ \A i \in DOMAIN q : i \in DOMAIN p /\ p[i] = q[i]
         /\ \A i \in DOMAIN p : i \in DOMAIN q \/ i = Len(p)
         /\ Len(p) \in DOMAIN p /\ p[Len(p)].kind = k /\ p[Len(p)].sm = s
<1>0. PICK d : d = [kind |-> k, sm |-> s]
  OBVIOUS
<1>1. d \in Datagrams /\ d.kind = k /\ d.sm = s
  BY <1>0 DEF Datagrams
<1>2. p = Append(q, d)
  BY <1>0 DEF Sending
<1>3. p \in Seq(Datagrams) /\ Len(p) = Len(q) + 1 /\ Len(q) \in Nat
  BY <1>1, <1>2
<1>4. \A i \in DOMAIN q : i \in DOMAIN p /\ p[i] = q[i]
  BY <1>2, <1>3
<1>5. p[Len(p)] = d /\ Len(p) \in DOMAIN p
  BY <1>2, <1>3
<1>6. \A i \in DOMAIN p : i \in DOMAIN q \/ i = Len(p)
  BY <1>3
<1>7. \A j, r : <<j, r>> \in Held(p) <=> <<j, r>> \in Held(q) \/ (j = k /\ r = s)
  <2> SUFFICES ASSUME NEW j, NEW r
               PROVE  <<j, r>> \in Held(p) <=> <<j, r>> \in Held(q) \/ (j = k /\ r = s)
    OBVIOUS
  <2>1. <<j, r>> \in Held(p) <=> \E i \in DOMAIN p : p[i].kind = j /\ p[i].sm = r
    BY DEF Held
  <2>2. <<j, r>> \in Held(q) <=> \E i \in DOMAIN q : q[i].kind = j /\ q[i].sm = r
    BY HeldAt
  <2> QED BY <1>1, <1>4, <1>5, <1>6, <2>1, <2>2
<1>8. InOrder(p)
  <2> SUFFICES ASSUME NEW i \in DOMAIN p, NEW j \in DOMAIN p, i < j, p[i].sm = p[j].sm
               PROVE  Rank(p[i].kind) < Rank(p[j].kind)
    BY DEF InOrder
  <2>1. i \in DOMAIN q
    BY <1>3, <1>6
  <2>2. CASE j \in DOMAIN q
    BY <1>4, <2>1, <2>2 DEF InOrder
  <2>3. CASE j = Len(p)
    <3>1. q[i].sm = s /\ q[i].kind \in Kinds /\ <<q[i].kind, q[i].sm>> \in Held(q)
      BY <1>1, <1>4, <1>5, <2>1, <2>3, HeldAt
    <3>2. Rank(q[i].kind) < Rank(k)
      BY <3>1
    <3> QED BY <1>1, <1>4, <1>5, <2>1, <2>3, <3>2
  <2> QED BY <1>6, <2>2, <2>3
<1> QED BY <1>1, <1>3, <1>4, <1>5, <1>6, <1>7, <1>8

(* The first datagram is taken. *)
LEMMA TakeOne ==
  ASSUME NEW q \in Seq(Datagrams), InOrder(q), NEW d, NEW p, Taking(q, d, p)
  PROVE  /\ d.kind \in Kinds /\ d.sm \in Runtime /\ <<d.kind, d.sm>> \in Held(q)
         /\ 1 \in DOMAIN q /\ d = q[1]
         /\ p \in Seq(Datagrams) /\ InOrder(p)
         /\ \A j, r : <<j, r>> \in Held(p) <=> <<j, r>> \in Held(q) /\ ~(j = d.kind /\ r = d.sm)
         /\ \A j \in Kinds : <<j, d.sm>> \in Held(q) => j = d.kind \/ Rank(d.kind) < Rank(j)
         /\ \A i \in DOMAIN p : i \in Nat /\ 1 < i + 1 /\ i + 1 \in DOMAIN q /\ p[i] = q[i + 1]
<1>1. Len(q) \in Nat /\ DOMAIN q = 1 .. Len(q) /\ 1 \in DOMAIN q /\ d = q[1]
  BY DEF Taking
<1>2. d.kind \in Kinds /\ d.sm \in Runtime /\ <<d.kind, d.sm>> \in Held(q)
  BY <1>1, HeldAt
<1>3. /\ p \in Seq(Datagrams) /\ Len(p) = Len(q) - 1
      /\ \A i \in DOMAIN p : i \in Nat /\ 1 < i + 1 /\ i + 1 \in DOMAIN q /\ p[i] = q[i + 1]
  BY DEF Taking
<1>4. \A i \in DOMAIN q : i = 1 \/ (i - 1 \in DOMAIN p /\ p[i - 1] = q[i])
  BY <1>1, <1>3
<1>5. InOrder(p)
  <2> SUFFICES ASSUME NEW i \in DOMAIN p, NEW j \in DOMAIN p, i < j, p[i].sm = p[j].sm
               PROVE  Rank(p[i].kind) < Rank(p[j].kind)
    BY DEF InOrder
  <2>1. PICK a \in DOMAIN q, b \in DOMAIN q : a < b /\ p[i] = q[a] /\ p[j] = q[b]
    BY <1>3
  <2> QED BY <2>1 DEF InOrder
<1>6. \A i \in DOMAIN q : i # 1 /\ q[i].sm = d.sm => Rank(d.kind) < Rank(q[i].kind)
  BY <1>1 DEF InOrder
<1>7. \A j \in Kinds : <<j, d.sm>> \in Held(q) => j = d.kind \/ Rank(d.kind) < Rank(j)
  BY <1>1, <1>6, HeldAt
<1>8. ASSUME NEW j, NEW r
      PROVE  <<j, r>> \in Held(p) <=> <<j, r>> \in Held(q) /\ ~(j = d.kind /\ r = d.sm)
  <2>1. ASSUME <<j, r>> \in Held(p) PROVE <<j, r>> \in Held(q) /\ ~(j = d.kind /\ r = d.sm)
    <3>1. PICK i \in DOMAIN p : p[i].kind = j /\ p[i].sm = r
      BY <2>1 DEF Held
    <3>2. PICK a \in DOMAIN q : a # 1 /\ q[a].kind = j /\ q[a].sm = r
      BY <1>3, <3>1
    <3>3. ~(Rank(j) < Rank(j))
      <4>1. Rank(j) \in Nat
        BY <3>2, HeldAt, Ranks
      <4> QED BY <4>1
    <3> QED BY <1>6, <3>2, <3>3, HeldAt
  <2>2. ASSUME <<j, r>> \in Held(q), ~(j = d.kind /\ r = d.sm) PROVE <<j, r>> \in Held(p)
    <3>1. PICK i \in DOMAIN q : q[i].kind = j /\ q[i].sm = r
      BY <2>2, HeldAt
    <3>2. i # 1
      BY <1>1, <2>2, <3>1
    <3>3. PICK a \in DOMAIN p : p[a].kind = j /\ p[a].sm = r
      BY <1>4, <3>1, <3>2
    <3> QED BY <1>3, <3>3, HeldAt
  <2> QED BY <2>1, <2>2
<1> QED BY <1>1, <1>2, <1>3, <1>5, <1>7, <1>8

-----------------------------------------------------------------------------
(***************************************************************************)
(* Steps that neither send nor receive.                                    *)
(***************************************************************************)
Quiet ==
  /\ UNCHANGED <<mode, load, udp, rx>>
  /\ ricSms \subseteq ricSms' /\ failed \subseteq failed'
  /\ FramingAsserts \cap failed' \subseteq failed

LEMMA QuietSteps ==
  ASSUME \/ \E s \in Sms : report_service(s)
         \/ handle_indication \/ EventLoop \/ free_plugin_ag
  PROVE  Quiet
<1>1. UNCHANGED <<mode, load, udp, rx, ricSms>>
  BY DEF report_service, handle_indication, EventLoop, handle_subscription, setup_size, setup_step,
         setup_end, indication_event, free_plugin_ag, ricVars, rxVars
<1>2. \/ failed' = failed \/ failed' = failed \cup {"publish_ind_msg"}
      \/ failed' = failed \cup {"sm_plugin_ag"} \/ failed' = failed \cup {"Length mismatch"}
  BY DEF report_service, handle_indication, EventLoop, handle_subscription, setup_size, setup_step,
         setup_end, indication_event, free_plugin_ag, Fail
<1> QED BY <1>1, <1>2 DEF Quiet, FramingAsserts

(* A process that has failed an assertion stays so. *)
LEMMA UpBefore ==
  ASSUME failed \subseteq failed', AgentUp'
  PROVE  AgentUp
BY DEF AgentUp, RicAsserts

LEMMA QuietKeeps ==
  ASSUME Quiet
  PROVE  /\ SentInOrder => SentInOrder'
         /\ CallsApart => CallsApart'
         /\ NothingLost => NothingLost'
         /\ Framed => Framed'
<1>1. /\ load' = load /\ udp' = udp /\ rx' = rx /\ (AgentUp' => AgentUp)
      /\ ricSms \subseteq ricSms'
  BY UpBefore DEF Quiet
<1>2. Socket' = Socket /\ \A k, s : Sent(k, s)' = Sent(k, s)
  BY <1>1 DEF Socket, Sent
<1>3. SentInOrder => SentInOrder'
  BY <1>1, <1>2 DEF SentInOrder
<1>4. CallsApart => CallsApart'
  BY <1>1 DEF CallsApart, OneCall, SocketApart, RestFirst, SizeFits, LoadFits, NoMore, Begun
<1>5. \A s \in Runtime : Placed(s) => Placed(s)'
  BY <1>1, <1>2 DEF Placed, Begun, Half, Fresh, Over
<1>6. Receiving' => Receiving
  BY <1>1 DEF Receiving, Doomed
<1>9. InStep => InStep'
  BY <1>1, <1>5 DEF InStep
<1>7. NothingLost => NothingLost'
  BY <1>1, <1>6, <1>9 DEF NothingLost
<1>8. Framed => Framed'
  BY <1>1, <1>9 DEF Framed, Quiet
<1> QED BY <1>3, <1>4, <1>7, <1>8

-----------------------------------------------------------------------------
(***************************************************************************)
(* The RIC: a call begins, and sends its datagrams.                        *)
(***************************************************************************)
LEMMA BeginKeeps ==
  ASSUME TypeInv, NEW s \in Runtime, load_plugin_ric(s)
  PROVE  /\ SentInOrder => SentInOrder'
         /\ Serial /\ CallsApart => CallsApart'
         /\ Lossless /\ NothingLost => NothingLost'
         /\ Framed => Framed'
<1>1. /\ load' = [load EXCEPT ![s] = "name"] /\ load[s] = "idle" /\ ricSms' = ricSms \cup {s}
      /\ udp' = udp /\ rx' = rx /\ failed' = failed
  BY DEF load_plugin_ric, rxVars
<1>2. /\ load \in [Runtime -> {"idle", "name", "size", "data", "done"}]
      /\ \A r \in Runtime : r # s => load'[r] = load[r]
      /\ load'[s] = "name"
  BY <1>1, Types
<1>3. Socket' = Socket /\ AgentUp' = AgentUp /\ Receiving' = Receiving
  BY <1>1 DEF Socket, AgentUp, Receiving, Doomed
<1>4. \A k, r : r \in Runtime => (Sent(k, r)' <=> Sent(k, r))
  BY <1>1, <1>2 DEF Sent
<1>5. SentInOrder => SentInOrder'
  <2> SUFFICES ASSUME SentInOrder PROVE SentInOrder'
    OBVIOUS
  <2>1. \A r \in Runtime : load'[r] # "idle" => r \in ricSms'
    BY <1>1, <1>2 DEF SentInOrder
  <2> QED BY <1>1, <1>3, <1>4, <2>1 DEF SentInOrder
<1>6. ASSUME NEW r \in Runtime, NEW i, NoMore(r, i) PROVE NoMore(r, i)'
  BY <1>1, <1>2, <1>6 DEF NoMore
<1>7. Serial /\ CallsApart => CallsApart'
  <2> SUFFICES ASSUME Serial, CallsApart PROVE CallsApart'
    OBVIOUS
  <2>1. \A r \in Runtime : load[r] \in {"idle", "done"}
    BY DEF load_plugin_ric, Serial
  <2>2. OneCall'
    BY <1>2, <2>1 DEF OneCall, Kinds
  <2>3. SocketApart'
    <3>1. \A i \in DOMAIN udp : udp[i].sm \in Runtime
      BY Types, HeldAt
    <3> QED BY <1>1, <1>6, <3>1 DEF CallsApart, SocketApart
  <2>4. RestFirst' /\ SizeFits'
    BY <1>1, <1>6 DEF CallsApart, RestFirst, SizeFits, Begun
  <2>5. LoadFits'
    BY <1>1, <1>3 DEF CallsApart, LoadFits
  <2> QED BY <2>2, <2>3, <2>4, <2>5 DEF CallsApart
<1>8. InStep => InStep'
  <2>1. ASSUME NEW r \in Runtime, Placed(r) PROVE Placed(r)'
    <3>1. Fresh(r)' = Fresh(r) /\ Half(r)' = Half(r) /\ Begun(r)' = Begun(r)
      BY <1>1, <1>3, <1>4 DEF Fresh, Half, Begun
    <3>2. Over(r) => Over(r)'
      BY <1>1, <1>2, <1>3 DEF Over
    <3> QED BY <2>1, <3>1, <3>2 DEF Placed
  <2> QED BY <1>1, <2>1 DEF InStep
<1>9. Lossless /\ NothingLost => NothingLost'
  <2>1. Lossless => rx.pc # "socket"
    BY DEF load_plugin_ric, Lossless
  <2> QED BY <1>1, <1>3, <1>8, <2>1 DEF NothingLost
<1>10. Framed => Framed'
  BY <1>1, <1>3, <1>8 DEF Framed
<1> QED BY <1>5, <1>7, <1>9, <1>10

\* The call for s sends datagram k, and goes on to n: into the socket or lost.
Sends(s, k, n) ==
  /\ \/ k = "name" /\ n = "size"
     \/ k = "size" /\ n = "data"
     \/ k = "data" /\ n = "done" /\ FileSize[s] < Huge
  /\ load[s] = k /\ load' = [load EXCEPT ![s] = n]
  /\ \/ Sending(udp, k, s, udp')
     \/ udp' = udp /\ (Lossless => rx.pc \in {"socket", "exit"})
  /\ UNCHANGED <<mode, ricSms, rx, failed>>

LEMMA TxSteps ==
  ASSUME TypeInv, NEW s \in Runtime, tx_plugin_ric(s)
  PROVE  Quiet \/ \E k \in Kinds : \E n : Sends(s, k, n)
<1>1. PICK i \in 2 .. 4 :
        /\ load[s] = Stages[i]
        /\ IF Stages[i] = "data" /\ FileSize[s] > mode.max
             THEN Fail("sendto") /\ UNCHANGED <<load, udp>>
             ELSE /\ load' = [load EXCEPT ![s] = Stages[i + 1]]
                  /\ Datagram([kind |-> Stages[i], sm |-> s])
                  /\ UNCHANGED failed
  BY DEF tx_plugin_ric
<1>2. UNCHANGED <<mode, ricSms, rx>>
  BY DEF tx_plugin_ric
<1>3. CASE Fail("sendto") /\ UNCHANGED <<load, udp>>
  BY <1>2, <1>3 DEF Fail, Quiet, FramingAsserts
<1>4. CASE /\ ~(Stages[i] = "data" /\ FileSize[s] > mode.max)
           /\ load' = [load EXCEPT ![s] = Stages[i + 1]]
           /\ Datagram([kind |-> Stages[i], sm |-> s])
           /\ UNCHANGED failed
  <2>1. PICK k, n : k = Stages[i] /\ n = Stages[i + 1]
    OBVIOUS
  <2>2. \/ k = "name" /\ n = "size"
        \/ k = "size" /\ n = "data"
        \/ k = "data" /\ n = "done"
    <3>1. i = 2 \/ i = 3 \/ i = 4
      OBVIOUS
    <3> QED BY <2>1, <3>1, StageNames
  <2>3. k = "data" => FileSize[s] < Huge
    <3>1. PICK m : m = mode.max
      OBVIOUS
    <3>2. m \in Nat /\ m <= MaxDatagram
      <4>1. PICK top \in Nat : top = MaxDatagram
        BY Constants
      <4>2. mode \in [loss : BOOLEAN, sequential : BOOLEAN, max : 0 .. top]
        BY <4>1, PluginAssumption DEF TypeInv
      <4> QED BY <3>1, <4>1, <4>2
    <3>3. FileSize[s] \in Nat
      BY Constants
    <3> QED BY <1>4, <2>1, <3>1, <3>2, <3>3, Constants
  <2>4. \/ Sending(udp, k, s, udp')
        \/ udp' = udp /\ (Lossless => rx.pc \in {"socket", "exit"})
    BY <1>4, <2>1 DEF Datagram, Sending, Lossless
  <2>5. load[s] = k /\ load' = [load EXCEPT ![s] = n] /\ failed' = failed
    BY <1>1, <1>4, <2>1
  <2>6. Sends(s, k, n)
    BY <1>2, <2>2, <2>3, <2>4, <2>5 DEF Sends
  <2> QED BY <2>2, <2>6 DEF Kinds
<1> QED BY <1>1, <1>3, <1>4

LEMMA SendKeeps ==
  ASSUME TypeInv, SentInOrder, NEW s \in Runtime, NEW k \in Kinds, NEW n, Sends(s, k, n)
  PROVE  /\ SentInOrder'
         /\ CallsApart => CallsApart'
         /\ Lossless /\ NothingLost => NothingLost'
         /\ Lossless /\ NothingLost /\ Framed => Framed'
<1>1. /\ load[s] = k /\ load' = [load EXCEPT ![s] = n] /\ ricSms' = ricSms
      /\ rx' = rx /\ failed' = failed
      /\ \/ k = "name" /\ n = "size"
         \/ k = "size" /\ n = "data"
         \/ k = "data" /\ n = "done" /\ FileSize[s] < Huge
  BY DEF Sends
<1>2. /\ load \in [Runtime -> {"idle", "name", "size", "data", "done"}]
      /\ \A r \in Runtime : r # s => load'[r] = load[r]
      /\ load'[s] = n
  BY <1>1, Types
<1>3. /\ AgentUp' = AgentUp /\ Receiving' = Receiving /\ Doomed' = Doomed
      /\ \A r : Begun(r)' = Begun(r)
  BY <1>1 DEF AgentUp, Receiving, Doomed, Begun
<1>4. \A j \in Kinds, r \in Runtime : Sent(j, r)' <=> Sent(j, r) \/ (j = k /\ r = s)
  BY <1>1, <1>2 DEF Sent, Kinds
<1>5. \A j \in Kinds : Sent(j, s) <=> Rank(j) < Rank(k)
  <2>1. k = "name" \/ k = "size" \/ k = "data"
    BY Ranks
  <2> QED BY <1>1, <2>1, Ranks DEF Sent
<1>6. ~Sent(k, s)
  BY <1>5, Ranks
<1>7. udp \in Seq(Datagrams) /\ InOrder(udp)
  BY Types DEF SentInOrder
<1>8. \A j \in Kinds : <<j, s>> \in Held(udp) => Rank(j) < Rank(k)
  BY <1>5 DEF SentInOrder, Socket
<1>9. /\ udp' \in Seq(Datagrams) /\ InOrder(udp')
      /\ \A j, r : <<j, r>> \in Socket => <<j, r>> \in Socket'
      /\ \A j, r : <<j, r>> \in Socket' => <<j, r>> \in Socket \/ (j = k /\ r = s)
      /\ \A i \in DOMAIN udp : i \in DOMAIN udp' /\ udp'[i] = udp[i]
      /\ \A i \in DOMAIN udp' : i \in DOMAIN udp \/ (i = Len(udp) + 1 /\ udp'[i].sm = s)
  <2>0. PICK p : p = udp'
    OBVIOUS
  <2>1. CASE Sending(udp, k, s, p)
    <3>1. /\ p \in Seq(Datagrams) /\ Len(p) = Len(udp) + 1 /\ InOrder(p)
          /\ \A j, r : <<j, r>> \in Held(p) <=> <<j, r>> \in Held(udp) \/ (j = k /\ r = s)
          /\ \A i \in DOMAIN udp : i \in DOMAIN p /\ p[i] = udp[i]
          /\ \A i \in DOMAIN p : i \in DOMAIN udp \/ i = Len(p)
          /\ Len(p) \in DOMAIN p /\ p[Len(p)].kind = k /\ p[Len(p)].sm = s
      BY <1>7, <1>8, <2>1, AppendOne
    <3> QED BY <2>0, <3>1 DEF Socket
  <2>2. CASE p = udp
    BY <1>7, <2>0, <2>2 DEF Socket
  <2> QED BY <2>0, <2>1, <2>2 DEF Sends
<1>10. SentInOrder'
  <2>1. \A r \in Runtime : load'[r] # "idle" => r \in ricSms'
    BY <1>1, <1>2 DEF SentInOrder, Kinds
  <2>2. \A j \in Kinds, r \in Runtime : <<j, r>> \in Socket' => Sent(j, r)'
    BY <1>4, <1>9 DEF SentInOrder
  <2>3. \A r \in Runtime : <<"data", r>> \in Socket' => FileSize[r] < Huge
    BY <1>1, <1>9 DEF SentInOrder
  <2>4. rx'.name # NoSm => rx'.name \in Runtime /\ Sent("name", rx.name)'
    BY <1>1, <1>4 DEF SentInOrder, Kinds
  <2> QED BY <1>1, <1>9, <2>1, <2>2, <2>3, <2>4 DEF SentInOrder
<1>11. CallsApart => CallsApart'
  <2> SUFFICES ASSUME CallsApart PROVE CallsApart'
    OBVIOUS
  <2>0. /\ Len(udp) \in Nat /\ DOMAIN udp = 1 .. Len(udp)
        /\ \A i \in DOMAIN udp : udp[i].sm \in Runtime /\ load[udp[i].sm] # "idle"
    <3>1. \A i \in DOMAIN udp : /\ udp[i].kind \in Kinds /\ udp[i].sm \in Runtime
                                /\ <<udp[i].kind, udp[i].sm>> \in Socket
      BY <1>7, HeldAt DEF Socket
    <3>2. \A j \in Kinds, r \in Runtime : Sent(j, r) => load[r] # "idle"
      BY DEF Sent
    <3>3. \A i \in DOMAIN udp : Sent(udp[i].kind, udp[i].sm)
      BY <3>1 DEF SentInOrder
    <3> QED BY <3>1, <3>2, <3>3, Types
  <2>1. ASSUME NEW r \in Runtime, NEW i \in Nat, NoMore(r, i) PROVE NoMore(r, i)'
    <3>1. r # s /\ load[r] = "done" /\ NoneFrom(udp, r, i)
      BY <1>1, <2>1 DEF NoMore
    <3>2. NoneFrom(udp', r, i)
      BY <1>9, <3>1 DEF NoneFrom
    <3> QED BY <1>2, <3>1, <3>2 DEF NoMore
  \* Whoever has sent something and is not s has sent all.
  <2>2. ASSUME NEW r \in Runtime, r # s, load[r] # "idle"
        PROVE  load'[r] = "done" /\ NoneFrom(udp', r, Len(udp) + 1)
    <3>1. load[r] = "done"
      BY <1>1, <1>2, <2>2 DEF CallsApart, OneCall, Kinds
    <3>2. NoneFrom(udp', r, Len(udp) + 1)
      <4> SUFFICES ASSUME NEW i \in DOMAIN udp', i >= Len(udp) + 1 PROVE udp'[i].sm # r
        BY DEF NoneFrom
      <4>1. i \notin DOMAIN udp
        BY <2>0
      <4> QED BY <1>9, <2>2, <4>1
    <3> QED BY <1>2, <2>2, <3>1, <3>2
  <2>3. OneCall'
    <3>1. \A r \in Runtime : load'[r] \in Kinds => load[r] \in Kinds
      BY <1>1, <1>2 DEF Kinds
    <3> QED BY <3>1 DEF CallsApart, OneCall
  <2>4. SocketApart'
    <3> SUFFICES ASSUME NEW i \in DOMAIN udp', NEW j \in DOMAIN udp', i < j, udp'[i].sm # udp'[j].sm
                 PROVE  NoMore(udp[i].sm, j)' /\ udp'[i].sm = udp'[i].sm
      BY DEF SocketApart
    <3>1. i \in DOMAIN udp /\ udp'[i] = udp[i]
      <4>1. i # Len(udp) + 1
        BY <1>9, <2>0
      <4> QED BY <1>9, <4>1
    <3>2. CASE j \in DOMAIN udp
      <4>1. NoMore(udp[i].sm, j) /\ udp[i].sm \in Runtime /\ j \in Nat
        BY <1>9, <2>0, <3>1, <3>2 DEF CallsApart, SocketApart
      <4>2. PICK r \in Runtime : r = udp[i].sm
        BY <2>0, <3>1
      <4>3. NoMore(r, j)'
        BY <2>1, <4>1, <4>2
      <4> QED BY <3>1, <4>2, <4>3 DEF NoMore
    <3>3. CASE j \notin DOMAIN udp
      <4>1. j = Len(udp) + 1 /\ udp'[j].sm = s
        BY <1>9, <3>3
      <4>2. PICK r \in Runtime : r = udp[i].sm
        BY <2>0, <3>1
      <4>3. r # s /\ load[r] # "idle"
        BY <2>0, <3>1, <4>1, <4>2
      <4>5. NoneFrom(udp', r, j) /\ load'[r] = "done"
        BY <2>2, <4>1, <4>3
      <4> QED BY <3>1, <4>2, <4>5 DEF NoMore
    <3> QED BY <3>2, <3>3
  <2>5. RestFirst'
    <3> SUFFICES ASSUME NEW r \in Runtime, Begun(r), NEW i \in DOMAIN udp', udp'[i].sm # r
                 PROVE  load'[r] = "done" /\ NoneFrom(udp', r, i)
      BY <1>3 DEF RestFirst, NoMore
    <3>1. CASE i \in DOMAIN udp
      <4>1. NoMore(r, i) /\ i \in Nat
        BY <1>9, <2>0, <3>1 DEF CallsApart, RestFirst
      <4> QED BY <2>1, <4>1 DEF NoMore
    <3>2. CASE i \notin DOMAIN udp
      <4>1. i = Len(udp) + 1 /\ udp'[i].sm = s /\ r # s
        BY <1>9, <3>2
      <4>2. load[r] # "idle"
        <5>1. r \in Sms /\ r # NoSm /\ rx.name = r
          BY Constants DEF Begun
        <5>2. Sent("name", r)
          BY <5>1 DEF SentInOrder
        <5> QED BY <5>2 DEF Sent
      <4> QED BY <2>2, <4>1, <4>2
    <3> QED BY <3>1, <3>2
  <2>6. SizeFits'
    <3> SUFFICES ASSUME NEW r \in Runtime, rx.pc = "data", rx.name = r
                 PROVE  rx.size = FileSize[r] \/ rx.size = Huge \/ NoMore(r, 1)'
      BY <1>1 DEF SizeFits, NoMore
    <3> QED BY <2>1 DEF CallsApart, SizeFits
  <2>7. LoadFits'
    BY <1>1, <1>3 DEF CallsApart, LoadFits
  <2> QED BY <2>3, <2>4, <2>5, <2>6, <2>7 DEF CallsApart
<1>12. NothingLost => rx.pc # "socket"
  BY <1>1 DEF NothingLost
<1>13. ASSUME Lossless, rx.pc \notin {"socket", "exit"}, InStep PROVE InStep'
  <2>2. <<k, s>> \in Socket'
    <3>1. Sending(udp, k, s, udp')
      BY <1>13 DEF Sends
    <3>2. PICK p : p = udp'
      OBVIOUS
    <3>3. <<k, s>> \in Held(p)
      BY <1>7, <1>8, <3>1, <3>2, AppendOne
    <3> QED BY <3>2, <3>3 DEF Socket
  <2>3. ASSUME NEW r \in Runtime, r # s PROVE Placed(r)'
    <3>1. Placed(r)
      BY <1>13 DEF InStep
    <3>2. \A j \in Kinds : (Sent(j, r)' <=> Sent(j, r)) /\ (<<j, r>> \in Socket' <=> <<j, r>> \in Socket)
      BY <1>4, <1>9, <2>3
    <3>3. load'[r] = load[r]
      BY <1>2, <2>3
    <3> QED BY <1>1, <1>3, <3>1, <3>2, <3>3 DEF Placed, Half, Fresh, Over
  <2>4. Placed(s)'
    <3>1. Placed(s)
      BY <1>13 DEF InStep
    <3>2. ~Over(s)
      BY <1>1 DEF Over
    <3>3. CASE Begun(s)
      <4>1. Half(s)
        BY <3>1, <3>3 DEF Placed
      <4>2. ~(Rank(k) < Rank(rx.pc))
        BY <1>6, <4>1 DEF Half
      <4>3. Half(s)'
        BY <1>1, <1>4, <1>9, <2>2, <4>1, <4>2 DEF Half
      <4> QED BY <1>3, <3>3, <4>3 DEF Placed
    <3>4. CASE ~Begun(s)
      <4>1. Fresh(s)
        BY <3>1, <3>2, <3>4 DEF Placed
      <4>2. Fresh(s)'
        BY <1>4, <1>9, <2>2, <4>1 DEF Fresh
      <4> QED BY <1>3, <3>4, <4>2 DEF Placed
    <3> QED BY <3>3, <3>4
  <2>5. \A r \in Runtime : Placed(r)'
    BY <2>3, <2>4
  <2> QED BY <1>1, <1>13, <2>5 DEF InStep
<1>14. Lossless /\ NothingLost => NothingLost'
  BY <1>1, <1>3, <1>12, <1>13 DEF NothingLost, Receiving
<1>15. Lossless /\ NothingLost /\ Framed => Framed'
  BY <1>1, <1>3, <1>12, <1>13 DEF Framed
<1> QED BY <1>10, <1>11, <1>14, <1>15

-----------------------------------------------------------------------------
(***************************************************************************)
(* The agent: the thread begins, ends and loads.                           *)
(***************************************************************************)
LEMMA EndsKeep ==
  ASSUME TypeInv, rx_socket \/ rx_exit
  PROVE  /\ SentInOrder => SentInOrder'
         /\ CallsApart => CallsApart'
         /\ NothingLost => NothingLost'
         /\ NothingLost /\ Framed => Framed'
<1>1. /\ UNCHANGED <<mode, ricSms, load, udp, failed>>
      /\ rx'.name = rx.name /\ rx'.size = rx.size /\ rx'.data = rx.data
      /\ \/ rx.pc = "socket" /\ rx'.pc = "name"
         \/ rx'.pc = "exit"
  BY Types DEF rx_socket, rx_exit, ricVars, RxStates
<1>2. Socket' = Socket /\ AgentUp' = AgentUp /\ \A k, s : Sent(k, s)' = Sent(k, s)
  BY <1>1 DEF Socket, AgentUp, Sent
<1>3. SentInOrder => SentInOrder'
  BY <1>1, <1>2 DEF SentInOrder
<1>4. CallsApart => CallsApart'
  <2> SUFFICES ASSUME CallsApart PROVE CallsApart'
    OBVIOUS
  <2>1. OneCall' /\ SocketApart'
    BY <1>1 DEF CallsApart, OneCall, SocketApart, NoMore
  <2>2. RestFirst' /\ SizeFits' /\ LoadFits'
    BY <1>1 DEF RestFirst, SizeFits, LoadFits, Begun
  <2> QED BY <2>1, <2>2 DEF CallsApart
<1>5. ASSUME NothingLost, rx'.pc # "exit" PROVE InStep'
  <2>0. rx.pc = "socket" /\ rx'.pc = "name"
    BY <1>1, <1>5
  <2>1. \A s \in Runtime : load[s] = "idle"
    BY <1>5, <2>0 DEF NothingLost
  <2>2. \A s \in Runtime : \A k \in Kinds : ~Sent(k, s)
    BY <2>1 DEF Sent
  <2>3. ASSUME NEW s \in Runtime PROVE Placed(s)'
    BY <1>1, <1>2, <2>0, <2>2 DEF Placed, Begun, Fresh
  <2> QED BY <2>0, <2>3 DEF InStep
<1>6. NothingLost => NothingLost'
  BY <1>1, <1>5 DEF NothingLost, Receiving
<1>7. NothingLost /\ Framed => Framed'
  BY <1>1, <1>5 DEF Framed
<1> QED BY <1>3, <1>4, <1>6, <1>7

LEMMA LoadKeeps ==
  ASSUME TypeInv, SentInOrder, load_plugin_ag
  PROVE  /\ SentInOrder'
         /\ CallsApart => CallsApart'
         /\ NothingLost => NothingLost'
         /\ NothingLost /\ Framed => Framed'
<1>1. /\ UNCHANGED <<mode, ricSms, load, udp>>
      /\ rx'.name = rx.name /\ rx'.size = rx.size /\ rx'.data = rx.data
      /\ rx.pc = "load" /\ rx'.pc = "name" /\ AgentUp
  BY Types DEF load_plugin_ag, ricVars, RxStates
<1>2. /\ failed \subseteq failed'
      /\ FramingAsserts \cap failed' \subseteq failed
           \/ ((rx.name # rx.data \/ FileSize[rx.data] # rx.size) /\ failed' = failed \cup {"dlopen"})
  <2>1. \/ (rx.name # rx.data \/ FileSize[rx.data] # rx.size) /\ failed' = failed \cup {"dlopen"}
        \/ failed' = failed \/ failed' = failed \cup {"freed tree"} \/ failed' = failed \cup {"sm_ds_mtx"}
    BY DEF load_plugin_ag, Fail
  <2> QED BY <2>1 DEF FramingAsserts
<1>3. Socket' = Socket /\ \A k, s : Sent(k, s)' = Sent(k, s)
  BY <1>1 DEF Socket, Sent
<1>4. SentInOrder'
  BY <1>1, <1>3 DEF SentInOrder
<1>5. CallsApart => CallsApart'
  <2> SUFFICES ASSUME CallsApart PROVE CallsApart'
    OBVIOUS
  <2>1. OneCall' /\ SocketApart'
    BY <1>1 DEF CallsApart, OneCall, SocketApart, NoMore
  <2>2. RestFirst' /\ SizeFits' /\ LoadFits'
    BY <1>1 DEF RestFirst, SizeFits, LoadFits, Begun
  <2> QED BY <2>1, <2>2 DEF CallsApart
<1>6. NothingLost => InStep
  BY <1>1 DEF NothingLost, Receiving, Doomed
<1>7. NothingLost => InStep'
  <2> SUFFICES ASSUME NothingLost PROVE InStep'
    OBVIOUS
  <2>1. ASSUME NEW s \in Runtime PROVE Placed(s)'
    <3>1. ~Begun(s) /\ ~Begun(s)'
      BY <1>1 DEF Begun
    <3>2. Fresh(s) \/ Over(s)
      BY <1>6, <3>1 DEF InStep, Placed
    <3>3. Fresh(s)' \/ Over(s)'
      BY <1>1, <1>3, <3>2 DEF Fresh, Over
    <3> QED BY <3>1, <3>3 DEF Placed
  <2> QED BY <1>1, <2>1 DEF InStep
<1>8. NothingLost /\ Framed => Framed'
  <2> SUFFICES ASSUME NothingLost, Framed PROVE Framed'
    OBVIOUS
  <2>1. rx.name = rx.data /\ FileSize[rx.data] = rx.size
    BY <1>1, <1>6 DEF InStep
  <2>2. FramingAsserts \cap failed' = {}
    BY <1>2, <2>1 DEF Framed
  <2> QED BY <1>7, <2>2 DEF Framed
<1>9. NothingLost => NothingLost'
  BY <1>1, <1>7 DEF NothingLost
<1> QED BY <1>4, <1>5, <1>8, <1>9

-----------------------------------------------------------------------------
(***************************************************************************)
(* The agent takes a datagram.                                             *)
(***************************************************************************)
\* Datagram d is taken at one of the three places.
AtName(d) ==
  /\ rx.pc = "name" /\ rx'.pc = "size" /\ rx'.size = rx.size
  /\ rx'.name = IF d.kind = "name" THEN d.sm ELSE NoSm
  /\ failed' = IF Length(d) >= 128 THEN failed \cup {"Buffer overflow"} ELSE failed
AtSize(d) ==
  /\ rx.pc = "size" /\ rx'.pc = "data" /\ rx'.name = rx.name
  /\ rx'.size = IF d.kind = "size" THEN FileSize[d.sm] ELSE Huge
  /\ \/ failed' = failed
     \/ d.kind # "size" /\ failed' = failed \cup {"Memory exhausted!"}
AtData(d) ==
  /\ rx.pc = "data" /\ rx'.pc = "load" /\ rx'.name = rx.name /\ rx'.size = rx.size
  /\ rx'.data = IF d.kind = "data" THEN d.sm ELSE NoSm
  /\ failed' = IF Length(d) < rx.size THEN failed \cup {"rc == size"} ELSE failed

Takes(d) ==
  /\ Taking(udp, d, udp') /\ AgentUp
  /\ UNCHANGED <<mode, ricSms, load>>
  /\ AtName(d) \/ AtSize(d) \/ AtData(d)

LEMMA RecvSteps ==
  ASSUME TypeInv, rx_recv
  PROVE  \E d : Takes(d)
<1>1. PICK d : d = Head(udp)
  OBVIOUS
<1>2. Taking(udp, d, udp') /\ AgentUp /\ UNCHANGED <<mode, ricSms, load>>
  BY <1>1 DEF rx_recv, Taking, ricVars
<1>3. PICK name, size, data :
        /\ name = IF d.kind = "name" THEN d.sm ELSE NoSm
        /\ size = IF d.kind = "size" THEN FileSize[d.sm] ELSE Huge
        /\ data = IF d.kind = "data" THEN d.sm ELSE NoSm
  OBVIOUS
<1>4. \/ /\ rx.pc = "name" /\ rx' = [rx EXCEPT !.pc = "size", !.name = name]
         /\ failed' = IF Length(d) >= 128 THEN failed \cup {"Buffer overflow"} ELSE failed
      \/ /\ rx.pc = "size" /\ rx' = [rx EXCEPT !.pc = "data", !.size = size]
         /\ \/ failed' = failed
            \/ d.kind # "size" /\ failed' = failed \cup {"Memory exhausted!"}
      \/ /\ rx.pc = "data" /\ rx' = [rx EXCEPT !.pc = "load", !.data = data]
         /\ failed' = IF Length(d) < rx.size THEN failed \cup {"rc == size"} ELSE failed
  BY <1>1, <1>3 DEF rx_recv, Fail
<1>5. AtName(d) \/ AtSize(d) \/ AtData(d)
  BY <1>3, <1>4, Types DEF AtName, AtSize, AtData, RxStates
<1> QED BY <1>2, <1>5 DEF Takes

(* What is known of the datagram, and of the socket afterwards. *)
LEMMA TakeFacts ==
  ASSUME TypeInv, SentInOrder, NEW d, Takes(d)
  PROVE  /\ d.kind \in Kinds /\ d.sm \in Runtime /\ <<d.kind, d.sm>> \in Socket
         /\ d.sm \in Sms /\ d.sm # NoSm /\ FileSize[d.sm] \in Nat /\ FileSize[d.sm] >= 128
         /\ Sent(d.kind, d.sm)
         /\ 1 \in DOMAIN udp /\ d = udp[1]
         /\ InOrder(udp')
         /\ \A j, r : <<j, r>> \in Socket' <=> <<j, r>> \in Socket /\ ~(j = d.kind /\ r = d.sm)
         /\ \A j \in Kinds : <<j, d.sm>> \in Socket => j = d.kind \/ Rank(d.kind) < Rank(j)
         /\ \A i \in DOMAIN udp' : i \in Nat /\ 1 < i + 1 /\ i + 1 \in DOMAIN udp /\ udp'[i] = udp[i + 1]
         /\ \A k, s : Sent(k, s)' = Sent(k, s)
         /\ failed \subseteq failed'
<1>0. PICK p : p = udp'
  OBVIOUS
<1>1. udp \in Seq(Datagrams) /\ InOrder(udp) /\ Taking(udp, d, p)
  BY <1>0, Types DEF SentInOrder, Takes
<1>2. /\ d.kind \in Kinds /\ d.sm \in Runtime /\ <<d.kind, d.sm>> \in Held(udp)
      /\ 1 \in DOMAIN udp /\ d = udp[1]
      /\ p \in Seq(Datagrams) /\ InOrder(p)
      /\ \A j, r : <<j, r>> \in Held(p) <=> <<j, r>> \in Held(udp) /\ ~(j = d.kind /\ r = d.sm)
      /\ \A j \in Kinds : <<j, d.sm>> \in Held(udp) => j = d.kind \/ Rank(d.kind) < Rank(j)
      /\ \A i \in DOMAIN p : i \in Nat /\ 1 < i + 1 /\ i + 1 \in DOMAIN udp /\ p[i] = udp[i + 1]
  BY <1>1, TakeOne
<1>3. Sent(d.kind, d.sm)
  BY <1>2 DEF SentInOrder, Socket
<1>4. PICK m \in Runtime : m = d.sm
  BY <1>2
<1>5. m \in Sms /\ m # NoSm /\ FileSize[m] \in Nat /\ FileSize[m] >= 128
  BY Constants
<1>6. \A k, s : Sent(k, s)' = Sent(k, s)
  BY DEF Takes, Sent
<1>7. failed \subseteq failed'
  BY DEF Takes, AtName, AtSize, AtData
<1> QED BY <1>0, <1>2, <1>3, <1>4, <1>5, <1>6, <1>7 DEF Socket

(* The lengths. *)
LEMMA Lengths ==
  ASSUME NEW d, d.kind \in Kinds, d.sm \in Runtime
  PROVE  /\ d.kind = "name" => Length(d) = 16
         /\ d.kind = "size" => Length(d) = 4
         /\ d.kind = "data" => Length(d) = FileSize[d.sm]
         /\ Length(d) \in Nat
         /\ 16 < Huge /\ Huge \in Nat
<1>1. 16 < Huge /\ Huge \in Nat
  <2>1. MaxDatagram = 65507
    BY DEF MaxDatagram
  <2> QED BY <2>1, Constants
<1>2. PICK m \in Runtime : m = d.sm
  OBVIOUS
<1>3. FileSize[m] \in Nat
  BY Constants
<1> QED BY <1>1, <1>2, <1>3 DEF Length, Kinds

(* What is received was sent. *)
LEMMA TakeSent ==
  ASSUME TypeInv, SentInOrder, NEW d, Takes(d)
  PROVE  SentInOrder'
<1>1. UNCHANGED <<mode, ricSms, load>>
  BY DEF Takes
<1>2. \A k \in Kinds, s \in Runtime : <<k, s>> \in Socket' => Sent(k, s)'
  BY TakeFacts DEF SentInOrder
<1>3. \A s \in Runtime : <<"data", s>> \in Socket' => FileSize[s] < Huge
  BY TakeFacts DEF SentInOrder
<1>4. rx'.name # NoSm => rx'.name \in Runtime /\ Sent("name", rx.name)'
  <2>1. PICK m : m = rx'.name
    OBVIOUS
  <2>2. m = NoSm \/ m = rx.name \/ (d.kind = "name" /\ m = d.sm)
    BY <2>1 DEF Takes, AtName, AtSize, AtData
  <2>3. m # NoSm => m \in Runtime /\ Sent("name", m)
    BY <2>2, TakeFacts DEF SentInOrder
  <2>4. Sent("name", m) => Sent("name", rx.name)'
    BY <1>1, <2>1 DEF Sent
  <2> QED BY <2>1, <2>3, <2>4
<1> QED BY <1>1, <1>2, <1>3, <1>4, TakeFacts DEF SentInOrder

(* Calls one after the other stay apart: the rest of what is begun comes      *)
(* first, so that a name and a file of one call enclose no foreign size.      *)
LEMMA TakeApart ==
  ASSUME TypeInv, SentInOrder, CallsApart, NEW d, Takes(d)
  PROVE  CallsApart'
<1>0. load' = load /\ AgentUp
  BY DEF Takes
<1>1. \A i \in DOMAIN udp' : i \in Nat /\ 1 < i + 1 /\ i + 1 \in DOMAIN udp /\ udp'[i] = udp[i + 1]
  BY TakeFacts
<1>2. d.kind \in Kinds /\ d.sm \in Runtime /\ 1 \in DOMAIN udp /\ d = udp[1]
  BY TakeFacts
\* What did not follow from i + 1 on does not follow from i on.
<1>3. ASSUME NEW s \in Runtime, NEW i \in Nat, NoMore(s, i + 1)
      PROVE  load'[s] = "done" /\ NoneFrom(udp', s, i)
  <2>1. load[s] = "done" /\ NoneFrom(udp, s, i + 1)
    BY <1>3 DEF NoMore
  <2>2. NoneFrom(udp', s, i)
    <3> SUFFICES ASSUME NEW k \in DOMAIN udp', k >= i PROVE udp'[k].sm # s
      BY DEF NoneFrom
    <3>1. k + 1 \in DOMAIN udp /\ k + 1 >= i + 1 /\ udp'[k] = udp[k + 1]
      BY <1>1
    <3> QED BY <2>1, <3>1 DEF NoneFrom
  <2> QED BY <1>0, <2>1, <2>2
<1>4. ASSUME NEW s \in Runtime, NoMore(s, 1)
      PROVE  load'[s] = "done" /\ NoneFrom(udp', s, 1)
  <2>1. load[s] = "done" /\ NoneFrom(udp, s, 1)
    BY <1>4 DEF NoMore
  <2>2. NoneFrom(udp', s, 1)
    <3> SUFFICES ASSUME NEW k \in DOMAIN udp', k >= 1 PROVE udp'[k].sm # s
      BY DEF NoneFrom
    <3>1. k + 1 \in DOMAIN udp /\ k + 1 >= 1 /\ udp'[k] = udp[k + 1]
      BY <1>1
    <3> QED BY <2>1, <3>1 DEF NoneFrom
  <2> QED BY <1>0, <2>1, <2>2
<1>5. OneCall'
  BY <1>0 DEF CallsApart, OneCall
<1>6. SocketApart'
  <2> SUFFICES ASSUME NEW i \in DOMAIN udp', NEW j \in DOMAIN udp', i < j, udp'[i].sm # udp'[j].sm
               PROVE  load'[udp'[i].sm] = "done" /\ NoneFrom(udp', udp'[i].sm, j)
    BY DEF SocketApart, NoMore
  <2>1. /\ i + 1 \in DOMAIN udp /\ j + 1 \in DOMAIN udp /\ i + 1 < j + 1 /\ j \in Nat
        /\ udp'[i] = udp[i + 1] /\ udp'[j] = udp[j + 1]
    BY <1>1
  <2>2. PICK r \in Runtime : r = udp'[i].sm
    BY <2>1, Types, HeldAt
  <2>3. NoMore(r, j + 1)
    BY <2>1, <2>2 DEF CallsApart, SocketApart
  <2> QED BY <1>3, <2>1, <2>2, <2>3
<1>7. RestFirst'
  <2> SUFFICES ASSUME NEW s \in Runtime, Begun(s)', NEW i \in DOMAIN udp', udp'[i].sm # s
               PROVE  load'[s] = "done" /\ NoneFrom(udp', s, i)
    BY DEF RestFirst, NoMore
  <2>1. i \in Nat /\ 1 < i + 1 /\ i + 1 \in DOMAIN udp /\ udp[i + 1].sm # s
    BY <1>1
  <2>2. s # NoSm
    BY Constants
  <2>3. CASE AtName(d)
    <3>1. d.sm = s
      BY <2>2, <2>3 DEF AtName, Begun
    <3>2. NoMore(s, i + 1)
      BY <1>2, <2>1, <3>1 DEF CallsApart, SocketApart
    <3> QED BY <1>3, <2>1, <3>2
  <2>4. CASE AtSize(d)
    <3>1. Begun(s)
      BY <2>4 DEF AtSize, Begun
    <3>2. NoMore(s, i + 1)
      BY <2>1, <3>1 DEF CallsApart, RestFirst
    <3> QED BY <1>3, <2>1, <3>2
  <2>5. CASE AtData(d)
    BY <2>5 DEF AtData, Begun
  <2> QED BY <2>3, <2>4, <2>5 DEF Takes
<1>8. SizeFits'
  <2> SUFFICES ASSUME NEW s \in Runtime, rx'.pc = "data", rx'.name = s
               PROVE  \/ rx'.size = FileSize[s] \/ rx'.size = Huge
                      \/ load'[s] = "done" /\ NoneFrom(udp', s, 1)
    BY DEF SizeFits, NoMore
  <2>1. AtSize(d)
    BY DEF Takes, AtName, AtSize, AtData
  <2>2. Begun(s)
    BY <2>1 DEF AtSize, Begun
  <2>3. CASE d.kind # "size" \/ d.sm = s
    BY <2>1, <2>3 DEF AtSize
  <2>4. CASE d.sm # s
    <3>1. NoMore(s, 1)
      BY <1>2, <2>2, <2>4 DEF CallsApart, RestFirst
    <3> QED BY <1>4, <3>1
  <2> QED BY <2>3, <2>4
<1>9. LoadFits'
  <2> SUFFICES ASSUME AgentUp', rx'.pc = "load", rx'.name = rx'.data, rx'.data # NoSm
               PROVE  rx'.size = FileSize[rx'.data]
    BY DEF LoadFits
  <2>1. AtData(d)
    BY DEF Takes, AtName, AtSize
  <2>2. d.kind = "data" /\ rx'.data = d.sm /\ rx.name = d.sm /\ rx'.size = rx.size /\ rx.pc = "data"
    BY <2>1 DEF AtData
  <2>3. ~(Length(d) < rx.size)
    BY <2>1 DEF AtData, AgentUp, RicAsserts
  <2>4. rx.size # Huge
    <3>1. Length(d) < Huge
      BY <1>2, <2>2, Lengths, TakeFacts DEF SentInOrder
    <3> QED BY <2>3, <3>1
  <2>5. ~NoMore(d.sm, 1)
    BY <1>2 DEF NoMore, NoneFrom
  <2>6. rx.size = FileSize[d.sm]
    BY <1>2, <2>2, <2>4, <2>5 DEF CallsApart, SizeFits
  <2> QED BY <2>2, <2>6
<1> QED BY <1>5, <1>6, <1>7, <1>8, <1>9 DEF CallsApart

(* Without losses nothing is first in the socket but a name or what belongs   *)
(* to the name that was taken.                                                *)
LEMMA FirstIsNext ==
  ASSUME TypeInv, SentInOrder, InStep, NEW d, Takes(d)
  PROVE  /\ ~Begun(d.sm) => d.kind = "name"
         /\ Begun(d.sm) => Half(d.sm)
<1>1. d.kind \in Kinds /\ d.sm \in Runtime /\ <<d.kind, d.sm>> \in Socket /\ Sent(d.kind, d.sm)
  BY TakeFacts
<1>2. Placed(d.sm)
  BY <1>1 DEF InStep
<1>3. ASSUME ~Begun(d.sm) PROVE d.kind = "name"
  <2>1. Fresh(d.sm)
    BY <1>1, <1>2, <1>3 DEF Placed, Over
  <2>2. Sent("name", d.sm)
    BY <1>1 DEF Sent
  <2>3. "name" \in Kinds /\ <<"name", d.sm>> \in Socket
    BY <2>1, <2>2 DEF Fresh, Kinds
  <2>4. "name" = d.kind \/ Rank(d.kind) < Rank("name")
    BY <2>3, TakeFacts
  <2>5. ~(Rank(d.kind) < Rank("name"))
    BY <1>1, Ranks
  <2> QED BY <2>4, <2>5
<1> QED BY <1>2, <1>3 DEF Placed

(* A thread that survives has taken what it waited for. *)
LEMMA Taken ==
  ASSUME TypeInv, SentInOrder, NothingLost, NEW d, Takes(d), Receiving'
  PROVE  /\ Receiving /\ InStep
         /\ d.kind = rx.pc /\ (rx.pc # "name" => Begun(d.sm) /\ rx.name = d.sm)
<1>1. d.kind \in Kinds /\ d.sm \in Runtime /\ <<d.kind, d.sm>> \in Socket
  BY TakeFacts
<1>2. AgentUp /\ AgentUp' /\ rx.pc \in {"name", "size", "data"}
  BY DEF Takes, AtName, AtSize, AtData, Receiving
<1>3. ASSUME rx.pc = "data" PROVE ~(Length(d) < rx.size)
  <2>1. AtData(d)
    BY <1>3 DEF Takes, AtName, AtSize
  <2> QED BY <1>2, <2>1 DEF AtData, AgentUp, RicAsserts
<1>4. Length(d) < Huge
  BY <1>1, Lengths DEF SentInOrder, Kinds
<1>5. Receiving
  BY <1>2, <1>3, <1>4 DEF Receiving, Doomed
<1>6. InStep
  BY <1>5 DEF NothingLost
<1>7. CASE rx.pc = "name"
  <2>1. ~Begun(d.sm)
    BY <1>7 DEF Begun
  <2> QED BY <1>5, <1>6, <1>7, <2>1, FirstIsNext
<1>8. CASE rx.pc = "size"
  <2>1. d.kind = "size"
    BY <1>8 DEF Takes, AtName, AtSize, AtData, Receiving, Doomed
  <2>2. Begun(d.sm)
    BY <1>6, <2>1, FirstIsNext
  <2> QED BY <1>5, <1>6, <1>8, <2>1, <2>2 DEF Begun
<1>9. CASE rx.pc = "data"
  <2>1. PICK m \in Runtime : m = rx.name
    BY <1>6, <1>9 DEF InStep
  <2>2. rx.size \in Nat /\ rx.size >= 128
    <3>1. FileSize[m] \in Nat /\ FileSize[m] >= 128
      BY Constants
    <3> QED BY <1>6, <1>9, <2>1, <3>1 DEF InStep
  <2>3. d.kind = "data"
    BY <1>1, <1>3, <1>9, <2>2, Lengths DEF Kinds
  <2>4. Begun(d.sm)
    BY <1>6, <2>3, FirstIsNext
  <2> QED BY <1>5, <1>6, <1>9, <2>3, <2>4 DEF Begun
<1> QED BY <1>2, <1>7, <1>8, <1>9

(* Taking what is next keeps the thread in step. *)
LEMMA TakeInStep ==
  ASSUME TypeInv, SentInOrder, InStep, NEW d, Takes(d),
         d.kind = rx.pc, rx.pc # "name" => rx.name = d.sm
  PROVE  InStep'
<1>0. load' = load
  BY DEF Takes
<1>1. /\ InStep /\ d.kind = rx.pc
      /\ rx.pc # "name" => Begun(d.sm) /\ rx.name = d.sm
  BY DEF Takes, AtName, AtSize, AtData, Begun
<1>2. /\ d.kind \in Kinds /\ d.sm \in Runtime /\ <<d.kind, d.sm>> \in Socket /\ Sent(d.kind, d.sm)
      /\ \A j, r : <<j, r>> \in Socket' <=> <<j, r>> \in Socket /\ ~(j = d.kind /\ r = d.sm)
      /\ \A k, s : Sent(k, s)' = Sent(k, s)
      /\ d.sm # NoSm
  BY TakeFacts
<1>3. rx'.name = d.sm
  BY <1>1 DEF Takes, AtName, AtSize, AtData
<1>4. ASSUME NEW r \in Runtime, r # d.sm PROVE Placed(r)'
  <2>1. ~Begun(r) /\ ~Begun(r)'
    BY <1>1, <1>3, <1>4 DEF Begun
  <2>2. Fresh(r) \/ Over(r)
    BY <1>1, <2>1 DEF InStep, Placed
  <2>3. \A j : <<j, r>> \in Socket' <=> <<j, r>> \in Socket
    BY <1>2, <1>4
  <2>4. Fresh(r)' \/ Over(r)'
    BY <1>0, <1>2, <2>2, <2>3 DEF Fresh, Over
  <2> QED BY <2>1, <2>4 DEF Placed
<1>5. Placed(d.sm) /\ ~Over(d.sm)
  BY <1>1, <1>2 DEF InStep, Over
<1>6. PICK s \in Runtime : s = d.sm
  BY <1>2
<1>7. \A j : <<j, s>> \in Socket' <=> <<j, s>> \in Socket /\ j # d.kind
  BY <1>2, <1>6
<1>8. Placed(s)'
  <2>1. CASE rx.pc = "name"
    <3>1. rx'.pc = "size" /\ Begun(s)'
      BY <1>3, <1>6, <2>1 DEF Takes, AtName, AtSize, AtData, Begun
    <3>2. Fresh(s)
      BY <1>5, <1>6, <2>1 DEF Placed, Begun
    <3>3. Half(s)'
      BY <1>1, <1>2, <1>6, <1>7, <2>1, <3>1, <3>2, Ranks DEF Fresh, Half, Kinds
    <3> QED BY <3>1, <3>3 DEF Placed
  <2>2. CASE rx.pc = "size"
    <3>1. rx'.pc = "data" /\ Begun(s)'
      BY <1>3, <1>6, <2>2 DEF Takes, AtName, AtSize, AtData, Begun
    <3>2. Half(s)
      BY <1>1, <1>5, <1>6, <2>2 DEF Placed
    <3>3. Half(s)'
      BY <1>1, <1>2, <1>6, <1>7, <2>2, <3>1, <3>2, Ranks DEF Half, Kinds
    <3> QED BY <3>1, <3>3 DEF Placed
  <2>3. CASE rx.pc = "data"
    <3>1. ~Begun(s)'
      BY <2>3 DEF Takes, AtName, AtSize, AtData, Begun
    <3>2. Half(s)
      BY <1>1, <1>5, <1>6, <2>3 DEF Placed
    <3>3. load[s] = "done"
      BY <1>1, <1>2, <1>6, <2>3 DEF Sent
    <3>4. Over(s)'
      BY <1>0, <1>1, <1>7, <2>3, <3>2, <3>3, Ranks DEF Half, Over, Kinds
    <3> QED BY <3>1, <3>4 DEF Placed
  <2> QED BY <2>1, <2>2, <2>3 DEF Takes, AtName, AtSize, AtData
<1>9. \A r \in Runtime : Placed(r)'
  BY <1>4, <1>6, <1>8
<1>10. rx'.pc \in {"data", "load"} => rx'.size = FileSize[rx'.name]
  BY <1>1, <1>3 DEF Takes, AtName, AtSize, AtData, InStep
<1>11. rx'.pc = "load" => rx'.name = rx'.data
  BY <1>1, <1>3 DEF Takes, AtName, AtSize, AtData
<1> QED BY <1>2, <1>3, <1>9, <1>10, <1>11 DEF InStep

LEMMA TakeNothingLost ==
  ASSUME TypeInv, SentInOrder, NothingLost, NEW d, Takes(d)
  PROVE  NothingLost'
<1>1. rx'.pc # "socket"
  BY DEF Takes, AtName, AtSize, AtData
<1>2. ASSUME Receiving' PROVE InStep'
  BY <1>2, Taken, TakeInStep
<1> QED BY <1>1, <1>2 DEF NothingLost

(* Without losses and one call after the other the first is the next.         *)
LEMMA TakeFramed ==
  ASSUME TypeInv, SentInOrder, CallsApart, NothingLost, Framed, NEW d, Takes(d)
  PROVE  Framed'
<1>1. d.kind \in Kinds /\ d.sm \in Runtime /\ <<d.kind, d.sm>> \in Socket /\ 1 \in DOMAIN udp /\ d = udp[1]
  BY TakeFacts
<1>2. AgentUp /\ rx.pc \in {"name", "size", "data"}
  BY DEF Takes, AtName, AtSize, AtData
<1>3. InStep
  BY <1>2 DEF Framed
<1>4. rx.pc \in {"size", "data"} => rx.name \in Runtime
  BY <1>3 DEF InStep
<1>5. ASSUME rx.pc \in {"size", "data"} PROVE d.sm = rx.name
  <2>1. PICK s \in Runtime : s = rx.name
    BY <1>4, <1>5
  <2>2. Begun(s) /\ Half(s)
    BY <1>3, <1>5, <2>1 DEF InStep, Placed, Begun
  <2>3. ASSUME d.sm # s PROVE FALSE
    <3>1. NoMore(s, 1)
      BY <1>1, <2>2, <2>3 DEF CallsApart, RestFirst
    <3>2. <<rx.pc, s>> \in Socket
      <4>1. Sent(rx.pc, s)
        BY <1>5, <3>1 DEF NoMore, Sent
      <4>2. rx.pc \in Kinds /\ ~(Rank(rx.pc) < Rank(rx.pc))
        BY <1>5, Ranks DEF Kinds
      <4> QED BY <2>2, <4>1, <4>2 DEF Half
    <3>3. PICK i \in DOMAIN udp : udp[i].sm = s
      BY <3>2 DEF Socket, Held
    <3>4. i >= 1
      BY Types
    <3> QED BY <3>1, <3>3, <3>4 DEF NoMore, NoneFrom
  <2> QED BY <2>1, <2>3
<1>6. d.kind = rx.pc
  <2>1. CASE rx.pc = "name"
    <3>1. ~Begun(d.sm)
      BY <2>1 DEF Begun
    <3> QED BY <1>3, <2>1, <3>1, FirstIsNext
  <2>2. CASE rx.pc \in {"size", "data"}
    <3>1. PICK s \in Runtime : s = rx.name
      BY <1>4, <2>2
    <3>2. Half(s) /\ d.sm = s
      BY <1>3, <1>5, <2>2, <3>1 DEF InStep, Placed, Begun
    <3>3. ~(Rank(d.kind) < Rank(rx.pc))
      BY <1>1, <3>2 DEF Half
    <3>4. CASE rx.pc = "data"
      BY <1>1, <3>3, <3>4, Ranks
    <3>5. CASE rx.pc = "size"
      <4>1. d.kind # "name"
        BY <3>3, <3>5, Ranks
      <4>2. Sent("size", s)
        BY <1>1, <3>2, <4>1, TakeFacts DEF Sent
      <4>3. "size" \in Kinds /\ <<"size", s>> \in Socket
        BY <3>2, <3>5, <4>2, Ranks DEF Half, Kinds
      <4>4. "size" = d.kind \/ Rank(d.kind) < Rank("size")
        BY <3>2, <4>3, TakeFacts
      <4> QED BY <3>3, <3>5, <4>4
    <3> QED BY <2>2, <3>4, <3>5
  <2> QED BY <1>2, <2>1, <2>2
<1>7. InStep'
  BY <1>2, <1>3, <1>5, <1>6, TakeInStep
<1>8. failed' = failed
  <2>1. CASE rx.pc = "name"
    <3>1. Length(d) = 16
      BY <1>1, <1>6, <2>1, Lengths
    <3> QED BY <2>1, <3>1 DEF Takes, AtName, AtSize, AtData
  <2>2. CASE rx.pc = "size"
    BY <1>6, <2>2 DEF Takes, AtName, AtSize, AtData
  <2>3. CASE rx.pc = "data"
    <3>1. PICK l \in Nat : l = Length(d) /\ l = rx.size
      BY <1>1, <1>3, <1>5, <1>6, <2>3, Lengths DEF InStep
    <3>2. ~(Length(d) < rx.size)
      BY <3>1
    <3> QED BY <2>3, <3>2 DEF Takes, AtName, AtSize, AtData
  <2> QED BY <1>2, <2>1, <2>2, <2>3
<1> QED BY <1>7, <1>8 DEF Framed

-----------------------------------------------------------------------------
(***************************************************************************)
(* The theorems.                                                           *)
(***************************************************************************)
LEMMA SocketInit == Init => SocketInv
<1> SUFFICES ASSUME Init PROVE SocketInv
  OBVIOUS
<1>1. TypeInv
  BY TypeInit
<1>2. /\ udp = << >> /\ rx.pc = "socket" /\ rx.name = NoSm /\ failed = {}
      /\ \A s \in Runtime : load[s] = "idle"
  BY DEF Init
<1>3. DOMAIN udp = {} /\ Socket = {} /\ \A k, s : s \in Runtime => ~Sent(k, s)
  <2>1. DOMAIN udp = {}
    BY <1>2
  <2> QED BY <1>2, <2>1 DEF Socket, Held, Sent
<1>4. SentInOrder
  BY <1>2, <1>3 DEF SentInOrder, InOrder
<1>5. CallsApart
  BY <1>2, <1>3 DEF CallsApart, OneCall, SocketApart, RestFirst, SizeFits, LoadFits, Begun, Kinds
<1>6. InStep
  BY <1>2, <1>3 DEF InStep, Placed, Begun, Fresh
<1> QED BY <1>1, <1>2, <1>4, <1>5, <1>6 DEF SocketInv, NothingLost, Framed

LEMMA SocketNext == SocketInv /\ [Next]_vars => SocketInv'
<1> SUFFICES ASSUME SocketInv, [Next]_vars PROVE SocketInv'
  OBVIOUS
<1>0. TypeInv' /\ TypeInv /\ SentInOrder
  BY TypeNext DEF SocketInv
<1>1. Serial' = Serial /\ Lossless' = Lossless
  <2>1. mode' = mode
    BY DEF Next, EventLoop, RxThread, vars, ricVars, load_plugin_ric, tx_plugin_ric, report_service,
           handle_indication, handle_subscription, setup_size, setup_step, setup_end,
           indication_event, rx_socket, rx_recv, rx_exit, load_plugin_ag, free_plugin_ag
  <2> QED BY <2>1 DEF Serial, Lossless
<1>2. SUFFICES /\ SentInOrder'
               /\ Serial /\ CallsApart => CallsApart'
               /\ Lossless /\ NothingLost => NothingLost'
               /\ Serial /\ Lossless /\ CallsApart /\ NothingLost /\ Framed => Framed'
  BY <1>0, <1>1 DEF SocketInv
<1>3. CASE Quiet
  BY <1>0, <1>3, QuietKeeps
<1>4. ASSUME NEW s \in Runtime, load_plugin_ric(s)
      PROVE  /\ SentInOrder'
             /\ Serial /\ CallsApart => CallsApart'
             /\ Lossless /\ NothingLost => NothingLost'
             /\ Serial /\ Lossless /\ CallsApart /\ NothingLost /\ Framed => Framed'
  BY <1>0, <1>4, BeginKeeps
<1>5. ASSUME NEW s \in Runtime, tx_plugin_ric(s)
      PROVE  /\ SentInOrder'
             /\ Serial /\ CallsApart => CallsApart'
             /\ Lossless /\ NothingLost => NothingLost'
             /\ Serial /\ Lossless /\ CallsApart /\ NothingLost /\ Framed => Framed'
  <2>1. CASE Quiet
    BY <1>3, <2>1
  <2>2. CASE ~Quiet
    <3>1. PICK k \in Kinds : \E n : Sends(s, k, n)
      BY <1>0, <1>5, <2>2, TxSteps
    <3>2. PICK n : Sends(s, k, n)
      BY <3>1
    <3> QED BY <1>0, <3>2, SendKeeps
  <2> QED BY <2>1, <2>2
<1>6. CASE rx_socket \/ rx_exit
  BY <1>0, <1>6, EndsKeep
<1>7. CASE load_plugin_ag
  BY <1>0, <1>7, LoadKeeps
<1>8. CASE rx_recv
  <2>1. PICK d : Takes(d)
    BY <1>0, <1>8, RecvSteps
  <2> QED BY <1>0, <2>1, TakeSent, TakeApart, TakeNothingLost, TakeFramed
<1>9. CASE UNCHANGED vars
  <2>1. Quiet
    BY <1>9 DEF Quiet, vars, ricVars, rxVars
  <2> QED BY <1>3, <2>1
<1> QED BY <1>3, <1>4, <1>5, <1>6, <1>7, <1>8, <1>9, QuietSteps DEF Next, RxThread

(* The threads of load_sm_near_ric and rx_plugin_agent keep their state well  *)
(* formed, and for calls one after the other without loss none of the         *)
(* asserts on a datagram's length in rx_plugin_agent, nor dlopen in           *)
(* load_plugin_ag, ever fails, for any service models of any size.            *)
THEOREM PluginsFramed == Spec => []PluginInvariant
<1>1. SocketInv => PluginInvariant
  <2> SUFFICES ASSUME SocketInv PROVE PluginInvariant
    OBVIOUS
  <2>1. PluginTypeOK
    BY DEF SocketInv, TypeInv
  <2>2. Serial /\ Lossless => FramingAsserts \cap failed = {}
    BY DEF SocketInv, Framed
  <2>3. FramingHolds
    BY <2>2 DEF FramingHolds, Serial, Lossless, FramingAsserts
  <2> QED BY <2>1, <2>3 DEF PluginInvariant
<1> QED BY <1>1, SocketInit, SocketNext, PTL DEF Spec

(* A load adds what LoadsWhatWasSent says of it, if calls come one after the  *)
(* other or nothing is lost.                                                  *)
LEMMA LoadsNext ==
  ASSUME SocketInv, LoadsWhatWasSent, [Next]_vars, Serial \/ Lossless
  PROVE  LoadsWhatWasSent'
<1>1. CASE load_plugin_ag
  <2>1. /\ ricSms' = ricSms /\ rx.pc = "load" /\ AgentUp
        /\ \/ loads' = loads
           \/ /\ rx.name = rx.data /\ rx.name # NoSm
              /\ loads' = loads \cup {[name |-> rx.name, data |-> rx.data, size |-> rx.size]}
    BY <1>1 DEF load_plugin_ag, ricVars
  <2>2. ASSUME rx.name = rx.data, rx.name # NoSm
        PROVE  rx.size = FileSize[rx.data] /\ rx.data \in ricSms
    <3>1. rx.size = FileSize[rx.data]
      <4>1. CASE Serial
        BY <2>1, <2>2, <4>1 DEF SocketInv, CallsApart, LoadFits
      <4>2. CASE Lossless
        BY <2>1, <2>2, <4>2 DEF SocketInv, NothingLost, Receiving, Doomed, InStep
      <4> QED BY <4>1, <4>2
    <3>2. rx.name \in Runtime /\ Sent("name", rx.name)
      BY <2>2 DEF SocketInv, SentInOrder
    <3>3. load[rx.name] # "idle"
      BY <3>2 DEF Sent
    <3> QED BY <2>2, <3>1, <3>2, <3>3 DEF SocketInv, SentInOrder
  <2>3. CASE loads' = loads
    BY <2>1, <2>3 DEF LoadsWhatWasSent
  <2>4. CASE /\ rx.name = rx.data /\ rx.name # NoSm
             /\ loads' = loads \cup {[name |-> rx.name, data |-> rx.data, size |-> rx.size]}
    <3>1. PICK n, z : n = rx.name /\ n = rx.data /\ z = rx.size /\ z = FileSize[n] /\ n \in ricSms
      BY <2>2, <2>4
    <3>2. loads' = loads \cup {[name |-> n, data |-> n, size |-> z]}
      BY <2>4, <3>1
    <3> QED BY <2>1, <3>1, <3>2 DEF LoadsWhatWasSent
  <2> QED BY <2>1, <2>3, <2>4
<1>2. CASE ~load_plugin_ag
  <2>1. loads' = loads
    BY <1>2 DEF Next, EventLoop, RxThread, vars, rxVars, load_plugin_ric, tx_plugin_ric, report_service,
           handle_indication, handle_subscription, setup_size, setup_step, setup_end,
           indication_event, rx_socket, rx_recv, rx_exit, free_plugin_ag
  <2>2. ricSms \subseteq ricSms'
    BY <1>2 DEF Next, EventLoop, RxThread, vars, ricVars, load_plugin_ric, tx_plugin_ric, report_service,
           handle_indication, handle_subscription, setup_size, setup_step, setup_end,
           indication_event, rx_socket, rx_recv, rx_exit, free_plugin_ag
  <2> QED BY <2>1, <2>2 DEF LoadsWhatWasSent
<1> QED BY <1>1, <1>2

(* What the agent loads is a complete file under its own name that the RIC    *)
(* has loaded before, for any service models of any size: datagrams may be    *)
(* lost if load_sm_near_ric is called by one thread, or calls may mix if      *)
(* nothing is lost.                                                           *)
THEOREM LoadsAreWhole ==
  ASSUME \A m \in Modes : m.loss => m.sequential
  PROVE  Spec => []LoadsWhatWasSent
<1>1. Init => SocketInv /\ LoadsWhatWasSent
  BY SocketInit DEF Init, LoadsWhatWasSent
<1>2. SocketInv => Serial \/ Lossless
  <2>1. SocketInv => mode \in Modes
    BY DEF SocketInv, TypeInv
  <2> QED BY <2>1, Zenon DEF Serial, Lossless
<1>3. SocketInv /\ LoadsWhatWasSent /\ [Next]_vars => SocketInv' /\ LoadsWhatWasSent'
  BY <1>2, SocketNext, LoadsNext
<1> QED BY <1>1, <1>3, PTL DEF Spec

=============================================================================
