------------------------------- MODULE NrPdcp -------------------------------
(***************************************************************************)
(* Two NR PDCP entities of one signalling radio bearer                     *)
(* (nr_pdcp_entity.c): the one that sends numbers SDUs with tx_next, the   *)
(* one that receives infers the COUNT from the truncated sequence number,  *)
(* drops duplicates, puts SDUs back in order and gives up on a gap when    *)
(* t-Reordering expires.                                                   *)
(*                                                                         *)
(* Below them PDUs are lost, duplicated, reordered and damaged. An SDU is  *)
(* identified by the COUNT it was sent with; ciphering and integrity       *)
(* protection are abstracted to whether the receiver undoes what the       *)
(* sender did. The byte counters and rx_size, which nothing reads, are     *)
(* left out.                                                               *)
(***************************************************************************)
EXTENDS Integers, Sequences, FiniteSets

CONSTANTS SnSize,       \* bits of a sequence number (12 or 18)
          CountBits,    \* bits of a COUNT (32)
          IntBits,      \* bits of t_reordering_start, an int
          TReorderings, \* the values of t_reordering in ms, -1 for infinity
          StartTime,    \* t_current when the first PDU can arrive
          MaxCount,     \* bound: SDUs sent
          MaxTime,      \* bound: ms
          MaxRx,        \* bound: PDUs received
          Damage,       \* whether PDUs arrive damaged
          Activates     \* whether security is activated while PDUs are sent

ASSUME PdcpAssumption ==
    /\ SnSize \in Nat \ {0} /\ CountBits \in Nat /\ SnSize < CountBits
    /\ IntBits \in Nat \ {0} /\ TReorderings \subseteq Nat \cup {-1}
    /\ StartTime \in Nat /\ MaxTime \in Nat /\ MaxRx \in Nat
    /\ MaxCount \in Nat /\ MaxCount < 2 ^ CountBits
    /\ Damage \in BOOLEAN /\ Activates \in BOOLEAN

SnSpace == 2 ^ SnSize
Window == 2 ^ (SnSize - 1)      \* window_size
CountSpace == 2 ^ CountBits

VARIABLES tx_next, txSecure,
          net,                  \* PDUs the lower layers may still hand over
          rx_next, rx_deliv, rx_reord, rx_list, rxSecure,
          t_reordering,         \* configured, from new_nr_pdcp_entity on
          t_current, t_reordering_start,
          rxpdu_pkts, rxpdu_dd_pkts, txsdu_pkts,   \* the receiver's stats
          delivered             \* history: what deliver_sdu was called with

txVars == <<tx_next, txSecure>>
rxVars == <<rx_next, rx_deliv, rx_reord, rx_list>>
timeVars == <<t_current, t_reordering_start>>
statVars == <<rxpdu_pkts, rxpdu_dd_pkts, txsdu_pkts>>
vars == <<txVars, net, rxVars, rxSecure, t_reordering, timeVars, statVars, delivered>>

Pdus == [sn : 0 .. SnSpace - 1, sdu : Nat, secure : BOOLEAN, damaged : BOOLEAN]
-----------------------------------------------------------------------------
Init ==
    /\ tx_next = 0 /\ txSecure = FALSE /\ net = {}
    /\ rx_next = 0 /\ rx_deliv = 0 /\ rx_reord = 0 /\ rx_list = <<>>
    /\ rxSecure = FALSE /\ t_reordering \in TReorderings
    /\ t_current = StartTime /\ t_reordering_start = 0
    /\ rxpdu_pkts = 0 /\ rxpdu_dd_pkts = 0 /\ txsdu_pkts = 0
    /\ delivered = <<>>

\* nr_pdcp_entity_recv_sdu
recv_sdu ==
    /\ tx_next < MaxCount
    /\ net' = net \cup {[sn |-> tx_next % SnSpace, sdu |-> tx_next,
                         secure |-> txSecure, damaged |-> d] : d \in {FALSE, Damage}}
    /\ tx_next' = (tx_next + 1) % CountSpace
    /\ UNCHANGED <<txSecure, rxVars, rxSecure, t_reordering, timeVars, statVars, delivered>>

\* nr_pdcp_entity_set_security, called on each side at a moment of its own
set_security ==
    /\ Activates
    /\ \/ ~txSecure /\ txSecure' = TRUE /\ UNCHANGED rxSecure
       \/ ~rxSecure /\ rxSecure' = TRUE /\ UNCHANGED txSecure
    /\ UNCHANGED <<tx_next, net, rxVars, t_reordering, timeVars, statVars, delivered>>
-----------------------------------------------------------------------------
\* Mutant: a wrapped sequence number is not placed in the next HFN.
RcvdCountNoNextHfn(sn) ==
    LET sn0 == rx_deliv % SnSpace
        hfn == rx_deliv \div SnSpace
    IN  ((IF sn >= sn0 + Window THEN hfn - 1 ELSE hfn) * SnSpace + sn) % CountSpace

\* The COUNT inferred from a sequence number, from where the delivery stands.
RcvdCount(sn) ==
    LET sn0 == rx_deliv % SnSpace
        hfn == rx_deliv \div SnSpace
        rcvdHfn == IF sn < sn0 - Window THEN hfn + 1
                   ELSE IF sn >= sn0 + Window THEN hfn - 1 ELSE hfn
    IN  (rcvdHfn * SnSpace + sn) % CountSpace

\* Mutant: the new SDU goes to the end of the list.
list_append(list, s) == Append(list, s)

\* nr_pdcp_sdu_list_add: before the first SDU with a greater COUNT.
nr_pdcp_sdu_list_add(list, s) ==
    LET before == {i \in DOMAIN list : \A j \in 1 .. i : s.count >= list[j].count}
        n == Cardinality(before)
    IN  SubSeq(list, 1, n) \o <<s>> \o SubSeq(list, n + 1, Len(list))

nr_pdcp_sdu_in_list(list, count) == \E i \in DOMAIN list : list[i].count = count

\* How many SDUs at the head of the list have the COUNTs from, from + 1, ...
RunLength(list, from) ==
    Cardinality({i \in DOMAIN list : \A j \in 1 .. i : list[j].count = from + j - 1})

Drop(list, n) == SubSeq(list, n + 1, Len(list))

\* Assigning a 64-bit time to an int.
ToInt(x) == ((x + 2 ^ (IntBits - 1)) % 2 ^ IntBits) - 2 ^ (IntBits - 1)

\* The end of recv_pdu: t-Reordering is stopped when the gap it was started
\* for is closed, and started when there is a gap and it is not running.
UpdateTimer(deliv, nxt) ==
    LET stopped == IF deliv >= rx_reord THEN 0 ELSE t_reordering_start
    IN  IF stopped = 0 /\ deliv < nxt
          THEN rx_reord' = nxt /\ t_reordering_start' = ToInt(t_current)
          ELSE t_reordering_start' = stopped /\ UNCHANGED rx_reord

\* Mutants: a discard is taken back from the count; it is not counted.
DiscardUncounts == rxpdu_dd_pkts' = rxpdu_dd_pkts - 1
DiscardSilent == UNCHANGED rxpdu_dd_pkts

Discard == rxpdu_dd_pkts' = rxpdu_dd_pkts + 1

Deliver(sdus) == delivered' = delivered \o sdus

\* Mutant: delivery goes on at rx_next, over a gap.
AcceptSkips(pdu, count) ==
    LET s == [count |-> count, sdu |-> pdu.sdu, failed |-> FALSE]
        list == nr_pdcp_sdu_list_add(rx_list, s)
        nxt == IF count >= rx_next THEN count + 1 ELSE rx_next
    IN  /\ rx_list' = <<>> /\ Deliver(list) /\ txsdu_pkts' = txsdu_pkts + Len(list)
        /\ rx_deliv' = nxt /\ rx_next' = nxt
        /\ UpdateTimer(nxt, nxt)
        /\ UNCHANGED rxpdu_dd_pkts

\* What the rest of recv_pdu does with a PDU whose COUNT is count. A failed
\* integrity check is counted as a discard and changes nothing else.
Accept(pdu, count) ==
    LET failed == rxSecure /\ (pdu.damaged \/ ~pdu.secure)
        s == [count |-> count, sdu |-> pdu.sdu, failed |-> failed]
        list == nr_pdcp_sdu_list_add(rx_list, s)
        run == IF count = rx_deliv THEN RunLength(list, rx_deliv) ELSE 0
        nxt == IF count >= rx_next THEN (count + 1) % CountSpace ELSE rx_next
    IN  /\ rx_list' = Drop(list, run)
        /\ Deliver(SubSeq(list, 1, run))
        /\ txsdu_pkts' = txsdu_pkts + run
        /\ rx_deliv' = (rx_deliv + run) % CountSpace
        /\ rx_next' = nxt
        /\ UpdateTimer((rx_deliv + run) % CountSpace, nxt)
        /\ rxpdu_dd_pkts' = rxpdu_dd_pkts + (IF failed THEN 1 ELSE 0)

\* The lower layers deliver within half the sequence number space.
InWindow(pdu) == pdu.sdu >= rx_deliv - Window /\ pdu.sdu < rx_deliv + Window

Received == rxpdu_pkts < MaxRx /\ rxpdu_pkts' = rxpdu_pkts + 1

\* nr_pdcp_entity_recv_pdu. The PDU may arrive again, or never.
recv_pdu(pdu) ==
    /\ Received /\ InWindow(pdu)
    /\ IF \/ RcvdCount(pdu.sn) < rx_deliv
          \/ nr_pdcp_sdu_in_list(rx_list, RcvdCount(pdu.sn))
         THEN Discard /\ UNCHANGED <<rxVars, t_reordering_start, txsdu_pkts, delivered>>
         ELSE Accept(pdu, RcvdCount(pdu.sn))
    /\ UNCHANGED <<txVars, net, rxSecure, t_reordering, t_current>>

\* nr_pdcp_entity_recv_pdu with a PDU that is too short.
recv_short_pdu ==
    /\ Damage /\ net # {} /\ Received /\ Discard
    /\ UNCHANGED <<txVars, net, rxVars, rxSecure, t_reordering, timeVars, txsdu_pkts, delivered>>
-----------------------------------------------------------------------------
\* Whether t_current is past the sum of two ints, a comparison of unsigned 64
\* bit numbers. A sum that overflows has either value.
Expired(now, sum) ==
    {v >= 0 /\ now > v : v \in {ToInt(sum), sum}}

\* Mutant: the timer is not started again for the next gap.
Expire_once(now) ==
    LET late == Cardinality({i \in DOMAIN rx_list : rx_list[i].count < rx_reord})
        run == RunLength(Drop(rx_list, late), rx_reord)
    IN  /\ rx_list' = Drop(rx_list, late + run)
        /\ Deliver(SubSeq(rx_list, 1, late + run))
        /\ rx_deliv' = rx_reord + run
        /\ t_reordering_start' = 0 /\ UNCHANGED rx_reord

\* Mutant: rx_deliv stays behind the SDUs delivered from rx_reord on.
Expire_behind(now) ==
    LET late == Cardinality({i \in DOMAIN rx_list : rx_list[i].count < rx_reord})
        run == RunLength(Drop(rx_list, late), rx_reord)
    IN  /\ rx_list' = Drop(rx_list, late + run)
        /\ Deliver(SubSeq(rx_list, 1, late + run))
        /\ rx_deliv' = rx_reord
        /\ IF rx_reord < rx_next
             THEN rx_reord' = rx_next /\ t_reordering_start' = ToInt(now)
             ELSE t_reordering_start' = 0 /\ UNCHANGED rx_reord

\* check_t_reordering when the timer has expired: everything below rx_reord
\* goes up, then what follows without a gap; txsdu_pkts does not count it.
Expire(now) ==
    LET late == Cardinality({i \in DOMAIN rx_list : rx_list[i].count < rx_reord})
        run == RunLength(Drop(rx_list, late), rx_reord)
        deliv == rx_reord + run
    IN  /\ rx_list' = Drop(rx_list, late + run)
        /\ Deliver(SubSeq(rx_list, 1, late + run))
        /\ rx_deliv' = deliv
        /\ IF deliv < rx_next
             THEN rx_reord' = rx_next /\ t_reordering_start' = ToInt(now)
             ELSE t_reordering_start' = 0 /\ UNCHANGED rx_reord

\* Mutant: an infinite t-Reordering is not recognised.
set_time_finite ==
    /\ t_current < MaxTime
    /\ t_current' = t_current + 1
    /\ \E expired \in Expired(t_current + 1, t_reordering_start + t_reordering) :
         IF t_reordering_start # 0 /\ expired
           THEN Expire(t_current + 1)
           ELSE UNCHANGED <<rx_list, rx_deliv, rx_reord, t_reordering_start, delivered>>
    /\ UNCHANGED <<txVars, net, rx_next, rxSecure, t_reordering, statVars>>

\* nr_pdcp_entity_set_time: the timer thread passes every ms on.
set_time ==
    /\ t_current < MaxTime
    /\ t_current' = t_current + 1
    /\ \E expired \in Expired(t_current + 1, t_reordering_start + t_reordering) :
         IF t_reordering # -1 /\ t_reordering_start # 0 /\ expired
           THEN Expire(t_current + 1)
           ELSE UNCHANGED <<rx_list, rx_deliv, rx_reord, t_reordering_start, delivered>>
    /\ UNCHANGED <<txVars, net, rx_next, rxSecure, t_reordering, statVars>>

Next ==
    \/ recv_sdu \/ set_security \/ set_time \/ recv_short_pdu
    \/ \E pdu \in net : recv_pdu(pdu)

Spec == Init /\ [][Next]_vars
-----------------------------------------------------------------------------
\* The variables have the values of their C types.
PdcpTypeOK ==
    /\ tx_next \in 0 .. CountSpace - 1 /\ txSecure \in BOOLEAN /\ rxSecure \in BOOLEAN
    /\ net \subseteq Pdus
    /\ {rx_next, rx_deliv, rx_reord} \subseteq 0 .. CountSpace - 1
    /\ \A i \in DOMAIN rx_list : rx_list[i].count \in 0 .. CountSpace - 1
    /\ t_current \in Nat
    /\ t_reordering_start \in -(2 ^ (IntBits - 1)) .. 2 ^ (IntBits - 1) - 1
    /\ {rxpdu_pkts, rxpdu_dd_pkts, txsdu_pkts} \subseteq Nat

\* SDUs are delivered in the order they were sent, none twice, whatever was
\* lost, duplicated or overtaken and however often the timer expired; and each
\* was deciphered with the COUNT it was sent with.
InOrderOnce ==
    /\ \A i, j \in DOMAIN delivered : i < j => delivered[i].sdu < delivered[j].sdu
    /\ \A i \in DOMAIN delivered : delivered[i].count = delivered[i].sdu

\* As long as PDUs arrive within the window, the COUNT inferred from the
\* sequence number is the one the PDU was sent with, on both sides of a wrap.
CountRecovered == \A pdu \in net : InWindow(pdu) => RcvdCount(pdu.sn) = pdu.sdu

\* With t-Reordering infinite nothing is given up: the SDUs delivered are the
\* first rx_deliv ones that were sent.
NothingSkipped ==
    t_reordering = -1 => /\ Len(delivered) = rx_deliv
                        /\ \A i \in DOMAIN delivered : delivered[i].sdu = i - 1

\* The state variables of the receiver fit together: what waits lies strictly
\* between rx_deliv and rx_next, in order, and a running timer watches a gap
\* between them.
ReceiverWindow ==
    /\ rx_deliv <= rx_next
    /\ \A i \in DOMAIN rx_list : rx_deliv < rx_list[i].count /\ rx_list[i].count < rx_next
    /\ \A i, j \in DOMAIN rx_list : i < j => rx_list[i].count < rx_list[j].count
    /\ t_reordering_start # 0 => rx_deliv < rx_reord /\ rx_reord <= rx_next

\* The receiver's variables are typed and fit together, and tell the COUNT of
\* every PDU that may arrive.
ReceiverInvariant == PdcpTypeOK /\ ReceiverWindow /\ CountRecovered

\* What the entity hands up is in order, without repetition, and with an
\* infinite t-Reordering without a gap.
DeliveryRight == InOrderOnce /\ NothingSkipped

\* "timers (stores the ms of activation, 0 means not active)"
\* (nr_pdcp_entity.h): SDUs that wait behind a gap wait for a timer, which was
\* started not more than t_reordering ms ago.
HeldUpIsTimed ==
    rx_list # <<>> /\ t_reordering # -1 =>
        /\ t_reordering_start # 0
        /\ t_reordering_start <= t_current /\ t_current <= t_reordering_start + t_reordering

\* Every PDU received was discarded, waits or was delivered, and the counts
\* agree: the one exception are SDUs whose integrity check failed, which are
\* counted as discarded and kept all the same.
PdusAccounted ==
    LET Failed(list) == {i \in DOMAIN list : list[i].failed}
    IN  rxpdu_pkts + Cardinality(Failed(rx_list)) + Cardinality(Failed(delivered))
          = rxpdu_dd_pkts + Len(rx_list) + Len(delivered)

\* "discard NR PDU, integrity failed" (nr_pdcp_entity.c): an SDU whose check
\* failed is not delivered.
FailedDiscarded == \A i \in DOMAIN delivered : ~delivered[i].failed

\* "txsdu_pkts; /* number of SDUs delivered */" (nr_pdcp_entity.h).
DeliveredCounted == txsdu_pkts = Len(delivered)

\* A step never takes back what it acknowledged upwards: deliveries are only
\* appended, rx_deliv only moves forward, and it moves past a COUNT that was
\* not delivered only when the timer expired.
SkipsOnlyOnExpiry ==
    [][ /\ rx_deliv' >= rx_deliv
        /\ t_current' = t_current => rx_deliv' - rx_deliv = Len(delivered') - Len(delivered) ]_vars
=============================================================================
