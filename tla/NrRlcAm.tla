------------------------------- MODULE NrRlcAm -------------------------------
(***************************************************************************)
(* Two NR RLC entities in acknowledged mode with traffic in one direction: *)
(* the transmitting half of one and the receiving half of the other, with  *)
(* the MAC between them. The other two halves have nothing to do then, and *)
(* the halves of one entity share only the grants, in which a status PDU   *)
(* goes first.                                                             *)
(*                                                                         *)
(* The MAC offers grants of any of a few sizes, loses PDUs and lets one    *)
(* overtake another (HARQ processes run in parallel). The MAC calls        *)
(* set_time before every other function, so a timer expires in a step of   *)
(* its own; how long it takes is left open.                                *)
(***************************************************************************)
EXTENDS NrRlcTx, NrRlcRx

CONSTANTS DataSizes,       \* grants in bytes for data PDUs
          StatusSizes,     \* grants in bytes for status PDUs
          StackValues,     \* what an sn_end that is not assigned may hold
          DataCap,         \* bound: data PDUs in flight
          StatusCap,       \* bound: status PDUs in flight
          StatusOvertakes, \* how many status PDUs one may overtake
          MaxFaults,       \* bound: PDUs lost, and data PDUs that overtake another
          MaxPolls,        \* bound: expiries of t_poll_retransmit
          MaxUpper         \* bound: discards and re-establishments from above

ASSUME RlcAmAssumption ==
    /\ DataSizes \subseteq Nat /\ StatusSizes \subseteq Nat /\ StackValues \subseteq Sns
    /\ {DataCap, StatusCap, StatusOvertakes, MaxFaults, MaxPolls,
        MaxUpper} \subseteq Nat

VARIABLES tx, rx,
          data,            \* data PDUs in flight
          status,          \* status PDUs in flight
          submitted,       \* SDUs that PDCP has submitted so far
          held,            \* history: SDUs accepted and not freed yet
          confirmed,       \* history: SDUs of which PDCP was told that they arrived
          delivered,       \* history: what deliver_sdu was called with
          crashed,         \* NULL was dereferenced: the transmitter is gone
          wronglyRejected, \* history: an SDU was rejected although it fitted
          used             \* how much of the bounds is used

vars == <<tx, rx, data, status, submitted, held, confirmed, delivered, crashed,
          wronglyRejected, used>>
chanVars == <<data, status>>
histVars == <<confirmed, delivered, crashed>>

DeliveredIds == {delivered[k][1][1] : k \in DOMAIN delivered}

WholeSdu(i) == [b \in 1 .. SduSize |-> <<i, b - 1>>]

Init ==
    /\ tx = FreshTx /\ rx = FreshRx /\ data = <<>> /\ status = <<>>
    /\ submitted = 0 /\ held = {} /\ confirmed = {} /\ delivered = <<>>
    /\ crashed = FALSE /\ wronglyRejected = FALSE
    /\ used = [faults |-> 0, polls |-> 0, discards |-> 0, clears |-> 0]
-----------------------------------------------------------------------------
\* nr_rlc_entity_am_recv_sdu
RecvSdu ==
    /\ ~crashed /\ submitted < Sdus
    /\ submitted' = submitted + 1
    /\ \/ /\ CanAccept(tx)
          /\ tx' = recv_sdu(tx, submitted + 1)
          /\ held' = held \cup {submitted + 1}
          /\ UNCHANGED wronglyRejected
       \/ /\ ~CanAccept(tx)
          /\ wronglyRejected' =
                (wronglyRejected \/ SduSize * (Cardinality(held) + 1) <= TxMaxSize)
          /\ UNCHANGED <<tx, held>>
    /\ UNCHANGED <<rx, chanVars, histVars, used>>

\* nr_rlc_entity_am_generate_pdu: a retransmission goes first, a new PDU follows
\* if there is none or if the grant has no room for it.
Generated(t, size) ==
    IF CanRetransmit(t, size) THEN generate_retx_pdu(t, size) ELSE generate_tx_pdu(t, size)

GeneratePdu(size) ==
    /\ ~crashed /\ Len(data) < DataCap
    /\ CanRetransmit(tx, size) \/ CanTransmit(tx, size)
    /\ \E g \in {Generated(tx, size)} : tx' = g.t /\ data' = Append(data, g.pdu)
    /\ UNCHANGED <<rx, status, submitted, held, histVars, wronglyRejected, used>>

\* The status part of nr_rlc_entity_am_generate_pdu.
status_to_report(r) == r.status_triggered /\ ~r.prohibited

SendStatus(size, stack) ==
    /\ status_to_report(rx) /\ size >= 3
    /\ Len(status) < StatusCap
    /\ status' = Append(status, generate_status(rx, size, stack))
    /\ rx' = StatusSent(rx)
    /\ UNCHANGED <<tx, data, submitted, held, histVars, wronglyRejected, used>>

\* The data part of nr_rlc_entity_am_recv_pdu.
Delivers(r, pdu) == Accepts(r, pdu) /\ sdu_full(Stored(r, pdu), pdu.sn)

\* The MAC does not hold a PDU back until one a whole window later arrives.
MayOvertake(k) == \A j \in 1 .. k - 1 : (data[k].sn - data[j].sn) % SnModulus # WindowSize

ReceiveData(k) ==
    /\ k \in 1 .. Len(data) /\ MayOvertake(k)
    /\ used' = [used EXCEPT !.faults = @ + (IF k > 1 THEN 1 ELSE 0)]
    /\ used'.faults <= MaxFaults
    /\ rx' = recv_data_pdu(rx, data[k])
    /\ delivered' = IF Delivers(rx, data[k])
                    THEN Append(delivered, Reassembled(Stored(rx, data[k]), data[k].sn))
                    ELSE delivered
    /\ data' = RemoveAt(data, k)
    /\ UNCHANGED <<tx, status, submitted, held, confirmed, crashed, wronglyRejected>>

\* The control part of nr_rlc_entity_am_recv_pdu.
ReceiveStatus(k) ==
    /\ ~crashed /\ k \in 1 .. Len(status) /\ k <= StatusOvertakes + 1
    /\ \E t \in {AfterAckNack(tx, status[k])} :
          /\ tx' = finalize_ack_nack_processing(t)
          /\ confirmed' = confirmed \cup ConfirmedSdus(t)
          /\ held' = held \ ConfirmedSdus(t)
    /\ status' = RemoveAt(status, k)
    /\ UNCHANGED <<rx, data, submitted, delivered, crashed, wronglyRejected, used>>

\* The MAC loses a PDU (external).
Lose ==
    /\ used.faults < MaxFaults
    /\ used' = [used EXCEPT !.faults = @ + 1]
    /\ \/ \E k \in DOMAIN data : data' = RemoveAt(data, k) /\ UNCHANGED status
       \/ \E k \in DOMAIN status : status' = RemoveAt(status, k) /\ UNCHANGED data
    /\ UNCHANGED <<tx, rx, submitted, held, histVars, wronglyRejected>>
-----------------------------------------------------------------------------
\* check_t_poll_retransmit: the head of wait_list is used without a check.
ExpirePoll ==
    /\ ~crashed /\ tx.polling /\ used.polls < MaxPolls
    /\ used' = [used EXCEPT !.polls = @ + 1]
    /\ IF PollRetransmits(tx) /\ tx.wait_list = <<>>
       THEN crashed' = TRUE /\ UNCHANGED tx
       ELSE tx' = check_t_poll_retransmit(tx) /\ UNCHANGED crashed
    /\ UNCHANGED <<rx, chanVars, submitted, held, confirmed, delivered, wronglyRejected>>

ExpireReassembly ==
    /\ rx.reassembling
    /\ rx' = check_t_reassembly(rx)
    /\ UNCHANGED <<tx, chanVars, submitted, held, histVars, wronglyRejected, used>>

ExpireProhibit ==
    /\ rx.prohibited
    /\ rx' = [rx EXCEPT !.prohibited = FALSE]
    /\ UNCHANGED <<tx, chanVars, submitted, held, histVars, wronglyRejected, used>>

\* nr_rlc_entity_am_discard_sdu
Discard(i) ==
    /\ ~crashed /\ used.discards + used.clears < MaxUpper /\ CanDiscard(tx, i)
    /\ used' = [used EXCEPT !.discards = @ + 1]
    /\ tx' = discard_sdu(tx, i)
    /\ held' = held \ {i}
    /\ UNCHANGED <<rx, chanVars, submitted, histVars, wronglyRejected>>

\* nr_rlc_entity_am_reestablishment of both entities; the MAC is reset with them.
Reestablish ==
    /\ ~crashed /\ used.discards + used.clears < MaxUpper
    /\ used' = [used EXCEPT !.clears = @ + 1]
    /\ tx' = FreshTx /\ rx' = FreshRx /\ data' = <<>> /\ status' = <<>>
    /\ held' = {}
    /\ UNCHANGED <<submitted, histVars, wronglyRejected>>

Next ==
    \/ RecvSdu
    \/ \E size \in DataSizes : GeneratePdu(size)
    \/ \E size \in StatusSizes, stack \in StackValues : SendStatus(size, stack)
    \/ \E k \in 1 .. DataCap : ReceiveData(k)
    \/ \E k \in 1 .. StatusCap : ReceiveStatus(k)
    \/ Lose
    \/ ExpirePoll
    \/ ExpireReassembly
    \/ ExpireProhibit
    \/ \E i \in SduIds : Discard(i)
    \/ Reestablish

Spec == Init /\ [][Next]_vars
-----------------------------------------------------------------------------
\* The state of both halves is well formed.
RlcTypeOK ==
    /\ TxTypeOK(tx) /\ RxTypeOK(rx)
    /\ submitted \in 0 .. Sdus /\ held \subseteq SduIds /\ confirmed \subseteq SduIds
    /\ Len(data) <= DataCap /\ Len(status) <= StatusCap

\* What reassemble_and_deliver hands up is one whole SDU as it was submitted, and
\* no SDU is handed up twice, whatever was cut, resent and received twice.
DeliveredWhole ==
    /\ \A k \in DOMAIN delivered : \E i \in SduIds : delivered[k] = WholeSdu(i)
    /\ \A j, k \in DOMAIN delivered : delivered[j] = delivered[k] => j = k

\* "we only remove a segment that was ACKed": sdu_successful_delivery is called,
\* and the SDU freed, only when the other side has delivered it. (For status PDUs in
\* order and a window of two SDUs: a status PDU that reports two gaps acknowledges
\* what lies in the second, see the README.)
AckedDelivered == confirmed \subseteq DeliveredIds

\* The windows of the two entities agree: the sender has not moved past what the
\* receiver waits for, nor the receiver past what was sent.
WindowsAgree == modulus_tx(tx, rx.rx_next) <= modulus_tx(tx, tx.tx_next)

\* SDUs arrive whole, once, and are confirmed to the sender only then.
DeliveryRight == DeliveredWhole /\ AckedDelivered /\ WindowsAgree

\* Each byte of an SDU that is held is in exactly one segment of one of the four
\* lists, and ref_count is the number of those segments (what
\* sdu_segment_in_ack_list_full and nr_rlc_free_sdu_segment rely on).
PlacesOf(list, i) == {k \in DOMAIN list : list[k].sdu = i}

PlacesAt(list, b) == {k \in DOMAIN list : list[k].so <= b /\ b < list[k].so + list[k].size}

Partition(list) ==
    \A i \in held :
       /\ \A b \in 0 .. SduSize - 1 :
             \E k \in PlacesOf(list, i) : PlacesOf(list, i) \cap PlacesAt(list, b) = {k}
       /\ tx.sdu[i].ref_count = Cardinality(PlacesOf(list, i))

SegmentsPartition ==
    Partition(tx.tx_list \o tx.wait_list \o tx.retransmit_list \o tx.ack_list)

\* bstatus, which the MAC scheduler reads, is the size of the PDUs to send, with
\* the sizes added and taken away one operation at a time.
BufferStatusExact ==
    tx.bs_tx = Bytes(tx.tx_list) /\ tx.bs_retx = Bytes(tx.retransmit_list)

\* Neither window is wider than it may be, and each side's variables are in order:
\* tx_next_ack <= tx_next, rx_next <= rx_highest_status <= rx_next_highest, and what
\* a status PDU reports next has not been delivered.
WindowsInOrder ==
    /\ modulus_tx(tx, tx.tx_next) <= WindowSize
    /\ modulus_rx(rx, rx.rx_highest_status) <= modulus_rx(rx, rx.rx_next_highest)
    /\ modulus_rx(rx, rx.rx_next_highest) <= WindowSize
    /\ ~sdu_delivered(rx, rx.rx_highest_status)

HasByte(r, sn, b) ==
    \/ sdu_delivered(r, sn)
    \/ \E k \in DOMAIN r.rx_list :
          LET l == r.rx_list[k] IN l.sn = sn /\ l.so <= b /\ b < l.so + l.size

\* When t_reassembly is not running, nothing is missing between rx_highest_status
\* and what was received last: every gap is either reported or timed.
GapIsTimed ==
    ~rx.reassembling =>
       \A k \in DOMAIN rx.rx_list :
          LET l == rx.rx_list[k]
          IN  sn_compare_rx(rx, l.sn, rx.rx_highest_status) >= 0
              => /\ l.sn = rx.rx_highest_status
                 /\ \A b \in 0 .. l.so - 1 : HasByte(rx, l.sn, b)

\* As long as no SDU was discarded: when all that is left to do is wait for a
\* status PDU, t_poll_retransmit runs. (discard_sdu may take away the segment that
\* would have carried the poll. With a window of more than two SDUs a status PDU
\* may take away the retransmission that force_poll waits for, see the README.)
WaitIsTimed ==
    (used.discards = 0 /\ tx.wait_list # <<>> /\ tx.retransmit_list = <<>>
        /\ (tx.tx_list = <<>> \/ is_window_stalling(tx)))
    => tx.polling

\* The consistency check that nr_rlc_entity_am_recv_pdu makes before it uses a
\* status PDU never rejects one that generate_status wrote.
StatusesParse ==
    \A j \in DOMAIN status :
       \A k \in DOMAIN status[j].nacks :
          LET n == status[j].nacks[k]
          IN  n.range >= 1 /\ (n.range = 1 => n.so_end = -1 \/ n.so_start <= n.so_end)

\* What nr_rlc_entity_am_buffer_status announces to the MAC for a status PDU is
\* what generate_status then writes: the two compute the gaps apart. (Not when
\* something was received past rx_highest_status: both then use an end of the gap
\* that was not assigned, and round it differently.)
StatusSizeAgrees ==
    /\ status_to_report(rx)
    /\ \A k \in DOMAIN rx.rx_list :
          sn_compare_rx(rx, rx.rx_highest_status, rx.rx_list[k].sn) > 0
    =>
       \A size \in {n \in StatusSizes : n >= 3} :
          status_size(rx, size, 0) = 3 + NackBytes(generate_status(rx, size, 0).nacks)

\* As long as no SDU was discarded and status PDUs keep their order,
\* check_t_poll_retransmit finds a segment to send again in the wait list, whose
\* head it uses without a check.
WaitListThere == used.discards = 0 => ~crashed

\* "SDU rejected, SDU buffer full": as long as none was discarded, recv_sdu rejects
\* an SDU only when those that are held leave no room for it. (discard_sdu does not
\* give back the room of the SDU.)
RejectedOnlyWhenFull == used.discards = 0 => ~wronglyRejected

\* The lists, the window variables and the sizes kept beside them stay
\* consistent within each entity, whatever the other one sends.
EntitiesConsistent ==
    RlcTypeOK /\ SegmentsPartition /\ BufferStatusExact /\ WindowsInOrder
    /\ RejectedOnlyWhenFull

\* No unanswered poll is left to itself, and the timer that watches it finds
\* something to send.
NothingForgotten == WaitIsTimed /\ WaitListThere

\* The receiver leaves no gap unreported or untimed, and its status PDUs have the
\* size announced and are understood by the other side.
StatusRight == GapIsTimed /\ StatusesParse /\ StatusSizeAgrees

\* "don't go more than rx_highest_status - 1": a status PDU asks for no byte that
\* the receiver has. (It does when the end of a gap was not assigned, see the README.)
NackedMissing ==
    [][\A s \in ToSet(status') \ ToSet(status) :
          \A k \in DOMAIN Nacked(s.nacks) :
             LET n == Nacked(s.nacks)[k]
             IN  \A b \in 0 .. SduSize - 1 :
                    (b >= n.so_start /\ (n.so_end = -1 \/ b <= n.so_end))
                    => ~HasByte(rx, n.sn, b)]_vars
=============================================================================
