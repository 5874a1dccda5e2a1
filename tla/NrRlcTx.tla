------------------------------- MODULE NrRlcTx -------------------------------
(***************************************************************************)
(* The transmitting half of an NR RLC entity in acknowledged mode          *)
(* (nr_rlc_entity_am.c), as functions on its state t: SDUs wait in         *)
(* tx_list, each grant of the MAC sends one PDU and may cut an SDU into     *)
(* segments, sent segments stay in wait_list until a status PDU moves them *)
(* to ack_list or back to retransmit_list, and an SDU is confirmed and     *)
(* freed when all its segments are in ack_list.                            *)
(*                                                                         *)
(* A list is a sequence; the *_end pointers are its last element. An SDU   *)
(* is named by its place in the order in which PDCP submits SDUs. The      *)
(* counters of nr_rlc_statistics_t, which nothing reads back, are left out.*)
(***************************************************************************)
EXTENDS NrRlcSn, FiniteSets

CONSTANTS Sdus,              \* SDUs that PDCP submits, in order: 1 .. Sdus
          SduSize,           \* bytes of an SDU
          PollPdu,           \* poll_pdu, -1 for infinity
          PollByte,          \* poll_byte, -1 for infinity
          TxMaxSize          \* tx_maxsize

Infinity == -1

ASSUME RlcTxAssumption ==
    /\ Sdus \in Nat /\ SduSize \in Nat \ {0}
    /\ PollPdu \in Nat \cup {Infinity} /\ PollByte \in Nat \cup {Infinity}
    /\ TxMaxSize \in Nat

SduIds == 1 .. Sdus

Segments == [sdu : SduIds, so : Nat, size : Nat, first : BOOLEAN, last : BOOLEAN]

\* An SDU that is not held; recv_sdu sets the ref_count of 1 of nr_rlc_new_sdu.
FreshSdu == [sn |-> -1, ref_count |-> 0, retx_count |-> -1]

SegmentsOf(list, sdus) == {seg \in ToSet(list) : seg.sdu \in sdus}

\* What calloc and clear_entity leave.
FreshTx ==
    [tx_next |-> 0, tx_next_ack |-> 0, poll_sn |-> 0, pdu_without_poll |-> 0,
     byte_without_poll |-> 0, force_poll |-> FALSE,
     polling |-> FALSE,               \* t_poll_retransmit_start # 0
     tx_list |-> <<>>, wait_list |-> <<>>, retransmit_list |-> <<>>,
     ack_list |-> <<>>, tx_size |-> 0,
     bs_tx |-> 0, bs_retx |-> 0,      \* common.bstatus
     sdu |-> [i \in SduIds |-> FreshSdu]]

TxTypeOK(t) ==
    /\ {t.tx_next, t.tx_next_ack, t.poll_sn} \subseteq Sns
    /\ {t.pdu_without_poll, t.byte_without_poll, t.tx_size, t.bs_tx, t.bs_retx} \subseteq Nat
    /\ {t.force_poll, t.polling} \subseteq BOOLEAN
    /\ \A list \in {t.tx_list, t.wait_list, t.retransmit_list, t.ack_list} :
          ToSet(list) \subseteq Segments
    /\ t.sdu \in [SduIds -> [sn : Sns \cup {-1}, ref_count : Nat, retx_count : Nat \cup {-1}]]
-----------------------------------------------------------------------------
compute_pdu_header_size(seg) == IF seg.first THEN 2 ELSE 4

PduSize(seg) == compute_pdu_header_size(seg) + seg.size

\* A place in the order that starts at tx_next_ack.
modulus_tx(t, a) == (a - t.tx_next_ack) % SnModulus

sn_compare_tx(t, a, b) == modulus_tx(t, a) - modulus_tx(t, b)

SnOf(t, seg) == t.sdu[seg.sdu].sn

is_window_stalling(t) ==
    sn_compare_tx(t, t.tx_next, (t.tx_next_ack + WindowSize) % SnModulus) >= 0

check_poll_after_pdu_assembly(t) ==
    \/ t.tx_list = <<>> /\ t.retransmit_list = <<>>
    \/ is_window_stalling(t)

\* nr_rlc_sdu_segment_list_add: by sequence number, then by offset.
ListAdd(t, list, seg) ==
    LET before(c) == \/ sn_compare_tx(t, SnOf(t, c), SnOf(t, seg)) > 0
                     \/ SnOf(t, c) = SnOf(t, seg) /\ c.so > seg.so
        i == SelectInSeq(list, before)
    IN  IF i = 0 THEN Append(list, seg) ELSE InsertAt(list, i, seg)

ListAddAll(t, list, segs) ==
    LET added[n \in 0 .. Len(segs)] ==
            IF n = 0 THEN list ELSE ListAdd(t, added[n - 1], segs[n])
    IN  added[Len(segs)]
-----------------------------------------------------------------------------
CanAccept(t) == t.tx_size + SduSize <= TxMaxSize

\* nr_rlc_entity_am_recv_sdu of an SDU that fits in the buffer.
recv_sdu(t, i) ==
    LET seg == [sdu |-> i, so |-> 0, size |-> SduSize, first |-> TRUE, last |-> TRUE]
    IN  [t EXCEPT !.tx_size = @ + SduSize, !.tx_list = Append(@, seg),
                  !.sdu[i].ref_count = 1, !.bs_tx = @ + PduSize(seg)]

\* resegment: what a grant of size bytes carries of seg, and what is left.
FirstPart(seg, size) ==
    [seg EXCEPT !.size = size - compute_pdu_header_size(seg), !.last = FALSE]

SecondPart(seg, size) ==
    LET sent == size - compute_pdu_header_size(seg)
    IN  [seg EXCEPT !.so = @ + sent, !.size = @ - sent, !.first = FALSE]

Fits(seg, size) == PduSize(seg) <= size
HasRoom(seg, size) == compute_pdu_header_size(seg) + 1 <= size

\* The segment that generate_retx_pdu or generate_tx_pdu sends of the head of list.
Sent(list, size) ==
    IF Fits(Head(list), size) THEN Head(list) ELSE FirstPart(Head(list), size)

\* The list afterwards: the rest of a cut segment is its new head.
Remaining(list, size) ==
    IF Fits(Head(list), size) THEN Tail(list)
    ELSE <<SecondPart(Head(list), size)>> \o Tail(list)

Bytes(list) ==
    LET sum[n \in 0 .. Len(list)] == IF n = 0 THEN 0 ELSE sum[n - 1] + PduSize(list[n])
    IN  sum[Len(list)]

\* Mutant: a cut segment does not raise the reference count of its SDU.
ResegmentedNoRef(t, list, size) == t.sdu
Resegmented(t, list, size) ==
    IF Fits(Head(list), size) THEN t.sdu
    ELSE [t.sdu EXCEPT ![Head(list).sdu].ref_count = @ + 1]

\* Mutant: a poll does not start t_poll_retransmit.
IncludePollNoTimer(t) ==
    [t EXCEPT !.pdu_without_poll = 0, !.byte_without_poll = 0,
              !.poll_sn = (t.tx_next - 1) % SnModulus]
include_poll(t) ==
    [t EXCEPT !.pdu_without_poll = 0, !.byte_without_poll = 0,
              !.poll_sn = (t.tx_next - 1) % SnModulus, !.polling = TRUE]

\* serialize_sdu, and the end of both generators: the PDU and the state after it.
DataPdu(t, seg, p) ==
    [sdu |-> seg.sdu, sn |-> SnOf(t, seg), so |-> seg.so, size |-> seg.size,
     first |-> seg.first, last |-> seg.last, p |-> p]

Serialized(t, seg, p) ==
    [pdu |-> DataPdu(t, seg, p),
     t |-> [IF p THEN include_poll(t) ELSE t EXCEPT !.force_poll = FALSE]]

serialize_sdu(t, seg, poll) == Serialized(t, seg, poll \/ t.force_poll)

CanRetransmit(t, size) ==
    /\ t.retransmit_list # <<>>
    /\ HasRoom(Head(t.retransmit_list), size)

\* Mutant: the rest of a cut segment is not added to the buffer status.
BytesLeftNothing(seg, size) == 0
\* What the buffer status gets back for the rest of a segment.
BytesLeft(seg, size) == IF Fits(seg, size) THEN 0 ELSE PduSize(SecondPart(seg, size))

\* The head of retransmit_list goes to wait_list, the segment seg of it as it is sent.
TakeRetx(t, list, seg, size) ==
    [t EXCEPT !.retransmit_list = Remaining(list, size),
              !.sdu = Resegmented(t, list, size),
              !.bs_retx = @ - PduSize(Head(list)) + BytesLeft(Head(list), size),
              !.wait_list = Append(@, seg)]

SendRetx(t, seg) == serialize_sdu(t, seg, check_poll_after_pdu_assembly(t))

RetxSegment(t, seg, size) == SendRetx(TakeRetx(t, t.retransmit_list, seg, size), seg)

generate_retx_pdu(t, size) == RetxSegment(t, Sent(t.retransmit_list, size), size)

CanTransmit(t, size) ==
    /\ ~is_window_stalling(t)
    /\ t.tx_list # <<>>
    /\ HasRoom(Head(t.tx_list), size)

TakeTx(t, list, seg, size) ==
    [t EXCEPT !.tx_list = Remaining(list, size),
              !.sdu = [Resegmented(t, list, size) EXCEPT ![seg.sdu].sn = t.tx_next],
              !.bs_tx = @ - PduSize(Head(list)) + BytesLeft(Head(list), size),
              !.tx_next = IF seg.last THEN (@ + 1) % SnModulus ELSE @,
              !.wait_list = Append(@, seg),
              !.pdu_without_poll = @ + 1,
              !.byte_without_poll = @ + seg.size]

PollDue(t) ==
    \/ PollPdu # Infinity /\ t.pdu_without_poll >= PollPdu
    \/ PollByte # Infinity /\ t.byte_without_poll >= PollByte
    \/ check_poll_after_pdu_assembly(t)

SendTx(t, seg) == serialize_sdu(t, seg, PollDue(t))

TxSegment(t, seg, size) == SendTx(TakeTx(t, t.tx_list, seg, size), seg)

generate_tx_pdu(t, size) == TxSegment(t, Sent(t.tx_list, size), size)
-----------------------------------------------------------------------------
\* process_received_ack: what is below ack_sn leaves the wait and retransmit
\* lists for the ack list; a retransmission that was still due is uncounted.
\* Nothing checks that tx_next_ack <= ack_sn <= tx_next.
\*
\* Mutant: an SDU that was not going to be sent again is uncounted, too.
UncountedAll(t, moved, unsent) == {i \in SduIds : \E k \in DOMAIN moved : moved[k].sdu = i}
Uncounted(t, moved, unsent) == {i \in SduIds : \E k \in DOMAIN unsent : unsent[k].sdu = i}

Uncount(t, sdus) ==
    [i \in SduIds |->
       IF i \in sdus THEN [t.sdu[i] EXCEPT !.retx_count = @ - 1] ELSE t.sdu[i]]

MoveAcked(t, acked, moved, unsent) ==
    [t EXCEPT !.wait_list = Others(@, acked),
              !.retransmit_list = Others(@, acked),
              !.bs_retx = @ - Bytes(unsent),
              !.ack_list = ListAddAll(t, @, moved),
              !.sdu = Uncount(t, Uncounted(t, moved, unsent))]

MoveThose(t, acked) ==
    MoveAcked(t, acked, Those(t.wait_list, acked) \o Those(t.retransmit_list, acked),
              Those(t.retransmit_list, acked))

process_received_ack(t, ack_sn) ==
    MoveThose(t, {seg \in ToSet(t.wait_list) \cup ToSet(t.retransmit_list) :
                    sn_compare_tx(t, SnOf(t, seg), ack_sn) < 0})

\* e = -1 stands for the end of the SDU.
so_overlap(s1, e1, s2, e2) ==
    IF s1 < s2 THEN e1 = -1 \/ e1 >= s2 ELSE e2 = -1 \/ s1 <= e2

CountRetx(t, segs, update_retx) ==
    IF segs # <<>> /\ update_retx
    THEN [t.sdu EXCEPT ![Head(segs).sdu].retx_count = @ + 1] ELSE t.sdu

\* consider_retransmission of segments of one SDU, whose retransmission counts
\* once. max_retx_reached only logs (nr_rlc_oai_api.c) and is left out.
consider_retransmission(t, segs, update_retx) ==
    [t EXCEPT !.retransmit_list = @ \o segs,
              !.bs_retx = @ + Bytes(segs),
              !.sdu = CountRetx(t, segs, update_retx)]

\* The segments hit of the wait list are sent again. (As a mutant of
\* RetransmitThose: what the same status PDU acknowledged is not searched.)
RetransmitWaiting(t, hit, update_retx) ==
    consider_retransmission([t EXCEPT !.wait_list = Others(@, hit)],
                            Those(t.wait_list, hit), update_retx)

RetransmitThose(t, hit, update_retx) ==
    consider_retransmission([t EXCEPT !.wait_list = Others(@, hit),
                                      !.ack_list = Others(@, hit)],
                            Those(t.wait_list, hit) \o Those(t.ack_list, hit), update_retx)

process_nack_sn(t, nack_sn, so_start, so_end, update_retx) ==
    IF modulus_tx(t, nack_sn) >= modulus_tx(t, t.tx_next) THEN t
    ELSE RetransmitThose(t, {seg \in ToSet(t.wait_list) \cup ToSet(t.ack_list) :
                               /\ SnOf(t, seg) = nack_sn
                               /\ so_overlap(so_start, so_end, seg.so,
                                             seg.so + seg.size - 1)},
                         update_retx)

\* The (nack_sn, so_start, so_end) that process_received_nack hands on, of all
\* the NACKs of a status PDU in their order.
Nacked(nacks) ==
    FlattenSeq([k \in DOMAIN nacks |->
        [i \in 1 .. nacks[k].range |->
            [sn |-> (nacks[k].sn + i - 1) % SnModulus,
             so_start |-> IF i = 1 THEN nacks[k].so_start ELSE 0,
             so_end |-> IF i = nacks[k].range THEN nacks[k].so_end ELSE -1]]])

\* process_received_nack for every NACK. sn_set makes the retransmission of an
\* SDU count once in a status PDU.
CountOnce(a, u, sn) ==
    [t |-> u, sn_set |-> IF Len(u.retransmit_list) > Len(a.t.retransmit_list)
                         THEN a.sn_set \cup {sn} ELSE a.sn_set]

NackStep(a, n) ==
    CountOnce(a, process_nack_sn(a.t, n.sn, n.so_start, n.so_end, n.sn \notin a.sn_set), n.sn)

ProcessEach(t, list) ==
    LET after[n \in 0 .. Len(list)] ==
            IF n = 0 THEN [t |-> t, sn_set |-> {}] ELSE NackStep(after[n - 1], list[n])
    IN  after[Len(list)].t

ProcessNacks(t, nacks) == ProcessEach(t, Nacked(nacks))

\* The SDUs of the ack list with a sequence number from n on that are whole there.
InAckList(t, sn) == {k \in DOMAIN t.ack_list : SnOf(t, t.ack_list[k]) = sn}

sdu_segment_in_ack_list_full(t, sn) ==
    \E k \in InAckList(t, sn) :
       Cardinality(InAckList(t, sn)) = t.sdu[t.ack_list[k].sdu].ref_count

Confirmed(t) ==
    Max({n \in 0 .. SnModulus - 1 :
           \A j \in 0 .. n - 1 :
              sdu_segment_in_ack_list_full(t, (t.tx_next_ack + j) % SnModulus)})

\* The SDUs that finalize_ack_nack_processing indicates to PDCP and frees.
SdusBelow(t, n) ==
    {i \in SduIds : \E k \in DOMAIN t.ack_list :
       t.ack_list[k].sdu = i /\ modulus_tx(t, t.sdu[i].sn) < n}

ConfirmedSdus(t) == SdusBelow(t, Confirmed(t))

\* Mutant: the room of a freed SDU is not given back.
FreeKeepsSize(t, freed) ==
    [t EXCEPT !.ack_list = Others(@, SegmentsOf(@, freed)),
              !.tx_next_ack = (@ + Confirmed(t)) % SnModulus,
              !.sdu = [i \in SduIds |-> IF i \in freed THEN FreshSdu ELSE t.sdu[i]]]
Free(t, freed) ==
    [t EXCEPT !.ack_list = Others(@, SegmentsOf(@, freed)),
              !.tx_size = @ - SduSize * Cardinality(freed),
              !.tx_next_ack = (@ + Confirmed(t)) % SnModulus,
              !.sdu = [i \in SduIds |-> IF i \in freed THEN FreshSdu ELSE t.sdu[i]]]

finalize_ack_nack_processing(t) == Free(t, ConfirmedSdus(t))

\* Mutant: t_poll_retransmit runs on when poll_sn is answered.
AnswersPollNever(t, status) == FALSE

\* t_poll_retransmit stops on an ACK or a NACK of poll_sn.
AnswersPoll(t, status) ==
    \/ sn_compare_tx(t, t.poll_sn, status.ack_sn) < 0
    \/ \E k \in DOMAIN status.nacks :
          LET n == status.nacks[k]
          IN  /\ sn_compare_tx(t, n.sn, t.poll_sn) <= 0
              /\ sn_compare_tx(t, t.poll_sn, (n.sn + n.range) % SnModulus) < 0

\* The control part of nr_rlc_entity_am_recv_pdu before the SDUs are confirmed.
AfterAckNack(t, status) ==
    ProcessNacks(process_received_ack([t EXCEPT !.polling = @ /\ ~AnswersPoll(t, status)],
                                      status.ack_sn), status.nacks)
-----------------------------------------------------------------------------
\* check_t_poll_retransmit once the timer has expired: the segments of the
\* newest SDU of the wait list, or of its first one, are sent again. wait_list
\* is not empty when it is used: see WaitListThere.
PollRetransmits(t) == check_poll_after_pdu_assembly(t)

InWaitList(t, sn) == \E k \in DOMAIN t.wait_list : SnOf(t, t.wait_list[k]) = sn

RetransmitSn(t, sn) ==
    RetransmitWaiting(t, {seg \in ToSet(t.wait_list) : SnOf(t, seg) = sn}, TRUE)

RetransmitNewest(t, newest) ==
    RetransmitSn(t, IF InWaitList(t, newest) THEN newest ELSE SnOf(t, Head(t.wait_list)))

check_t_poll_retransmit(t) ==
    [IF PollRetransmits(t) THEN RetransmitNewest(t, (t.tx_next - 1) % SnModulus) ELSE t
     EXCEPT !.polling = FALSE, !.force_poll = TRUE]

\* nr_rlc_entity_am_discard_sdu: only an SDU of which nothing was sent. tx_size
\* keeps counting it.
CanDiscard(t, i) ==
    \E k \in DOMAIN t.tx_list :
       t.tx_list[k].sdu = i /\ t.tx_list[k].first /\ t.tx_list[k].last

discard_sdu(t, i) ==
    LET its == SegmentsOf(t.tx_list, {i})
    IN  [t EXCEPT !.tx_list = Others(@, its),
                  !.bs_tx = @ - Bytes(Those(t.tx_list, its)),
                  !.sdu[i] = FreshSdu]
=============================================================================
