------------------------------- MODULE NrRlcRx -------------------------------
(***************************************************************************)
(* The receiving half of an NR RLC entity in acknowledged mode             *)
(* (nr_rlc_entity_am.c), as functions on its state r: segments are kept in *)
(* rx_list by sequence number and offset, an SDU is delivered as soon as   *)
(* its bytes are there, whatever its order, and t_reassembly decides up to *)
(* where a status PDU reports what is missing.                             *)
(*                                                                         *)
(* A PDU in rx_list is a record; done stands for data == NULL, the SDU has *)
(* been delivered. The bytes are named by the SDU they belong to, so that  *)
(* what is delivered can be compared with what was submitted. NR_SDU_MAX,  *)
(* which the sender enforces, is left out.                                 *)
(***************************************************************************)
EXTENDS NrRlcSn, FiniteSets

CONSTANTS RxMaxSize,     \* rx_maxsize
          MaxRange       \* longest NACK range: 255

ASSUME RlcRxAssumption ==
    RxMaxSize \in Nat /\ MaxRange \in Nat \ {0}

\* What calloc and clear_entity leave.
FreshRx ==
    [rx_next |-> 0, rx_next_status_trigger |-> 0, rx_highest_status |-> 0,
     rx_next_highest |-> 0, status_triggered |-> FALSE,
     reassembling |-> FALSE,     \* t_reassembly_start # 0
     prohibited |-> FALSE,       \* t_status_prohibit has not elapsed
     rx_list |-> <<>>, rx_size |-> 0]

RxTypeOK(r) ==
    /\ {r.rx_next, r.rx_next_status_trigger, r.rx_highest_status, r.rx_next_highest}
          \subseteq Sns
    /\ {r.status_triggered, r.reassembling, r.prohibited} \subseteq BOOLEAN
    /\ r.rx_size \in 0 .. RxMaxSize
-----------------------------------------------------------------------------
\* A place in the order that starts at rx_next.
modulus_rx(r, a) == (a - r.rx_next) % SnModulus

sn_compare_rx(r, a, b) == modulus_rx(r, a) - modulus_rx(r, b)

sn_in_recv_window(r, sn) == modulus_rx(r, sn) < WindowSize

\* nr_rlc_pdu_list_add: by sequence number, then by offset.
ListInsert(r, pdu) ==
    LET before(c) == \/ sn_compare_rx(r, c.sn, pdu.sn) > 0
                     \/ c.sn = pdu.sn /\ c.so > pdu.so
        i == SelectInSeq(r.rx_list, before)
    IN  IF i = 0 THEN Append(r.rx_list, pdu) ELSE InsertAt(r.rx_list, i, pdu)

\* segment_already_received: one pass that takes away what each PDU of the list
\* covers, from the front or from the back.
Trim(a, l, sn) ==
    IF l.sn # sn \/ a.size <= 0 THEN a
    ELSE IF l.so <= a.so /\ a.so < l.so + l.size
         THEN [so |-> l.so + l.size, size |-> a.size - (l.size - (a.so - l.so))]
    ELSE IF l.so <= a.so + a.size - 1 /\ a.so + a.size - 1 < l.so + l.size
         THEN [a EXCEPT !.size = l.so - a.so]
    ELSE a

Trimmed(list, pdu) ==
    LET left[n \in 0 .. Len(list)] ==
            IF n = 0 THEN [so |-> pdu.so, size |-> pdu.size]
            ELSE Trim(left[n - 1], list[n], pdu.sn)
    IN  left[Len(list)]

segment_already_received(r, pdu) == Trimmed(r.rx_list, pdu).size <= 0

OfSn(r, sn) == Those(r.rx_list, {l \in ToSet(r.rx_list) : l.sn = sn})

sdu_delivered(r, sn) == OfSn(r, sn) # <<>> /\ Head(OfSn(r, sn)).done

\* The number of bytes from the start that the first n PDUs of segs reach to.
Reach(segs, n) == Max({0} \cup {segs[k].so + segs[k].size : k \in 1 .. n})

\* The loops of sdu_full and sdu_has_missing_bytes over the PDUs of one SDU.
ReachesLast(segs) ==
    \E k \in DOMAIN segs :
       segs[k].last /\ \A j \in 1 .. k : segs[j].so <= Reach(segs, j - 1)

HasHole(segs) == \E j \in DOMAIN segs : segs[j].so > Reach(segs, j - 1)

sdu_full(r, sn) == ~sdu_delivered(r, sn) /\ ReachesLast(OfSn(r, sn))

sdu_has_missing_bytes(r, sn) == ~sdu_delivered(r, sn) /\ HasHole(OfSn(r, sn))

\* Mutant: bytes that are there twice are copied twice.
ReassembledTwice(r, sn) ==
    LET copy(sdu, l) == sdu \o [b \in 1 .. l.size |-> <<l.sdu, l.so + b - 1>>]
    IN  FoldLeft(copy, <<>>, OfSn(r, sn))
\* The bytes that reassemble_and_deliver copies, each as <<SDU, offset>>.
Reassembled(r, sn) ==
    LET copy(sdu, l) ==
            sdu \o [b \in 1 .. Max({0, l.size - (Len(sdu) - l.so)}) |->
                      <<l.sdu, Len(sdu) + b - 1>>]
    IN  FoldLeft(copy, <<>>, OfSn(r, sn))

SizeOf(list) ==
    LET sum[n \in 0 .. Len(list)] == IF n = 0 THEN 0 ELSE sum[n - 1] + list[n].size
    IN  sum[Len(list)]

MarkDone(list, sn) ==
    [k \in DOMAIN list |->
       IF list[k].sn = sn THEN [list[k] EXCEPT !.done = TRUE] ELSE list[k]]

reassemble_and_deliver(r, sn) ==
    [r EXCEPT !.rx_size = @ - SizeOf(OfSn(r, sn)), !.rx_list = MarkDone(@, sn)]

\* The first sequence number from sn on whose SDU has not been delivered.
FirstUndelivered(r, sn) ==
    (sn + Max({n \in 0 .. SnModulus - 1 :
                 \A j \in 0 .. n - 1 : sdu_delivered(r, (sn + j) % SnModulus)})) % SnModulus

\* rx_next moves to n, past what is delivered, which leaves the list.
MoveRxNext(r, n) ==
    LET stays == {l \in ToSet(r.rx_list) : modulus_rx(r, l.sn) >= modulus_rx(r, n)}
    IN  [r EXCEPT !.rx_next = n, !.rx_list = Those(@, stays)]

AdvanceRxNext(r, x) ==
    IF x = r.rx_next THEN MoveRxNext(r, FirstUndelivered(r, x)) ELSE r

\* Mutant: rx_highest_status stays where it is.
HighestStatusStays(r, x) == r
AdvanceHighestStatus(r, x) ==
    IF x = r.rx_highest_status
    THEN [r EXCEPT !.rx_highest_status = FirstUndelivered(r, x)] ELSE r

Deliver(r, x) == AdvanceRxNext(AdvanceHighestStatus(reassemble_and_deliver(r, x), x), x)

StartReassembly(r) ==
    [r EXCEPT !.reassembling = TRUE, !.rx_next_status_trigger = r.rx_next_highest]

\* Mutant: a gap inside one SDU is not seen.
GapAfterSdusOnly(r, sn) ==
    sn_compare_rx(r, r.rx_next_highest, (sn + 1) % SnModulus) > 0
\* Whether something is missing between sn and rx_next_highest.
GapAfter(r, sn) ==
    \/ sn_compare_rx(r, r.rx_next_highest, (sn + 1) % SnModulus) > 0
    \/ r.rx_next_highest = (sn + 1) % SnModulus /\ sdu_has_missing_bytes(r, sn)

ReassemblyOver(r) ==
    LET trigger == r.rx_next_status_trigger
    IN  \/ trigger = r.rx_next
        \/ trigger = (r.rx_next + 1) % SnModulus /\ ~sdu_has_missing_bytes(r, r.rx_next)
        \/ ~sn_in_recv_window(r, trigger) /\ trigger # (r.rx_next + WindowSize) % SnModulus

\* The four parts of reception_actions, in their order.
NoteHighest(r, x) ==
    IF sn_compare_rx(r, x, r.rx_next_highest) >= 0
    THEN [r EXCEPT !.rx_next_highest = (x + 1) % SnModulus] ELSE r

DeliverIfFull(r, x) == IF sdu_full(r, x) THEN Deliver(r, x) ELSE r

StopReassembly(r) == [r EXCEPT !.reassembling = @ /\ ~ReassemblyOver(r)]

TimeGapAfter(r, sn) ==
    IF ~r.reassembling /\ GapAfter(r, sn) THEN StartReassembly(r) ELSE r

TimeGap(r) == TimeGapAfter(r, r.rx_next)

reception_actions(r, x) == TimeGap(StopReassembly(DeliverIfFull(NoteHighest(r, x), x)))

\* The conditions on which the data part of nr_rlc_entity_am_recv_pdu keeps a PDU.
Accepts(r, pdu) ==
    /\ r.rx_size + pdu.size <= RxMaxSize
    /\ sn_in_recv_window(r, pdu.sn)
    /\ ~segment_already_received(r, pdu)

Stored(r, pdu) ==
    [r EXCEPT !.rx_size = @ + pdu.size,
              !.rx_list = ListInsert(r, [sn |-> pdu.sn, so |-> pdu.so, size |-> pdu.size,
                                         first |-> pdu.first, last |-> pdu.last,
                                         sdu |-> pdu.sdu, done |-> FALSE])]

\* The data part of nr_rlc_entity_am_recv_pdu. A poll asks for a status PDU even
\* if the PDU that carries it is discarded.
recv_data_pdu(r, pdu) ==
    [IF Accepts(r, pdu) THEN reception_actions(Stored(r, pdu), pdu.sn) ELSE r
     EXCEPT !.status_triggered = @ \/ pdu.p]

\* check_t_reassembly once the timer has expired.
ReportUpTo(r, sn) ==
    TimeGapAfter([r EXCEPT !.reassembling = FALSE, !.status_triggered = TRUE,
                           !.rx_highest_status = sn], sn)

check_t_reassembly(r) == ReportUpTo(r, FirstUndelivered(r, r.rx_next_status_trigger))
-----------------------------------------------------------------------------
(* The status PDU. A so_end of -1 stands for 0xffff, the end of the SDU.    *)

\* max_so and last_reached of next_missing when it started at i and is at k.
MaxSo(r, i, k) ==
    Max({0} \cup {r.rx_list[j].so + r.rx_list[j].size - 1 :
                    j \in {m \in i .. k : r.rx_list[m].sn = r.rx_list[k].sn}})

LastReached(r, i, k) ==
    \E j \in i .. k : r.rx_list[j].sn = r.rx_list[k].sn /\ r.rx_list[j].last

\* "no discontinuity in data": next_missing goes on from k to k + 1.
Continuous(r, i, k) ==
    LET c == r.rx_list[k]
        n == r.rx_list[k + 1]
    IN  \/ n.sn = c.sn /\ MaxSo(r, i, k) >= n.so - 1
        \/ n.sn = (c.sn + 1) % SnModulus /\ LastReached(r, i, k) /\ n.first

\* Where next_missing stops: before a discontinuity or at the end of the list.
StopsAt(r, i) ==
    Max({k \in i .. Len(r.rx_list) : \A j \in i .. k - 1 : Continuous(r, i, j)})

Report(ack, sn_start, so_start, sn_end, so_end, next) ==
    [ack_sn |-> ack, sn_start |-> sn_start, so_start |-> so_start,
     sn_end |-> sn_end, so_end |-> so_end, next |-> next]

NoReport(ack) == Report(ack, -1, 0, 0, 0, 0)

\* set_end_different_sdu: where a gap that ends before PDU n of the list ends.
\* Past rx_highest_status sn_end is not assigned: it is what the stack holds.
GapEnd(r, n, stack) ==
    LET cur == r.rx_list[n]
    IN  IF sn_compare_rx(r, r.rx_highest_status, cur.sn) <= 0
        THEN [sn |-> stack, so |-> -1]
        ELSE IF cur.first THEN [sn |-> (cur.sn - 1) % SnModulus, so |-> -1]
        ELSE [sn |-> cur.sn, so |-> cur.so - 1]

\* Whether a gap that starts at sn lies below rx_highest_status.
Reported(r, sn) == sn_compare_rx(r, r.rx_highest_status, sn) > 0

\* The ack_sn of next_missing: past the last SDU of PDUs i .. k that is delivered.
AckOf(r, dones) == IF dones = {} THEN -1 ELSE (r.rx_list[Max(dones)].sn + 1) % SnModulus

GapBetween(ack, sn_start, so_start, end, next) ==
    Report(ack, sn_start, so_start, end.sn, end.so, next)

\* The gap before the head of the list.
MissingAtHead(r, i, stack) ==
    IF Reported(r, r.rx_list[i].sn)
    THEN GapBetween(-1, r.rx_next, 0, GapEnd(r, i, stack), i) ELSE NoReport(-1)

\* The gap after the end of the list.
MissingFrom(r, ack, sn_start, so_start) ==
    IF Reported(r, sn_start)
    THEN Report(ack, sn_start, so_start, (r.rx_highest_status - 1) % SnModulus, -1, 0)
    ELSE NoReport(ack)

MissingAtEnd(r, i, cur, ack) ==
    IF cur.done \/ LastReached(r, i, Len(r.rx_list))
    THEN MissingFrom(r, ack, (cur.sn + 1) % SnModulus, 0)
    ELSE MissingFrom(r, ack, cur.sn, MaxSo(r, i, Len(r.rx_list)) + 1)

\* The gap between PDU k of the list, cur, and the next one.
MissingAfter(r, i, k, cur, ack, stack) ==
    IF Reported(r, cur.sn)
    THEN GapBetween(ack, cur.sn, MaxSo(r, i, k) + 1,
                    IF r.rx_list[k + 1].sn = cur.sn
                    THEN [sn |-> cur.sn, so |-> r.rx_list[k + 1].so - 1]
                    ELSE GapEnd(r, k + 1, stack), k + 1)
    ELSE NoReport(ack)

MissingAt(r, i, k, ack, stack) ==
    IF k = Len(r.rx_list) THEN MissingAtEnd(r, i, r.rx_list[k], ack)
    ELSE MissingAfter(r, i, k, r.rx_list[k], ack, stack)

MissingPast(r, i, k, stack) ==
    MissingAt(r, i, k, AckOf(r, {j \in i .. k : r.rx_list[j].done}), stack)

\* next_missing: the next gap from PDU i of the list on, sn_start = -1 if there
\* is none to report, and the PDU to go on from (0 for NULL).
next_missing(r, i, check_head, stack) ==
    IF check_head /\ (r.rx_list[i].sn # r.rx_next \/ ~r.rx_list[i].first)
    THEN MissingAtHead(r, i, stack)
    ELSE MissingPast(r, i, StopsAt(r, i), stack)

\* How many sequence numbers a gap spans, in generate_missing and in missing_size.
GeneratedCount(m) == ((m.sn_end - m.sn_start) % SnModulus) + 1

\* Mutant: the last sequence number of the gap is not counted.
MissingCountShort(m) ==
    LET n == m.sn_end - m.sn_start IN IF n < 0 THEN n + SnModulus ELSE n
MissingCount(m) ==
    LET n == m.sn_end - m.sn_start + 1 IN IF n < 0 THEN n + SnModulus ELSE n

\* Mutant: the range of the last NACK is one piece short.
NacksShort(m, count) ==
    LET pieces == (count + MaxRange - 1) \div MaxRange
    IN  [p \in 1 .. pieces |->
           [sn |-> (m.sn_start + (p - 1) * MaxRange) % SnModulus,
            range |-> IF p = pieces THEN count - p * MaxRange ELSE MaxRange,
            so_start |-> IF p = 1 THEN m.so_start ELSE 0,
            so_end |-> IF p = pieces THEN m.so_end ELSE -1]]

\* The NACKs of a gap over count sequence numbers, none over more than MaxRange.
Nacks(m, count) ==
    LET pieces == (count + MaxRange - 1) \div MaxRange
    IN  [p \in 1 .. pieces |->
           [sn |-> (m.sn_start + (p - 1) * MaxRange) % SnModulus,
            range |-> IF p = pieces THEN count - (p - 1) * MaxRange ELSE MaxRange,
            so_start |-> IF p = 1 THEN m.so_start ELSE 0,
            so_end |-> IF p = pieces THEN m.so_end ELSE -1]]

nack_size(n) ==
    2 + (IF n.so_start = 0 /\ n.so_end = -1 THEN 0 ELSE 4) + (IF n.range = 1 THEN 0 ELSE 1)

NackBytes(nacks) ==
    LET sum[n \in 0 .. Len(nacks)] == IF n = 0 THEN 0 ELSE sum[n - 1] + nack_size(nacks[n])
    IN  sum[Len(nacks)]

\* How many of the NACKs new fit in size bytes behind the ones that are there.
Fitting(nacks, new, size) ==
    Max({k \in 0 .. Len(new) : 3 + NackBytes(nacks \o SubSeq(new, 1, k)) <= size})

AddNacks(s, new, fit, next) ==
    [s EXCEPT !.nacks = @ \o SubSeq(new, 1, fit), !.i = IF fit = Len(new) THEN next ELSE 0]

AddFitting(s, new, size, next) == AddNacks(s, new, Fitting(s.nacks, new, size), next)

\* One round of the loop, with what next_missing answered. The ack_sn of the status
\* follows the last SDU that was passed.
StatusAdd(s, m, size, written) ==
    [IF m.sn_start = -1 THEN [s EXCEPT !.i = 0]
     ELSE AddFitting(s, Nacks(m, IF written THEN GeneratedCount(m) ELSE MissingCount(m)),
                     size, m.next)
     EXCEPT !.ack_sn = IF m.ack_sn # -1 THEN m.ack_sn ELSE @]

\* The loop of generate_status (written) and of status_size (not written): i is the
\* PDU to go on from, 0 when it is over.
StatusStep(r, size, stack, s, written) ==
    IF s.i = 0 THEN s
    ELSE StatusAdd(s, next_missing(r, s.i, s.nacks = <<>>, stack), size, written)

StatusStart(r) ==
    [ack_sn |-> r.rx_next, nacks |-> <<>>, i |-> IF r.rx_list = <<>> THEN 0 ELSE 1]

StatusLoop(r, size, stack, written) ==
    LET after[n \in 0 .. Len(r.rx_list) + 1] ==
            IF n = 0 THEN StatusStart(r)
            ELSE StatusStep(r, size, stack, after[n - 1], written)
    IN  after[Len(r.rx_list) + 1]

\* The status PDU that generate_status writes in size bytes.
StatusPdu(s) == [ack_sn |-> s.ack_sn, nacks |-> s.nacks]

generate_status(r, size, stack) == StatusPdu(StatusLoop(r, size, stack, TRUE))

\* The bytes that buffer_status announces to the MAC for it.
status_size(r, size, stack) ==
    3 + NackBytes(StatusLoop(r, size, stack, FALSE).nacks)

StatusSent(r) == [r EXCEPT !.status_triggered = FALSE, !.prohibited = TRUE]
=============================================================================
