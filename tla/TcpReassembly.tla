--------------------------- MODULE TcpReassembly ---------------------------
(***************************************************************************)
(* One direction of a TCP flow: the state machine of                       *)
(* src/tcp_reassembly.c over the append-only use of src/stream_buffer.c.   *)
(*                                                                         *)
(* A payload byte is represented by its position in the sender's stream,   *)
(* so a stream that decoders may trust is a run of consecutive positions.  *)
(* Segments arrive in any order, any number of times and cut anywhere,     *)
(* as retransmission and a passive capture allow. A caller may use the     *)
(* operations of tcp_reassembly.h in any order, with one restriction:      *)
(* process_segment needs an allocated stream (capture.c:497).              *)
(*                                                                         *)
(* The flush loop runs one iteration per step; while it runs (pc =         *)
(* "flush") nothing else is enabled, so process_segment stays atomic.      *)
(* Two defensive branches no caller reaches are left out: a NULL payload   *)
(* with a positive length (line 265) and an overlap that covers the whole  *)
(* segment (line 298, excluded by the retransmission test before it).      *)
(***************************************************************************)
EXTENDS Integers, Sequences, SequencesExt, Sums

CONSTANTS
    HalfMod,        \* 2^31 in the code: the sign bit of a sequence difference
    ISN,            \* the sender's initial sequence number
    StreamLen,      \* bytes the sender sends before its FIN
    Segments,       \* the segments the capture may see
    BufferBytes,    \* stream_buffer_bytes
    MaxPending,     \* TCP_REASSEMBLY_MAX_PENDING_SEGMENTS (8)
    MaxDeliveries   \* bound: calls of process_segment

\* Sequence numbers are uint32_t in the code.
SeqSpace == 2 * HalfMod

(* A segment carries the bytes pos .. pos+len-1 that were captured of it.  *)
(* SYN sits just before position 0 and FIN just after the last byte sent.  *)
SegmentType ==
    [pos : 0..(StreamLen + 1), len : 0..StreamLen,
     syn : BOOLEAN, fin : BOOLEAN, rst : BOOLEAN]

ASSUME ConstantsAssumption ==
    /\ HalfMod \in Nat /\ ISN \in Nat /\ ISN < SeqSpace
    /\ StreamLen \in Nat /\ StreamLen + 2 < HalfMod
    /\ BufferBytes \in Nat \ {0} /\ MaxPending \in Nat /\ MaxDeliveries \in Nat
    /\ Segments \subseteq SegmentType
    /\ \A s \in Segments :
          /\ s.len > 0 => s.pos + s.len <= StreamLen
          /\ s.syn => s.pos = 0 /\ ~s.fin

(* No segment that carries the FIN lost its tail to the snap length.       *)
FullCapture == \A s \in Segments : s.fin => s.pos + s.len = StreamLen

\* The sequence number of stream position p (SYN is position -1).
Wire(p) == (ISN + 1 + p) % SeqSpace

\* The sequence number in the TCP header, and the captured payload.
sequence(s) == IF s.syn THEN Wire(s.pos - 1) ELSE Wire(s.pos)
payload(s) == [i \in 1..s.len |-> s.pos + i - 1]

VARIABLES
    next_sequence, initial_sequence_known,
    fin_seen, rst_seen, unusable,
    counters,           \* the four lifetime anomaly counters
    stream,             \* stream.data[0 .. length-1] (nothing is ever consumed)
    capacity,           \* stream.capacity; 0 exactly when stream.data is NULL
    pending,            \* pending[0 .. pending_count-1]
    pending_bytes, pending_byte_cap,
    pc,                 \* "flush" inside flush_pending_segments
    result,             \* last TcpReassemblyResult returned
    kept,               \* history: positions of segments ACCEPTED or BUFFERED
    deliveries          \* segments processed, bounded by MaxDeliveries

sequencing == <<next_sequence, initial_sequence_known>>
flags == <<fin_seen, rst_seen>>
store == <<pending, pending_bytes>>
vars == <<sequencing, flags, unusable, counters, stream, capacity, store,
          pending_byte_cap, pc, result, kept, deliveries>>

Results == {"NONE", "ACCEPTED", "BUFFERED", "IGNORED", "DROPPED"}
CounterNames == {"out_of_order", "retransmissions", "overlapping", "gaps"}
NoCounts == [c \in CounterNames |-> 0]
----------------------------------------------------------------------------
(* Serial-number arithmetic.                                               *)

payload_sequence(s) ==
    IF s.syn THEN (sequence(s) + 1) % SeqSpace ELSE sequence(s)

\* Mutant of sequence_before: a comparison that forgets the wrap.
PlainBefore(left, right) == left < right

\* (int32_t)(left - right) < 0
sequence_before(left, right) == (left - right) % SeqSpace >= HalfMod

sequence_before_or_equal(left, right) ==
    left = right \/ sequence_before(left, right)

SegmentEnd(seq, length) == (seq + length) % SeqSpace

\* Mutant of Trimmed: the overlap is not trimmed.
Untrimmed(data, n) == data

\* The part of data that is left after its first n bytes are trimmed.
Trimmed(data, n) == SubSeq(data, n + 1, Len(data))

Count(c, name) == [c EXCEPT ![name] = @ + 1]
----------------------------------------------------------------------------
(* The flow slot that holds the struct is zeroed when it is created.       *)
Init ==
    /\ next_sequence = 0 /\ initial_sequence_known = FALSE
    /\ fin_seen = FALSE /\ rst_seen = FALSE /\ unusable = FALSE
    /\ counters = NoCounts
    /\ stream = <<>> /\ capacity = 0
    /\ pending = <<>> /\ pending_bytes = 0 /\ pending_byte_cap = 0
    /\ pc = "idle" /\ result = "NONE" /\ kept = {} /\ deliveries = 0

\* memset of the whole struct, then size bytes for stream and pending data.
Reset(size) ==
    /\ next_sequence' = 0 /\ initial_sequence_known' = FALSE
    /\ fin_seen' = FALSE /\ rst_seen' = FALSE /\ unusable' = FALSE
    /\ counters' = NoCounts
    /\ stream' = <<>> /\ capacity' = size
    /\ pending' = <<>> /\ pending_bytes' = 0 /\ pending_byte_cap' = size
    /\ kept' = {}
    /\ UNCHANGED <<pc, result, deliveries>>

(* Called by flow_prepare_reassembly_direction while stream.data is NULL;  *)
(* the allocation may fail.                                                *)
DirectionInit ==
    /\ pc = "idle" /\ capacity = 0
    /\ Reset(BufferBytes) \/ Reset(0)

DirectionCleanup == pc = "idle" /\ Reset(0)

TrackFlags(s) ==
    /\ pc = "idle"
    /\ rst_seen' = (rst_seen \/ s.rst)
    /\ fin_seen' = (fin_seen \/ s.fin)
    /\ UNCHANGED <<sequencing, unusable, counters, stream, capacity, store,
                   pending_byte_cap, pc, result, kept, deliveries>>

\* Mutant of ReleaseBuffers: the direction becomes usable again.
ReleaseAndRevive ==
    /\ pc = "idle"
    /\ pending' = <<>> /\ pending_bytes' = 0
    /\ stream' = <<>> /\ capacity' = 0 /\ kept' = {}
    /\ unusable' = FALSE
    /\ UNCHANGED <<sequencing, flags, counters, pending_byte_cap,
                   pc, result, deliveries>>

(* The buffers go; sequencing, flags, unusable, counters and the pending   *)
(* byte cap stay.                                                          *)
ReleaseBuffers ==
    /\ pc = "idle"
    /\ pending' = <<>> /\ pending_bytes' = 0
    /\ stream' = <<>> /\ capacity' = 0
    /\ kept' = {}
    /\ UNCHANGED <<sequencing, flags, unusable, counters, pending_byte_cap,
                   pc, result, deliveries>>
----------------------------------------------------------------------------
(* process_segment. The branches below take n, next_sequence after the     *)
(* first segment seen has become the baseline.                             *)

Return(r) == pc' = "idle" /\ result' = r

\* Only a FIN that is next in order consumes its sequence number.
EmptySegment(s, n) ==
    /\ s.len = 0
    /\ next_sequence' = IF s.fin /\ n = payload_sequence(s)
                        THEN (n + 1) % SeqSpace ELSE n
    /\ Return("ACCEPTED")
    /\ UNCHANGED <<unusable, counters, stream, store, kept>>

Retransmission(s, n) ==
    /\ s.len > 0
    /\ sequence_before_or_equal(SegmentEnd(payload_sequence(s), s.len), n)
    /\ counters' = Count(counters, "retransmissions")
    /\ next_sequence' = n
    /\ Return("IGNORED")
    /\ UNCHANGED <<unusable, stream, store, kept>>

\* Mutant of PendingRoom: only the byte cap is tested.
ByteRoom(length) == length <= pending_byte_cap - pending_bytes

PendingRoom(length) ==
    /\ Len(pending) < MaxPending
    /\ length <= pending_byte_cap - pending_bytes

\* store_out_of_order_segment copies the payload; its malloc may fail.
OutOfOrder(s, n) ==
    /\ s.len > 0
    /\ ~sequence_before_or_equal(SegmentEnd(payload_sequence(s), s.len), n)
    /\ sequence_before(n, payload_sequence(s))
    /\ counters' = Count(Count(counters, "out_of_order"), "gaps")
    /\ next_sequence' = n
    /\ \/ /\ PendingRoom(s.len)
          /\ pending' = Append(pending, [sequence |-> payload_sequence(s),
                                         data |-> payload(s)])
          /\ pending_bytes' = pending_bytes + s.len
          /\ kept' = kept \cup ToSet(payload(s))
          /\ Return("BUFFERED")
       \/ /\ Return("DROPPED")   \* a cap is reached, or malloc fails
          /\ UNCHANGED <<store, kept>>
    /\ UNCHANGED <<unusable, stream>>

(* In order, or overlapping from the left: bytes already held win. A       *)
(* segment that does not fit leaves its head and ends the direction.       *)
InOrder(s, n) ==
    LET overlap == sequence_before(payload_sequence(s), n)
        trim == IF overlap THEN (n - payload_sequence(s)) % SeqSpace ELSE 0
        new == Trimmed(payload(s), trim)
        room == capacity - Len(stream)
        fits == Len(new) <= room
        end == SegmentEnd(n, Len(new))
    IN  /\ s.len > 0
        /\ ~sequence_before_or_equal(SegmentEnd(payload_sequence(s), s.len), n)
        /\ ~sequence_before(n, payload_sequence(s))
        /\ counters' = IF overlap THEN Count(counters, "overlapping") ELSE counters
        /\ \/ /\ fits
              /\ stream' = stream \o new
              /\ next_sequence' = IF s.fin THEN (end + 1) % SeqSpace ELSE end
              /\ pc' = "flush"
              /\ UNCHANGED <<unusable, result>>
           \/ /\ ~fits
              /\ stream' = stream \o SubSeq(new, 1, room)
              /\ unusable' = TRUE
              /\ next_sequence' = n
              /\ Return(IF room > 0 THEN "ACCEPTED" ELSE "DROPPED")
        /\ kept' = kept \cup ToSet(payload(s))
        /\ UNCHANGED store

\* Mutant of ProcessSegment: an unusable direction goes on taking segments.
ProcessAnySegment(s) ==
    LET n == IF initial_sequence_known THEN next_sequence ELSE payload_sequence(s)
    IN  /\ pc = "idle" /\ capacity > 0
        /\ deliveries < MaxDeliveries
        /\ deliveries' = deliveries + 1
        /\ rst_seen' = (rst_seen \/ s.rst)
        /\ fin_seen' = (fin_seen \/ s.fin)
        /\ initial_sequence_known' = TRUE
        /\ \/ EmptySegment(s, n)
           \/ Retransmission(s, n)
           \/ OutOfOrder(s, n)
           \/ InOrder(s, n)
        /\ UNCHANGED <<capacity, pending_byte_cap>>

ProcessSegment(s) ==
    LET n == IF initial_sequence_known THEN next_sequence ELSE payload_sequence(s)
    IN  /\ pc = "idle" /\ capacity > 0
        /\ ~unusable
        /\ deliveries < MaxDeliveries
        /\ deliveries' = deliveries + 1
        /\ rst_seen' = (rst_seen \/ s.rst)
        /\ fin_seen' = (fin_seen \/ s.fin)
        /\ initial_sequence_known' = TRUE
        /\ \/ EmptySegment(s, n)
           \/ Retransmission(s, n)
           \/ OutOfOrder(s, n)
           \/ InOrder(s, n)
        /\ UNCHANGED <<capacity, pending_byte_cap>>

\* An unusable direction refuses every segment before it looks at it.
DropUnusable ==
    /\ pc = "idle" /\ capacity > 0
    /\ unusable
    /\ Return("DROPPED")
    /\ UNCHANGED <<sequencing, flags, unusable, counters, stream, capacity,
                   store, pending_byte_cap, kept, deliveries>>
----------------------------------------------------------------------------
(* flush_pending_segments: one iteration of its outer loop per step.       *)

PendingEnd(i) == SegmentEnd(pending[i].sequence, Len(pending[i].data))
Stale(i) == sequence_before_or_equal(PendingEnd(i), next_sequence)
Ready(i) == Stale(i) \/ sequence_before_or_equal(pending[i].sequence, next_sequence)

FirstReady(i) == Ready(i) /\ \A j \in 1..(i - 1) : ~Ready(j)

\* Mutant of remove_pending_at: the bytes stay on the account.
RemoveUncharged(i) ==
    /\ pending' = RemoveAt(pending, i)
    /\ UNCHANGED pending_bytes

remove_pending_at(i) ==
    /\ pending' = RemoveAt(pending, i)
    /\ pending_bytes' = IF Len(pending[i].data) <= pending_bytes
                        THEN pending_bytes - Len(pending[i].data) ELSE 0

\* Mutant of FlushStale: the scan restarts without removing the segment.
RestartOnly(i) ==
    /\ Stale(i)
    /\ UNCHANGED <<counters, store, next_sequence, unusable, stream, pc, result>>

FlushStale(i) ==
    /\ Stale(i)
    /\ counters' = Count(counters, "retransmissions")
    /\ remove_pending_at(i)
    /\ UNCHANGED <<next_sequence, unusable, stream, pc, result>>

FlushAppend(i) ==
    LET trim == (next_sequence - pending[i].sequence) % SeqSpace
        new == Trimmed(pending[i].data, trim)
    IN  /\ ~Stale(i)
        /\ counters' = IF trim > 0 THEN Count(counters, "overlapping") ELSE counters
        /\ \/ /\ Len(new) <= capacity - Len(stream)
              /\ stream' = stream \o new
              /\ next_sequence' = PendingEnd(i)
              /\ remove_pending_at(i)
              /\ UNCHANGED <<unusable, pc, result>>
           \/ /\ Len(new) > capacity - Len(stream)
              /\ unusable' = TRUE
              /\ Return("DROPPED")
              /\ UNCHANGED <<next_sequence, stream, store>>

FlushStep ==
    /\ pc = "flush"
    /\ \E i \in 1..Len(pending) : FirstReady(i) /\ (FlushStale(i) \/ FlushAppend(i))
    /\ UNCHANGED <<initial_sequence_known, flags, capacity, pending_byte_cap,
                   kept, deliveries>>

\* Mutant of FlushDone: the loop may stop before the fixpoint.
FlushStopsEarly ==
    /\ pc = "flush"
    /\ Return("ACCEPTED")
    /\ UNCHANGED <<sequencing, flags, unusable, counters, stream, capacity,
                   store, pending_byte_cap, kept, deliveries>>

FlushDone ==
    /\ pc = "flush"
    /\ \A i \in 1..Len(pending) : ~Ready(i)
    /\ Return("ACCEPTED")
    /\ UNCHANGED <<sequencing, flags, unusable, counters, stream, capacity,
                   store, pending_byte_cap, kept, deliveries>>

flush_pending_segments == FlushStep \/ FlushDone
----------------------------------------------------------------------------
Next ==
    \/ DirectionInit
    \/ DirectionCleanup
    \/ ReleaseBuffers
    \/ DropUnusable
    \/ flush_pending_segments
    \/ \E s \in Segments : TrackFlags(s) \/ ProcessSegment(s)

(* A call that has started returns: the loop is ordinary sequential code.  *)
Spec == Init /\ [][Next]_vars /\ WF_vars(flush_pending_segments)
----------------------------------------------------------------------------
(* Types.                                                                  *)
PendingType == [sequence : 0..(SeqSpace - 1), data : Seq(0..StreamLen)]

(* The struct's fields keep their types: sequence numbers are 32-bit, the  *)
(* stream never outgrows the allocation and the pending array never has    *)
(* more than its fixed number of entries.                                  *)
TypeOK ==
    /\ next_sequence \in 0..(SeqSpace - 1)
    /\ initial_sequence_known \in BOOLEAN /\ unusable \in BOOLEAN
    /\ fin_seen \in BOOLEAN /\ rst_seen \in BOOLEAN
    /\ counters \in [CounterNames -> Nat]
    /\ stream \in Seq(0..StreamLen) /\ Len(stream) <= capacity
    /\ capacity \in {0, BufferBytes} /\ pending_byte_cap \in {0, BufferBytes}
    /\ pending \in Seq(PendingType) /\ Len(pending) <= MaxPending
    /\ pending_bytes \in Int
    /\ pc \in {"idle", "flush"} /\ result \in Results
    /\ kept \subseteq 0..StreamLen
    /\ deliveries \in 0..MaxDeliveries

IsRun(s) == \A i \in 1..Len(s) : s[i] = s[1] + i - 1

(* The bytes handed to decoders are consecutive bytes of the sender's      *)
(* stream, whatever the order, duplication and overlap of the segments and *)
(* wherever sequence numbers wrap: process_segment and the flush loop      *)
(* never skip, repeat or splice a byte.                                    *)
StreamContiguous == IsRun(stream)

(* flush_pending_segments runs to a fixpoint: when a call has returned and *)
(* the direction is usable, no pending segment touches the next byte       *)
(* expected, so everything stored is still waiting for a real gap.         *)
PendingBeyondGap ==
    pc = "idle" /\ ~unusable => \A i \in 1..Len(pending) : ~Ready(i)

(* While a direction is usable its stream is exactly the longest           *)
(* uninterrupted run, from its first byte, of the bytes process_segment    *)
(* has reported as ACCEPTED or BUFFERED: a byte acknowledged to the caller *)
(* is never lost in the pending store and none is delivered early.         *)
StreamIsLongestRun ==
    pc = "idle" /\ ~unusable /\ stream # <<>> =>
        ToSet(stream) = {p \in kept : stream[1]..p \subseteq kept /\ p >= stream[1]}

PendingTotal == SumSeq([i \in 1..Len(pending) |-> Len(pending[i].data)])

(* pending_bytes, adjusted in three functions, always equals the payload   *)
(* bytes the pending array owns, and stays within the direction's cap; and *)
(* no pending copy outlives its stream, so that the memset of a later      *)
(* direction_init never leaks one.                                         *)
PendingAccounting ==
    /\ pending_bytes = PendingTotal /\ pending_bytes <= pending_byte_cap
    /\ capacity = 0 => pending = <<>> /\ stream = <<>>

(* The strengthening that makes StreamContiguous inductive. Pending        *)
(* segments are runs labelled with the sequence number of their first      *)
(* byte; next_sequence stands for the position just after the stream, or   *)
(* for the one after the FIN once the stream holds everything sent; the    *)
(* flush loop only runs on a usable, sequenced direction.                  *)
Position == 0..(StreamLen + 1)

PendingLabelled ==
    \A i \in 1..Len(pending) :
        /\ Len(pending[i].data) >= 1
        /\ IsRun(pending[i].data)
        /\ pending[i].data[1] + Len(pending[i].data) <= StreamLen
        /\ pending[i].sequence = Wire(pending[i].data[1])

\* m is the sequence number of position n and n continues the stream.
Continues(m, n) ==
    /\ m = Wire(n)
    /\ stream # <<>> =>
          \/ n = stream[Len(stream)] + 1
          \/ n = StreamLen + 1 /\ stream[Len(stream)] = StreamLen - 1

Sequencing ==
    /\ ~initial_sequence_known => stream = <<>> /\ pending = <<>>
    /\ initial_sequence_known /\ ~unusable =>
           \E n \in Position : Continues(next_sequence, n)

FlushContext == pc = "flush" => initial_sequence_known /\ ~unusable

IInv == /\ TypeOK /\ StreamContiguous /\ PendingLabelled
        /\ Sequencing /\ FlushContext

(* A decoder sees an in-order stream: the direction implements             *)
(* InOrderStream, so once it is unusable its bytes never change again and  *)
(* before that they only grow at the end.                                  *)
Reader == INSTANCE InOrderStream
              WITH Capacity <- BufferBytes, out <- stream, open <- ~unusable
ReaderSpec == Reader!Spec

(* The restart-the-scan loop of flush_pending_segments terminates.         *)
FlushTerminates == pc = "flush" ~> pc = "idle"
============================================================================
