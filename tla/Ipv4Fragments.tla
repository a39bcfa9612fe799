--------------------------- MODULE Ipv4Fragments ---------------------------
(***************************************************************************)
(* The IPv4 fragment table of src/ipv4_frag.c.                             *)
(*                                                                         *)
(* A payload byte is the datagram it was sent in and its position there,   *)
(* or Zero where ensure_capacity cleared memory no fragment has filled.    *)
(* Fragments arrive in any order, any number of times; the network may     *)
(* lose or refragment them, the capture may cut them short, and a key may  *)
(* be used for a second datagram while fragments of the first are around.  *)
(*                                                                         *)
(* A call of ipv4_fragment_table_process starts in Receive and ends when   *)
(* pc is "idle" again; the expiry loop removes one datagram per step.      *)
(* fragment_is_malformed keeps the tests that parser.c:440-460 does not    *)
(* already guarantee.                                                      *)
(***************************************************************************)
EXTENDS Integers, Sequences, SequencesExt, FiniteSetsExt, Sums

CONSTANTS
    Traffics,       \* each a set of fragments one capture may see
    Unit,           \* fragment offsets count in units of 8 bytes
    MaxTotal,       \* IPV4_MAX_TOTAL_LENGTH
    MaxDatagrams,   \* max_datagrams
    MaxBytes,       \* max_bytes
    MaxRanges,      \* MINISNIFFER_IPV4_FRAGMENT_MAX_RANGES
    Timeout,        \* timeout_seconds; 0 turns expiry off
    MallocMayFail,  \* whether realloc and malloc may return NULL
    MaxFragments    \* bound: fragments processed

(* key stands for addresses, protocol and identification; sent names the   *)
(* datagram the fragment was cut from, which the code cannot see.          *)
FragmentType ==
    [key : Nat, sent : Nat \ {0}, offset : Nat, length : Nat, more : BOOLEAN,
     header_length : Nat \ {0}, time : Nat]

ASSUME FragmentAssumption ==
    /\ Traffics \subseteq SUBSET FragmentType
    /\ \A f \in UNION Traffics : f.offset % Unit = 0 /\ (f.more \/ f.offset > 0)
    /\ Unit \in Nat \ {0} /\ MaxTotal \in Nat /\ Timeout \in Nat
    /\ MaxDatagrams \in Nat \ {0} /\ MaxBytes \in Nat \ {0}
    /\ MaxRanges \in Nat \ {0} /\ MaxFragments \in Nat
    /\ MallocMayFail \in BOOLEAN

VARIABLES
    datagrams,      \* datagrams[0 .. count-1]
    used_bytes,
    stats,          \* the ipv4_fragments_* counters of PacketStats
    pc, fragment,   \* the step the call has reached, and for which fragment
    result,         \* the last IPv4FragmentProcessResult
    traffic,        \* the fragments around in this capture
    clock, jumped,  \* history: the last fragment's time; whether time ran back
    processed       \* fragments processed, bounded by MaxFragments

vars == <<datagrams, used_bytes, stats, pc, fragment, result, traffic, clock, jumped, processed>>
network == <<traffic, clock, jumped, processed>>

Zero == [sent |-> 0, pos |-> 0]
Byte(f, p) == [sent |-> f.sent, pos |-> p]
NoFragment == [key |-> 0, sent |-> 1, offset |-> 0, length |-> 0, more |-> TRUE,
               header_length |-> 1, time |-> 0]
Counters == {"seen", "reassembled", "expired", "malformed", "dropped"}

\* A result without a packet, and one with a rebuilt datagram.
Only(r) == [result |-> r, header_offset |-> 0, payload |-> <<>>]
Built(d) == [result |-> "REASSEMBLED", header_offset |-> d.header_offset,
             payload |-> SubSeq(d.data, 1, d.total_payload_length)]

Counted(name) == [stats EXCEPT ![name] = @ + 1]
----------------------------------------------------------------------------
(* Operations on one datagram. header_offset is the offset of the fragment *)
(* whose IP header is kept; Len(data) is data_capacity.                    *)

NewDatagram(f) ==
    [key |-> f.key, last_seen_time |-> f.time,
     header_length |-> f.header_length, header_offset |-> f.offset,
     data |-> <<>>, has_last_fragment |-> FALSE, total_payload_length |-> 0,
     ranges |-> <<>>]

End(f) == f.offset + f.length

fragment_is_malformed(f) ==
    \/ f.more /\ f.length % Unit # 0
    \/ f.length = 0
    \/ End(f) + f.header_length > MaxTotal

\* The first fragment's header is the authoritative one.
AdoptHeader(d, f) ==
    IF f.offset = 0
    THEN [d EXCEPT !.header_length = f.header_length, !.header_offset = 0]
    ELSE d

range_overlaps(d, start, end) ==
    \E i \in 1..Len(d.ranges) : start < d.ranges[i].end /\ end > d.ranges[i].start

\* Mutant of add_range: ranges are kept in arrival order.
AppendRange(d, start, end) ==
    [d EXCEPT !.ranges = Append(@, [start |-> start, end |-> end])]

\* Insertion sort: just behind the last range that starts no later.
add_range(d, start, end) ==
    LET at == 1 + Max({0} \cup {i \in 1..Len(d.ranges) : d.ranges[i].start <= start})
    IN  [d EXCEPT !.ranges = InsertAt(@, at, [start |-> start, end |-> end])]

\* Mutant of coverage_is_complete: holes are not looked for.
LastSeen(d) ==
    /\ d.has_last_fragment /\ d.total_payload_length # 0
    /\ \E n \in 1..Len(d.ranges) : d.ranges[n].end = d.total_payload_length

coverage_is_complete(d) ==
    /\ d.has_last_fragment /\ d.total_payload_length # 0
    /\ \E n \in 1..Len(d.ranges) :
          /\ \A i \in 1..n : d.ranges[i].start = IF i = 1 THEN 0 ELSE d.ranges[i - 1].end
          /\ d.ranges[n].end = d.total_payload_length
          /\ \A i \in 1..(n - 1) : d.ranges[i].end < d.total_payload_length

\* ensure_capacity: the bytes it would add, and whether the budget allows them.
Additional(d, f) == IF End(f) <= Len(d.data) THEN 0 ELSE End(f) - Len(d.data)
BudgetAllows(n) == n = 0 \/ (n <= MaxBytes /\ used_bytes <= MaxBytes - n)

\* The grown and cleared buffer with the fragment's payload copied in.
Filled(d, f) ==
    [d EXCEPT !.data =
        [p \in 1..(Len(@) + Additional(d, f)) |->
            IF p \in (f.offset + 1)..End(f) THEN Byte(f, p - 1)
            ELSE IF p <= Len(@) THEN @[p] ELSE Zero]]

NoteLast(d, f) ==
    IF f.more THEN d
    ELSE [d EXCEPT !.has_last_fragment = TRUE, !.total_payload_length = End(f)]
----------------------------------------------------------------------------
Init ==
    /\ datagrams = <<>> /\ used_bytes = 0
    /\ stats = [c \in Counters |-> 0]
    /\ pc = "idle" /\ fragment = NoFragment
    /\ result = Only("IGNORED")
    /\ traffic \in Traffics
    /\ clock = 0 /\ jumped = FALSE /\ processed = 0

Receive(f) ==
    /\ pc = "idle" /\ processed < MaxFragments
    /\ clock' = f.time /\ jumped' = (jumped \/ f.time < clock)
    /\ processed' = processed + 1
    /\ fragment' = f
    /\ stats' = Counted("seen")
    /\ pc' = "expire"
    /\ UNCHANGED <<datagrams, used_bytes, result, traffic>>

Release(used, bytes) == IF used >= bytes THEN used - bytes ELSE 0

remove_datagram_at(i, used, bytes) ==
    /\ used_bytes' = Release(used, bytes)
    /\ datagrams' = RemoveAt(datagrams, i)

\* A clock that went backwards counts as no idle time at all.
IdleSeconds(d, now) == IF now >= d.last_seen_time THEN now - d.last_seen_time ELSE 0
\* Mutant of Expired: a datagram silent for exactly the timeout stays.
ExpiredLater(now) ==
    {i \in 1..Len(datagrams) : Timeout # 0 /\ IdleSeconds(datagrams[i], now) > Timeout}

Expired(now) ==
    {i \in 1..Len(datagrams) : Timeout # 0 /\ IdleSeconds(datagrams[i], now) >= Timeout}

expire ==
    /\ pc = "expire"
    /\ \/ \E i \in Expired(fragment.time) :
             /\ \A j \in Expired(fragment.time) : i <= j
             /\ stats' = Counted("expired")
             /\ remove_datagram_at(i, used_bytes, Len(datagrams[i].data))
             /\ UNCHANGED pc
       \/ /\ Expired(fragment.time) = {}
          /\ pc' = "process"
          /\ UNCHANGED <<datagrams, used_bytes, stats>>
    /\ UNCHANGED <<fragment, result, network>>

Return(r, counter) ==
    /\ result' = r
    /\ stats' = Counted(counter)
    /\ pc' = "idle"
    /\ fragment' = NoFragment
    /\ UNCHANGED network

Malformed ==
    /\ pc = "process" /\ fragment_is_malformed(fragment)
    /\ Return(Only("MALFORMED"), "malformed")
    /\ UNCHANGED <<datagrams, used_bytes>>

find_datagram(key) == {i \in 1..Len(datagrams) : datagrams[i].key = key}

Unknown == /\ pc = "process" /\ ~fragment_is_malformed(fragment)
           /\ find_datagram(fragment.key) = {}

TableFull ==
    /\ Unknown /\ Len(datagrams) >= MaxDatagrams
    /\ Return(Only("DROPPED"), "dropped")
    /\ UNCHANGED <<datagrams, used_bytes>>

create_datagram ==
    /\ Unknown /\ Len(datagrams) < MaxDatagrams
    /\ datagrams' = Append(datagrams, NewDatagram(fragment))
    /\ UNCHANGED <<used_bytes, stats, pc, fragment, result, network>>

----------------------------------------------------------------------------
(* The datagram is known, at index i.                                      *)

Known(i) == /\ pc = "process" /\ ~fragment_is_malformed(fragment)
            /\ i \in find_datagram(fragment.key)

Touched(i) ==
    [AdoptHeader(datagrams[i], fragment) EXCEPT !.last_seen_time = fragment.time]

Whole(i) ==
    NoteLast(Filled(add_range(Touched(i), fragment.offset, End(fragment)), fragment), fragment)

Conflict(i) ==
    \/ range_overlaps(datagrams[i], fragment.offset, End(fragment))
    \/ Len(datagrams[i].ranges) >= MaxRanges

Growth(i) == Additional(datagrams[i], fragment)
Stored(i) == Known(i) /\ ~Conflict(i) /\ BudgetAllows(Growth(i))
TooLong(d) == d.header_length + d.total_payload_length > MaxTotal

\* Overlapping fragments, or more than MaxRanges, invalidate the datagram.
Invalidate(i) ==
    /\ Known(i) /\ Conflict(i)
    /\ remove_datagram_at(i, used_bytes, Len(datagrams[i].data))
    /\ Return(Only("MALFORMED"), "malformed")

GiveUp(i) ==
    /\ Known(i) /\ ~Conflict(i)
    /\ ~BudgetAllows(Growth(i)) \/ (MallocMayFail /\ Growth(i) > 0)
    /\ remove_datagram_at(i, used_bytes, Len(datagrams[i].data))
    /\ Return(Only("DROPPED"), "dropped")

Queue(i) ==
    /\ Stored(i) /\ ~coverage_is_complete(Whole(i))
    /\ datagrams' = [datagrams EXCEPT ![i] = Whole(i)]
    /\ used_bytes' = used_bytes + Growth(i)
    /\ result' = Only("QUEUED") /\ pc' = "idle" /\ fragment' = NoFragment
    /\ UNCHANGED <<stats, network>>

\* Mutant of Reassemble: the capacity refunded is the one before the growth.
RefundBeforeGrowth(i) ==
    /\ Stored(i) /\ coverage_is_complete(Whole(i)) /\ ~TooLong(Whole(i))
    /\ remove_datagram_at(i, used_bytes + Growth(i), Len(datagrams[i].data))
    /\ Return(Built(Whole(i)), "reassembled")

Reassemble(i) ==
    /\ Stored(i) /\ coverage_is_complete(Whole(i)) /\ ~TooLong(Whole(i))
    /\ remove_datagram_at(i, used_bytes + Growth(i), Len(Whole(i).data))
    /\ Return(Built(Whole(i)), "reassembled")

BuildFails(i) ==
    /\ Stored(i) /\ coverage_is_complete(Whole(i))
    /\ TooLong(Whole(i)) \/ MallocMayFail
    /\ remove_datagram_at(i, used_bytes + Growth(i), Len(Whole(i).data))
    /\ Return(Only("DROPPED"), "dropped")

AddFragment ==
    \E i \in 1..Len(datagrams) :
        Invalidate(i) \/ GiveUp(i) \/ Queue(i) \/ Reassemble(i) \/ BuildFails(i)

Process == expire \/ Malformed \/ TableFull \/ create_datagram \/ AddFragment

\* The capture ends: every buffer is freed and the table cleared.
table_cleanup ==
    /\ pc = "idle"
    /\ datagrams' = <<>> /\ used_bytes' = 0
    /\ pc' = "done"
    /\ UNCHANGED <<stats, fragment, result, network>>

Finished == pc = "done" /\ UNCHANGED vars

Next == \/ \E f \in traffic : Receive(f)
        \/ Process
        \/ table_cleanup
        \/ Finished

Spec == Init /\ [][Next]_vars
----------------------------------------------------------------------------
(* used_bytes, charged on growth and refunded on six removal paths, is     *)
(* always the memory the datagrams in the table own: no path leaks budget, *)
(* which would in the end refuse every fragment. Table, range arrays and   *)
(* memory stay within their caps, and a key has one datagram at most.      *)
BytesAccounted ==
    /\ used_bytes = SumSeq([i \in 1..Len(datagrams) |-> Len(datagrams[i].data)])
    /\ used_bytes <= MaxBytes /\ Len(datagrams) <= MaxDatagrams
    /\ \A i, j \in 1..Len(datagrams) :
          /\ Len(datagrams[i].ranges) <= MaxRanges
          /\ datagrams[i].key = datagrams[j].key => i = j

(* The ranges of a datagram are its filled bytes: sorted, disjoint, within *)
(* the buffer, and a byte outside them still has the value of the clearing *)
(* memset.                                                                 *)
RangesDescribeData ==
    \A i \in 1..Len(datagrams) :
        LET d == datagrams[i]
            In(p, r) == r.start < p /\ p <= r.end
        IN  /\ \A m, n \in 1..Len(d.ranges) :
                  m < n => d.ranges[m].end <= d.ranges[n].start
            /\ \A n \in 1..Len(d.ranges) :
                  d.ranges[n].start < d.ranges[n].end /\ d.ranges[n].end <= Len(d.data)
            /\ \A p \in 1..Len(d.data) :
                  d.data[p] = Zero <=> ~\E n \in 1..Len(d.ranges) : In(p, d.ranges[n])

(* A rebuilt datagram is made of received bytes only: no byte is left from *)
(* the clearing memset, each sits at the position it was sent at, and the  *)
(* IP header is the one of the first fragment, whatever the arrival order, *)
(* even if last fragments disagree or a key is reused.                     *)
RebuiltFromFragments ==
    result.result = "REASSEMBLED" =>
        /\ result.payload # <<>>
        /\ \A p \in 1..Len(result.payload) :
              result.payload[p] # Zero /\ result.payload[p].pos = p - 1
        /\ result.header_offset = 0

(* The senders are well behaved: a key is reused only when its previous    *)
(* user has been silent for the timeout, by a clock that has not run       *)
(* backwards.                                                              *)
WellBehaved ==
    /\ ~jumped
    /\ \A f, g \in traffic :
          f.key = g.key /\ f.sent # g.sent =>
              Timeout # 0 /\ (f.time >= g.time + Timeout \/ g.time >= f.time + Timeout)

(* Then a rebuilt datagram is one that was sent, complete and unmixed:     *)
(* expiry before the lookup keeps leftovers of an older datagram with the  *)
(* same identification out of it.                                          *)
RebuiltIsSent ==
    WellBehaved /\ result.result = "REASSEMBLED" =>
        \E f \in traffic :
            /\ ~f.more
            /\ result.payload = [p \in 1..End(f) |-> Byte(f, p - 1)]
============================================================================
