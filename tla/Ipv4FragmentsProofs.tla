------------------------ MODULE Ipv4FragmentsProofs ------------------------
(***************************************************************************)
(* Proofs about Ipv4Fragments, for every traffic, every size of the table, *)
(* of the budget and of the range arrays, and any number of fragments. The *)
(* first part is about one datagram and one fragment: what add_range,      *)
(* ensure_capacity and the copy leave of it. The second follows the table  *)
(* through the steps of ipv4_fragment_table_process.                       *)
(***************************************************************************)
EXTENDS Ipv4Fragments, SequenceLemmas, TLAPS

RangeType == [start : Nat, end : Nat]
ByteType == [sent : Nat, pos : Nat]
DatagramType ==
    [key : Nat, last_seen_time : Nat, header_length : Nat, header_offset : Nat,
     data : Seq(ByteType), has_last_fragment : BOOLEAN, total_payload_length : Nat,
     ranges : Seq(RangeType)]

(* What RangesDescribeData says of one datagram, in two parts.             *)
Sorted(rs, cap) ==
    /\ \A m, n \in 1..Len(rs) : m < n => rs[m].end <= rs[n].start
    /\ \A n \in 1..Len(rs) : rs[n].start < rs[n].end /\ rs[n].end <= cap

Covers(rs, p) == \E n \in 1..Len(rs) : rs[n].start < p /\ p <= rs[n].end
Filling(rs, data) == \A p \in 1..Len(data) : data[p] = Zero <=> ~Covers(rs, p)

(* A byte that arrived is where it was sent, and the header kept is that   *)
(* of the first fragment once it is there.                                 *)
Placed(data) == \A p \in 1..Len(data) : data[p] # Zero => data[p].pos = p - 1
HeaderKept(d) == (\E n \in 1..Len(d.ranges) : d.ranges[n].start = 0) => d.header_offset = 0

Sound(d) ==
    /\ Sorted(d.ranges, Len(d.data)) /\ Filling(d.ranges, d.data)
    /\ Placed(d.data) /\ HeaderKept(d)
----------------------------------------------------------------------------
(* A set of numbers up to n that holds zero has a largest element, which   *)
(* is what Max picks.                                                      *)
LEMMA MaxFacts ==
    ASSUME NEW n \in Nat, NEW S \in SUBSET (0..n), 0 \in S
    PROVE  Max(S) \in S /\ \A x \in S : x <= Max(S)
<1> DEFINE T == {n - x : x \in S}
<1>1. T \in SUBSET Nat /\ T # {}
    OBVIOUS
<1>2. PICK t \in T : \A u \in T : t <= u
    BY <1>1, LeastNumber
<1>3. PICK x \in S : t = n - x
    OBVIOUS
<1>4. ASSUME NEW y \in S PROVE x >= y
    <2>1. n - y \in T
        OBVIOUS
    <2>2. n - x <= n - y /\ x \in 0..n /\ y \in 0..n
        BY <1>2, <1>3, <2>1
    <2> QED
        BY <2>2
<1>5. \E z \in S : \A y \in S : z >= y
    BY <1>4
<1>6. Max(S) \in S /\ \A y \in S : Max(S) >= y
    BY <1>5 DEF Max
<1>7. \A y \in S : y \in Int /\ Max(S) \in Int
    BY <1>6
<1> QED
    BY <1>6, <1>7

(* add_range puts a range that overlaps none of the sorted ranges between  *)
(* those that end before it and those that begin after it.                 *)
InsertPoint(rs, start) == 1 + Max({0} \cup {i \in 1..Len(rs) : rs[i].start <= start})

(* The sorted insertion of add_range: for a range that overlaps no stored  *)
(* one, the stored ranges before the insertion point end before it starts  *)
(* and the ones from there on start after it ends.                         *)
LEMMA InsertPointFacts ==
    ASSUME NEW rs \in Seq(RangeType), NEW cap \in Nat, Sorted(rs, cap),
           NEW start \in Nat, NEW end \in Nat, start < end,
           \A i \in 1..Len(rs) : ~(start < rs[i].end /\ end > rs[i].start)
    PROVE  /\ InsertPoint(rs, start) \in 1..(Len(rs) + 1)
           /\ \A j \in 1..Len(rs) :
                 IF j < InsertPoint(rs, start) THEN rs[j].end <= start ELSE end <= rs[j].start
<1> DEFINE S == {0} \cup {i \in 1..Len(rs) : rs[i].start <= start}
           m == Max(S)
<1>1. Len(rs) \in Nat /\ S \in SUBSET (0..Len(rs)) /\ 0 \in S
    OBVIOUS
<1>2. m \in S /\ \A x \in S : x <= m
    <2> HIDE DEF S
    <2> QED
        BY <1>1, MaxFacts
<1>3. InsertPoint(rs, start) = 1 + m
    BY DEF InsertPoint
<1> HIDE DEF m
<1>4. m \in 0..Len(rs)
    BY <1>1, <1>2
<1>5. ASSUME NEW j \in 1..Len(rs)
      PROVE  /\ rs[j].start \in Nat /\ rs[j].end \in Nat /\ rs[j].start < rs[j].end
             /\ rs[j].end <= start \/ end <= rs[j].start
    <2>1. rs[j] \in RangeType
        OBVIOUS
    <2>2. rs[j].start \in Nat /\ rs[j].end \in Nat
        BY <2>1 DEF RangeType
    <2>3. rs[j].start < rs[j].end /\ ~(start < rs[j].end /\ end > rs[j].start)
        BY DEF Sorted
    <2> QED
        BY <2>2, <2>3
<1>6. ASSUME NEW j \in 1..Len(rs), j < 1 + m
      PROVE  rs[j].end <= start
    <2>1. m \in 1..Len(rs) /\ rs[m].start <= start
        BY <1>2, <1>4, <1>6
    <2>2. rs[j].start <= start
        <3>1. CASE j = m
            BY <2>1, <3>1
        <3>2. CASE j # m
            <4>1. rs[j].end <= rs[m].start
                BY <1>4, <1>6, <2>1, <3>2 DEF Sorted
            <4> QED
                BY <1>5, <2>1, <4>1
        <3> QED
            BY <3>1, <3>2
    <2> QED
        BY <1>5, <2>2
<1>7. ASSUME NEW j \in 1..Len(rs), ~(j < 1 + m)
      PROVE  end <= rs[j].start
    <2>1. j \notin S
        BY <1>2, <1>4, <1>7
    <2>2. ~(rs[j].start <= start)
        BY <2>1
    <2> QED
        BY <1>5, <2>2
<1> QED
    BY <1>3, <1>4, <1>6, <1>7

(* ts is rs with the range from start to end in its place.                 *)
Inserted(rs, ts, start, end, cap) ==
    /\ ts \in Seq(RangeType) /\ Len(ts) = Len(rs) + 1
    /\ Sorted(ts, cap)
    /\ \A p \in Nat : Covers(ts, p) <=> Covers(rs, p) \/ (start < p /\ p <= end)
    /\ \A n \in 1..Len(ts) : ts[n].start = start \/ \E m \in 1..Len(rs) : ts[n] = rs[m]

(* The inserted range leaves the ranges sorted, within the grown buffer.   *)
LEMMA InsertSorted ==
    ASSUME NEW rs \in Seq(RangeType), NEW cap \in Nat, Sorted(rs, cap),
           NEW start \in Nat, NEW end \in Nat, start < end,
           NEW k \in 1..(Len(rs) + 1),
           \A j \in 1..Len(rs) : IF j < k THEN rs[j].end <= start ELSE end <= rs[j].start,
           NEW cap2 \in Nat, cap <= cap2, end <= cap2,
           NEW ts, ts = InsertAt(rs, k, [start |-> start, end |-> end])
    PROVE  Inserted(rs, ts, start, end, cap2)
<1> DEFINE r == [start |-> start, end |-> end]
<1>1. r \in RangeType /\ r.start = start /\ r.end = end
    BY DEF RangeType
<1> HIDE DEF r
<1>2. /\ ts \in Seq(RangeType) /\ Len(ts) = Len(rs) + 1 /\ Len(rs) \in Nat
      /\ \A j \in 1..(Len(rs) + 1) :
            ts[j] = IF j < k THEN rs[j] ELSE IF j = k THEN r ELSE rs[j - 1]
    <2>1. ts = InsertAt(rs, k, r)
        BY DEF r
    <2>2. /\ InsertAt(rs, k, r) \in Seq(RangeType)
          /\ Len(InsertAt(rs, k, r)) = Len(rs) + 1
          /\ \A j \in 1..(Len(rs) + 1) :
                InsertAt(rs, k, r)[j] = IF j < k THEN rs[j]
                                        ELSE IF j = k THEN r ELSE rs[j - 1]
        BY <1>1, InsertAtElements
    <2>3. Len(rs) \in Nat
        OBVIOUS
    <2> HIDE DEF InsertAt
    <2> QED
        BY <2>1, <2>2, <2>3
<1>3. ASSUME NEW j \in 1..Len(rs)
      PROVE  /\ rs[j].start \in Nat /\ rs[j].end \in Nat
             /\ rs[j].start < rs[j].end /\ rs[j].end <= cap2
    <2>0. rs[j] \in RangeType
        OBVIOUS
    <2>1. rs[j].start \in Nat /\ rs[j].end \in Nat
        BY <2>0 DEF RangeType
    <2>2. rs[j].start < rs[j].end /\ rs[j].end <= cap
        BY DEF Sorted
    <2> QED
        BY <2>1, <2>2
<1>4. \A j \in 1..Len(ts) :
          \/ j < k /\ j \in 1..Len(rs) /\ ts[j] = rs[j]
          \/ j = k /\ ts[j] = r
          \/ j > k /\ j - 1 \in 1..Len(rs) /\ j - 1 >= k /\ ts[j] = rs[j - 1]
    BY <1>2
<1>5. \A n \in 1..Len(ts) : ts[n].start < ts[n].end /\ ts[n].end <= cap2
    BY <1>1, <1>3, <1>4
<1>6. ASSUME NEW m \in 1..Len(ts), NEW n \in 1..Len(ts), m < n
      PROVE  ts[m].end <= ts[n].start
    <2>1. CASE m < k /\ n < k
        <3>1. /\ m \in 1..Len(rs) /\ ts[m] = rs[m]
              /\ n \in 1..Len(rs) /\ ts[n] = rs[n]
            BY <1>4, <2>1
        <3> QED
            BY <1>6, <3>1 DEF Sorted
    <2>2. CASE m < k /\ n = k
        BY <1>1, <1>4, <2>2
    <2>3. CASE m < k /\ n > k
        <3>1. /\ m \in 1..Len(rs) /\ ts[m] = rs[m]
              /\ n - 1 \in 1..Len(rs) /\ ts[n] = rs[n - 1] /\ m < n - 1
            BY <1>4, <2>3
        <3> QED
            BY <3>1 DEF Sorted
    <2>4. CASE m = k /\ n > k
        <3>1. n - 1 \in 1..Len(rs) /\ ~(n - 1 < k) /\ ts[n] = rs[n - 1] /\ ts[m] = r
            BY <1>4, <2>4
        <3> QED
            BY <1>1, <3>1
    <2>5. CASE m > k /\ n > k
        <3>1. /\ m - 1 \in 1..Len(rs) /\ ts[m] = rs[m - 1]
              /\ n - 1 \in 1..Len(rs) /\ ts[n] = rs[n - 1] /\ m - 1 < n - 1
            BY <1>4, <1>6, <2>5
        <3> QED
            BY <3>1 DEF Sorted
    <2> QED
        BY <1>6, <2>1, <2>2, <2>3, <2>4, <2>5
<1>7. Sorted(ts, cap2)
    BY <1>5, <1>6 DEF Sorted
<1>8. \A n \in 1..Len(ts) : ts[n] = r \/ \E m \in 1..Len(rs) : ts[n] = rs[m]
    BY <1>4
<1>9. \A m \in 1..Len(rs) : \E n \in 1..Len(ts) : ts[n] = rs[m]
    <2> TAKE m \in 1..Len(rs)
    <2>1. CASE m < k
        <3>1. m \in 1..Len(ts) /\ ts[m] = rs[m]
            BY <1>2, <2>1
        <3> QED
            BY <3>1
    <2>2. CASE m >= k
        <3> DEFINE n == m + 1
        <3>1. n \in 1..(Len(rs) + 1) /\ ~(n < k) /\ n # k /\ n - 1 = m
            BY <2>2
        <3> HIDE DEF n
        <3>2. n \in 1..Len(ts) /\ ts[n] = rs[n - 1]
            BY <1>2, <3>1
        <3> QED
            BY <3>1, <3>2
    <2> QED
        BY <2>1, <2>2
<1>10. k \in 1..Len(ts) /\ ts[k] = r
    BY <1>2
<1>11. \A p \in Nat : Covers(ts, p) <=> Covers(rs, p) \/ (start < p /\ p <= end)
    BY ZenonT(40), <1>1, <1>8, <1>9, <1>10 DEF Covers
<1> QED
    BY <1>1, <1>2, <1>7, <1>8, <1>11 DEF Inserted
----------------------------------------------------------------------------
(* The datagram D with the fragment f stored in it.                        *)
WholeOf(D, f) ==
    NoteLast(Filled(add_range([AdoptHeader(D, f) EXCEPT !.last_seen_time = f.time],
                              f.offset, End(f)), f), f)

(* What a fragment does to its datagram depends on the stored datagram and *)
(* the fragment alone.                                                     *)
LEMMA WholeIs ==
    ASSUME NEW i
    PROVE  Whole(i) = WholeOf(datagrams[i], fragment)
BY DEF Whole, Touched, WholeOf

(* The buffer after ensure_capacity and the copy.                          *)
Buffer(D, f) ==
    [p \in 1..(Len(D.data) + Additional(D, f)) |->
        IF p \in (f.offset + 1)..End(f) THEN Byte(f, p - 1)
        ELSE IF p <= Len(D.data) THEN D.data[p] ELSE Zero]

(* Its fields, one by one.                                                 *)
Fields(D, f, W) ==
    /\ W.key = D.key
    /\ W.last_seen_time = f.time
    /\ W.header_length \in Nat
    /\ W.header_offset = IF f.offset = 0 THEN 0 ELSE D.header_offset
    /\ W.data = Buffer(D, f)
    /\ W.ranges = InsertAt(D.ranges, InsertPoint(D.ranges, f.offset),
                           [start |-> f.offset, end |-> End(f)])
    /\ W.has_last_fragment = (D.has_last_fragment \/ ~f.more)
    /\ W.total_payload_length = IF f.more THEN D.total_payload_length ELSE End(f)

AllFields == {"key", "last_seen_time", "header_length", "header_offset", "data",
              "has_last_fragment", "total_payload_length", "ranges"}

(* The same, field by field: what each field of the datagram is after the  *)
(* fragment was stored.                                                    *)
LEMMA WholeFields ==
    ASSUME NEW D \in DatagramType, NEW f \in FragmentType
    PROVE  /\ Fields(D, f, WholeOf(D, f))
           /\ WholeOf(D, f) = [x \in AllFields |-> WholeOf(D, f)[x]]
<1> DEFINE A == AdoptHeader(D, f)
           B == [A EXCEPT !.last_seen_time = f.time]
           C == add_range(B, f.offset, End(f))
           E == Filled(C, f)
           W == NoteLast(E, f)
<1>0. /\ D = [x \in AllFields |-> D[x]] /\ D.header_length \in Nat /\ f.header_length \in Nat
      /\ f.more \in BOOLEAN
    BY DEF DatagramType, FragmentType, AllFields
<1>1. /\ A = [x \in AllFields |-> A[x]]
      /\ A.key = D.key /\ A.header_length \in Nat
      /\ A.header_offset = IF f.offset = 0 THEN 0 ELSE D.header_offset
      /\ A.data = D.data /\ A.ranges = D.ranges
      /\ A.has_last_fragment = D.has_last_fragment
      /\ A.total_payload_length = D.total_payload_length
    BY <1>0 DEF AdoptHeader, AllFields
<1> HIDE DEF A
<1>2. /\ B = [x \in AllFields |-> B[x]]
      /\ B.key = D.key /\ B.header_length \in Nat /\ B.last_seen_time = f.time
      /\ B.header_offset = IF f.offset = 0 THEN 0 ELSE D.header_offset
      /\ B.data = D.data /\ B.ranges = D.ranges
      /\ B.has_last_fragment = D.has_last_fragment
      /\ B.total_payload_length = D.total_payload_length
    BY <1>1 DEF AllFields
<1> HIDE DEF B
<1> DEFINE ts == InsertAt(D.ranges, InsertPoint(D.ranges, f.offset),
                          [start |-> f.offset, end |-> End(f)])
<1>3. C = [B EXCEPT !.ranges = ts]
    BY <1>2 DEF add_range, InsertPoint
<1> HIDE DEF C, ts
<1>4. /\ C = [x \in AllFields |-> C[x]]
      /\ C.key = D.key /\ C.header_length \in Nat /\ C.last_seen_time = f.time
      /\ C.header_offset = IF f.offset = 0 THEN 0 ELSE D.header_offset
      /\ C.data = D.data /\ C.ranges = ts
      /\ C.has_last_fragment = D.has_last_fragment
      /\ C.total_payload_length = D.total_payload_length
    BY <1>2, <1>3 DEF AllFields
<1>5. Additional(C, f) = Additional(D, f)
    BY <1>4 DEF Additional
<1>6. E = [C EXCEPT !.data = Buffer(D, f)]
    BY <1>4, <1>5 DEF Filled, Buffer
<1> HIDE DEF E
<1>7. /\ E = [x \in AllFields |-> E[x]]
      /\ E.key = D.key /\ E.header_length \in Nat /\ E.last_seen_time = f.time
      /\ E.header_offset = IF f.offset = 0 THEN 0 ELSE D.header_offset
      /\ E.data = Buffer(D, f) /\ E.ranges = ts
      /\ E.has_last_fragment = D.has_last_fragment
      /\ E.total_payload_length = D.total_payload_length
    BY <1>4, <1>6 DEF AllFields
<1>8. D.has_last_fragment \in BOOLEAN
    BY DEF DatagramType
<1>9. CASE f.more
    <2>1. W = E
        BY <1>9 DEF NoteLast
    <2>2. Fields(D, f, E)
        BY <1>7, <1>8, <1>9 DEF Fields, ts
    <2> QED
        BY <1>7, <2>1, <2>2 DEF W, E, C, B, A, WholeOf
<1>10. CASE ~f.more
    <2>1. W = [E EXCEPT !.has_last_fragment = TRUE, !.total_payload_length = End(f)]
        BY <1>10 DEF NoteLast
    <2>2. Fields(D, f, W) /\ W = [x \in AllFields |-> W[x]]
        <3> HIDE DEF W
        <3> QED
            BY <1>7, <1>8, <1>10, <2>1 DEF Fields, ts, AllFields
    <2> QED
        BY <2>2 DEF W, E, C, B, A, WholeOf
<1> QED
    BY <1>0, <1>9, <1>10

(* The buffer grows just enough and holds the fragment's bytes, the old    *)
(* ones elsewhere, and zeros where it grew.                                *)
LEMMA BufferFacts ==
    ASSUME NEW D \in DatagramType, NEW f \in FragmentType
    PROVE  /\ Additional(D, f) \in Nat /\ End(f) \in Nat
           /\ End(f) <= Len(D.data) + Additional(D, f)
           /\ Buffer(D, f) \in Seq(ByteType)
           /\ Len(Buffer(D, f)) = Len(D.data) + Additional(D, f)
           /\ \A p \in 1..(Len(D.data) + Additional(D, f)) :
                 Buffer(D, f)[p] = IF p \in (f.offset + 1)..End(f) THEN Byte(f, p - 1)
                                   ELSE IF p <= Len(D.data) THEN D.data[p] ELSE Zero
<1>1. D.data \in Seq(ByteType) /\ f.offset \in Nat /\ f.length \in Nat /\ f.sent \in Nat
    BY DEF DatagramType, FragmentType
<1>2. Len(D.data) \in Nat /\ End(f) \in Nat
    BY <1>1 DEF End
<1>3. Additional(D, f) \in Nat /\ End(f) <= Len(D.data) + Additional(D, f)
    BY <1>2 DEF Additional
<1> DEFINE n == Len(D.data) + Additional(D, f)
<1>4. ASSUME NEW p \in 1..n
      PROVE  (IF p \in (f.offset + 1)..End(f) THEN Byte(f, p - 1)
              ELSE IF p <= Len(D.data) THEN D.data[p] ELSE Zero) \in ByteType
    <2>1. CASE p \in (f.offset + 1)..End(f)
        <3>1. p - 1 \in Nat
            BY <1>2, <1>3
        <3> QED
            BY <1>1, <2>1, <3>1 DEF Byte, ByteType
    <2>2. CASE p \notin (f.offset + 1)..End(f) /\ p <= Len(D.data)
        <3>1. p \in 1..Len(D.data)
            BY <1>2, <1>3, <2>2
        <3>2. D.data[p] \in ByteType
            BY <1>1, <3>1
        <3> QED
            BY <2>2, <3>2
    <2>3. CASE p \notin (f.offset + 1)..End(f) /\ ~(p <= Len(D.data))
        BY <2>3 DEF Zero, ByteType
    <2> QED
        BY <2>1, <2>2, <2>3
<1>5. n \in Nat
    BY <1>2, <1>3
<1> HIDE DEF n
<1>6. Buffer(D, f) = [p \in 1..n |->
          IF p \in (f.offset + 1)..End(f) THEN Byte(f, p - 1)
          ELSE IF p <= Len(D.data) THEN D.data[p] ELSE Zero]
    BY DEF Buffer, n
<1>7. Buffer(D, f) \in Seq(ByteType) /\ Len(Buffer(D, f)) = n
    BY <1>4, <1>5, <1>6
<1>8. \A p \in 1..n :
          Buffer(D, f)[p] = IF p \in (f.offset + 1)..End(f) THEN Byte(f, p - 1)
                            ELSE IF p <= Len(D.data) THEN D.data[p] ELSE Zero
    BY <1>6
<1> QED
    BY <1>2, <1>3, <1>7, <1>8 DEF n

(* A fragment that is neither malformed nor overlapping leaves a sound     *)
(* datagram: add_range, ensure_capacity and memcpy agree with each other.  *)
LEMMA StoreSound ==
    ASSUME NEW D \in DatagramType, Sound(D), NEW f \in FragmentType,
           ~fragment_is_malformed(f), ~range_overlaps(D, f.offset, End(f)),
           NEW W, W = WholeOf(D, f)
    PROVE  /\ W \in DatagramType /\ Sound(W)
           /\ Len(W.data) = Len(D.data) + Additional(D, f)
           /\ Len(W.ranges) = Len(D.ranges) + 1
<1>1. D.data \in Seq(ByteType) /\ D.ranges \in Seq(RangeType)
    BY DEF DatagramType
<1>2. f.offset \in Nat /\ End(f) \in Nat /\ f.offset < End(f) /\ f.sent \in Nat \ {0}
    <2>1. f.offset \in Nat /\ f.length \in Nat /\ f.length # 0 /\ f.sent \in Nat \ {0}
        BY DEF FragmentType, fragment_is_malformed
    <2> QED
        BY <2>1 DEF End
<1>3. Fields(D, f, W) /\ W = [x \in AllFields |-> W[x]]
    BY WholeFields
<1>4. \A i \in 1..Len(D.ranges) : ~(f.offset < D.ranges[i].end /\ End(f) > D.ranges[i].start)
    BY DEF range_overlaps
<1>5. Sorted(D.ranges, Len(D.data)) /\ Len(D.data) \in Nat
    BY <1>1 DEF Sound
<1> DEFINE k == InsertPoint(D.ranges, f.offset)
           cap == Len(D.data) + Additional(D, f)
<1>6. /\ k \in 1..(Len(D.ranges) + 1)
      /\ \A j \in 1..Len(D.ranges) :
            IF j < k THEN D.ranges[j].end <= f.offset ELSE End(f) <= D.ranges[j].start
    BY <1>1, <1>2, <1>4, <1>5, InsertPointFacts
<1>7. /\ Additional(D, f) \in Nat /\ End(f) <= cap
      /\ Buffer(D, f) \in Seq(ByteType) /\ Len(Buffer(D, f)) = cap
      /\ \A p \in 1..cap :
            Buffer(D, f)[p] = IF p \in (f.offset + 1)..End(f) THEN Byte(f, p - 1)
                              ELSE IF p <= Len(D.data) THEN D.data[p] ELSE Zero
    BY BufferFacts
<1>8. cap \in Nat /\ Len(D.data) <= cap
    BY <1>5, <1>7
<1> HIDE DEF k, cap
<1>9. W.ranges = InsertAt(D.ranges, k, [start |-> f.offset, end |-> End(f)])
      /\ W.data = Buffer(D, f)
    BY <1>3 DEF Fields, k
<1>10. /\ W.ranges \in Seq(RangeType) /\ Len(W.ranges) = Len(D.ranges) + 1
       /\ Sorted(W.ranges, cap)
       /\ \A p \in Nat : Covers(W.ranges, p) <=>
                             Covers(D.ranges, p) \/ (f.offset < p /\ p <= End(f))
       /\ \A n \in 1..Len(W.ranges) :
             W.ranges[n].start = f.offset \/ \E m \in 1..Len(D.ranges) : W.ranges[n] = D.ranges[m]
    <2>1. Inserted(D.ranges, W.ranges, f.offset, End(f), cap)
        BY <1>1, <1>2, <1>5, <1>6, <1>7, <1>8, <1>9, InsertSorted
    <2> QED
        BY <2>1 DEF Inserted
<1>11. W \in DatagramType
    <2>1. /\ D.key \in Nat /\ D.header_offset \in Nat /\ D.has_last_fragment \in BOOLEAN
          /\ D.total_payload_length \in Nat /\ f.time \in Nat /\ f.more \in BOOLEAN
        BY DEF DatagramType, FragmentType
    <2>2. /\ W.key \in Nat /\ W.last_seen_time \in Nat /\ W.header_length \in Nat
          /\ W.header_offset \in Nat /\ W.has_last_fragment \in BOOLEAN
          /\ W.total_payload_length \in Nat
        BY <1>2, <1>3, <2>1 DEF Fields
    <2>3. W.data \in Seq(ByteType) /\ W.ranges \in Seq(RangeType)
        BY <1>7, <1>9, <1>10
    <2> QED
        BY <1>3, <2>2, <2>3 DEF DatagramType, AllFields
<1>12. \A p \in 1..cap :
           /\ p \in Nat
           /\ W.data[p] = IF f.offset < p /\ p <= End(f) THEN Byte(f, p - 1)
                          ELSE IF p <= Len(D.data) THEN D.data[p] ELSE Zero
    BY <1>2, <1>7, <1>8, <1>9
<1>13. \A p : Byte(f, p) # Zero /\ Byte(f, p).pos = p
    BY <1>2 DEF Byte, Zero
<1>14. Filling(W.ranges, W.data)
    <2> SUFFICES ASSUME NEW p \in 1..cap
                 PROVE  W.data[p] = Zero <=> ~Covers(W.ranges, p)
        BY <1>7, <1>9 DEF Filling
    <2>1. p \in Nat /\ (Covers(W.ranges, p) <=>
                            Covers(D.ranges, p) \/ (f.offset < p /\ p <= End(f)))
        BY <1>10, <1>12
    <2>2. CASE f.offset < p /\ p <= End(f)
        BY <1>12, <1>13, <2>1, <2>2
    <2>3. CASE ~(f.offset < p /\ p <= End(f)) /\ p <= Len(D.data)
        <3>1. p \in 1..Len(D.data)
            BY <1>5, <1>8, <2>3
        <3>2. D.data[p] = Zero <=> ~Covers(D.ranges, p)
            BY <3>1 DEF Sound, Filling
        <3> QED
            BY <1>12, <2>1, <2>3, <3>2
    <2>4. CASE ~(f.offset < p /\ p <= End(f)) /\ ~(p <= Len(D.data))
        <3>1. W.data[p] = Zero
            BY <1>12, <2>4
        <3>2. ~Covers(D.ranges, p)
            <4> SUFFICES ASSUME NEW n \in 1..Len(D.ranges), p <= D.ranges[n].end
                         PROVE  FALSE
                BY DEF Covers
            <4>1. D.ranges[n].end <= Len(D.data)
                BY <1>5 DEF Sorted
            <4>2. D.ranges[n].end \in Nat
                <5>1. D.ranges[n] \in RangeType
                    BY <1>1
                <5> QED
                    BY <5>1 DEF RangeType
            <4> QED
                BY <1>5, <2>1, <2>4, <4>1, <4>2
        <3> QED
            BY <2>1, <2>4, <3>1, <3>2
    <2> QED
        BY <2>2, <2>3, <2>4
<1>15. Placed(W.data)
    <2> SUFFICES ASSUME NEW p \in 1..cap, W.data[p] # Zero
                 PROVE  W.data[p].pos = p - 1
        BY <1>7, <1>9 DEF Placed
    <2>1. CASE f.offset < p /\ p <= End(f)
        BY <1>12, <1>13, <2>1
    <2>2. CASE ~(f.offset < p /\ p <= End(f))
        <3>1. p <= Len(D.data) /\ W.data[p] = D.data[p]
            BY <1>12, <2>2
        <3>2. p \in 1..Len(D.data)
            BY <1>5, <1>8, <3>1
        <3> QED
            BY <3>1, <3>2 DEF Sound, Placed
    <2> QED
        BY <2>1, <2>2
<1>16. HeaderKept(W)
    <2> SUFFICES ASSUME NEW n \in 1..Len(W.ranges), W.ranges[n].start = 0
                 PROVE  W.header_offset = 0
        BY DEF HeaderKept
    <2>1. W.header_offset = IF f.offset = 0 THEN 0 ELSE D.header_offset
        BY <1>3 DEF Fields
    <2>2. CASE f.offset = 0
        BY <2>1, <2>2
    <2>3. CASE f.offset # 0
        <3>1. PICK m \in 1..Len(D.ranges) : W.ranges[n] = D.ranges[m]
            BY <1>10, <2>3
        <3> QED
            BY <2>1, <2>3, <3>1 DEF Sound, HeaderKept
    <2> QED
        BY <2>2, <2>3
<1>17. Sound(W)
    BY <1>7, <1>9, <1>10, <1>14, <1>15, <1>16 DEF Sound
<1> QED
    BY <1>7, <1>9, <1>10, <1>11, <1>17 DEF cap

(* When coverage_is_complete says so, every byte of the payload arrived.   *)
LEMMA CompleteMeansFilled ==
    ASSUME NEW D \in DatagramType, Sound(D), coverage_is_complete(D)
    PROVE  /\ D.has_last_fragment /\ D.header_offset = 0
           /\ D.total_payload_length \in 1..Len(D.data)
           /\ \A p \in 1..D.total_payload_length :
                 p \in 1..Len(D.data) /\ D.data[p] # Zero /\ D.data[p].pos = p - 1
<1> DEFINE rs == D.ranges
           total == D.total_payload_length
<1>1. rs \in Seq(RangeType) /\ D.data \in Seq(ByteType) /\ total \in Nat
    BY DEF DatagramType
<1>2. /\ Sorted(rs, Len(D.data)) /\ Filling(rs, D.data) /\ Placed(D.data) /\ HeaderKept(D)
      /\ D.has_last_fragment /\ total # 0
    BY DEF Sound, coverage_is_complete
<1>3. PICK n \in 1..Len(rs) :
          /\ \A i \in 1..n : rs[i].start = IF i = 1 THEN 0 ELSE rs[i - 1].end
          /\ rs[n].end = total
    BY DEF coverage_is_complete
<1>4. Len(rs) \in Nat /\ n \in Nat /\ n >= 1 /\ Len(D.data) \in Nat
    BY <1>1
<1>5. ASSUME NEW i \in 1..Len(rs)
      PROVE  rs[i].start \in Nat /\ rs[i].end \in Nat
    <2>1. rs[i] \in RangeType
        BY <1>1
    <2> QED
        BY <2>1 DEF RangeType
<1> DEFINE S == {m \in 1..n : \A p \in 1..rs[m].end : Covers(rs, p)}
<1>6. 1 \in S
    <2>1. 1 \in 1..n /\ 1 \in 1..Len(rs) /\ rs[1].start = 0
        BY <1>3, <1>4
    <2> HIDE DEF rs
    <2>2. \A p \in 1..rs[1].end : rs[1].start < p /\ p <= rs[1].end
        BY <1>5, <2>1
    <2> QED
        BY <2>1, <2>2 DEF Covers
<1>7. ASSUME NEW m \in 1..n, m \in S, m < n
      PROVE  m + 1 \in S
    <2>1. m + 1 \in 1..n /\ m + 1 \in 1..Len(rs) /\ m \in 1..Len(rs) /\ (m + 1) - 1 = m /\ m + 1 # 1
        BY <1>4, <1>7
    <2> HIDE DEF rs
    <2>2. rs[m + 1].start = rs[m].end
        BY <1>3, <2>1
    <2>3. ASSUME NEW p \in 1..rs[m + 1].end PROVE Covers(rs, p)
        <3>0. rs[m].end \in Nat /\ rs[m + 1].end \in Nat
            BY <1>5, <2>1
        <3>1. CASE p <= rs[m].end
            <4>1. p \in 1..rs[m].end
                BY <3>0, <3>1
            <4> QED
                BY <1>7, <4>1
        <3>2. CASE p > rs[m].end
            <4>1. rs[m + 1].start < p /\ p <= rs[m + 1].end
                BY <2>2, <3>0, <3>2
            <4> QED
                BY <2>1, <4>1 DEF Covers
        <3> QED
            BY <3>0, <3>1, <3>2
    <2> QED
        BY <2>1, <2>3
<1> HIDE DEF S, rs
<1>8. \A m \in 1..n : m \in S /\ m < n => m + 1 \in S
    BY <1>7
<1>9. 1 \in Nat
    OBVIOUS
<1>10. \A m \in 1..n : m \in S
    BY <1>4, <1>6, <1>8, <1>9, IntervalInduction
<1>11. n \in S
    BY <1>4, <1>10
<1>12. \A p \in 1..total : Covers(rs, p)
    BY <1>3, <1>11 DEF S
<1>13. total <= Len(D.data)
    BY <1>2, <1>3 DEF Sorted
<1>14. D.header_offset = 0
    <2>1. 1 \in 1..Len(rs) /\ rs[1].start = 0
        BY <1>3, <1>4
    <2> QED
        BY <1>2, <2>1 DEF HeaderKept, rs
<1> HIDE DEF total
<1>15. ASSUME NEW p \in 1..total
       PROVE  p \in 1..Len(D.data) /\ D.data[p] # Zero /\ D.data[p].pos = p - 1
    <2>1. p \in 1..Len(D.data)
        BY <1>1, <1>4, <1>13
    <2> QED
        BY <1>2, <1>12, <2>1 DEF Filling, Placed
<1>16. total \in 1..Len(D.data)
    BY <1>1, <1>2, <1>4, <1>13
<1> QED
    BY <1>2, <1>14, <1>15, <1>16 DEF total

(* build_packet copies that payload.                                       *)
LEMMA BuiltFacts ==
    ASSUME NEW D \in DatagramType, Sound(D), coverage_is_complete(D)
    PROVE  /\ Built(D).result = "REASSEMBLED" /\ Built(D).header_offset = 0
           /\ Built(D).payload \in Seq(ByteType)
           /\ Len(Built(D).payload) = D.total_payload_length
           /\ D.total_payload_length \in Nat \ {0}
           /\ \A p \in 1..D.total_payload_length :
                 /\ Built(D).payload[p] = D.data[p]
                 /\ D.data[p] # Zero /\ D.data[p].pos = p - 1
<1> DEFINE total == D.total_payload_length
<1>1. /\ D.header_offset = 0 /\ total \in 1..Len(D.data)
      /\ \A p \in 1..total : D.data[p] # Zero /\ D.data[p].pos = p - 1
    BY CompleteMeansFilled
<1>2. D.data \in Seq(ByteType)
    BY DEF DatagramType
<1>3. Built(D).payload = SubSeq(D.data, 1, total)
    BY DEF Built
<1> HIDE DEF total
<1>4. /\ SubSeq(D.data, 1, total) \in Seq(ByteType)
      /\ Len(SubSeq(D.data, 1, total)) = total
      /\ \A p \in 1..total : SubSeq(D.data, 1, total)[p] = D.data[p]
    BY <1>1, <1>2
<1>5. Built(D).result = "REASSEMBLED" /\ Built(D).header_offset = D.header_offset
    BY DEF Built
<1>6. total \in Nat \ {0}
    BY <1>1, <1>2
<1> QED
    BY <1>1, <1>3, <1>4, <1>5, <1>6 DEF total
----------------------------------------------------------------------------
(* The table. A call works on a fragment of the traffic until it returns.  *)
TypeOK ==
    /\ datagrams \in Seq(DatagramType)
    /\ used_bytes \in Nat
    /\ pc \in {"idle", "expire", "process", "done"}
    /\ fragment \in FragmentType
    /\ traffic \in Traffics
    /\ clock \in Nat /\ jumped \in BOOLEAN
    /\ pc \in {"expire", "process"} => fragment \in traffic /\ fragment.time = clock

AllSound == \A i \in 1..Len(datagrams) : Sound(datagrams[i])

(* While time has not run back no datagram is from the future, and once    *)
(* the expiry loop is over none has been silent for the timeout.           *)
Clocked == ~jumped => \A i \in 1..Len(datagrams) : datagrams[i].last_seen_time <= clock
Fresh == pc = "process" => Expired(fragment.time) = {}

(* g was the last fragment stored in d, and everything in d is of the      *)
(* datagram g was cut from.                                                *)
Origin(d, g) ==
    /\ g.key = d.key /\ g.time = d.last_seen_time
    /\ \A p \in 1..Len(d.data) : d.data[p] # Zero => d.data[p].sent = g.sent
    /\ d.has_last_fragment =>
          \E l \in traffic : ~l.more /\ l.sent = g.sent /\ End(l) = d.total_payload_length

OneOrigin ==
    WellBehaved => \A i \in 1..Len(datagrams) : \E g \in traffic : Origin(datagrams[i], g)

IInv ==
    /\ TypeOK /\ BytesAccounted /\ AllSound /\ Clocked /\ Fresh /\ OneOrigin
    /\ RebuiltFromFragments /\ RebuiltIsSent
----------------------------------------------------------------------------
(* The memory each datagram of a table ds owns.                            *)
Lengths(ds) == [i \in 1..Len(ds) |-> Len(ds[i].data)]

(* The buffer lengths of the table's datagrams are a sequence of naturals  *)
(* as long as the table.                                                   *)
LEMMA LengthsType ==
    ASSUME NEW ds \in Seq(DatagramType)
    PROVE  /\ Lengths(ds) \in Seq(Nat) /\ Lengths(ds) \in Seq(Int)
           /\ Len(Lengths(ds)) = Len(ds)
           /\ \A i \in 1..Len(ds) : Lengths(ds)[i] = Len(ds[i].data) /\ ds[i] \in DatagramType
<1>1. ASSUME NEW i \in 1..Len(ds) PROVE Len(ds[i].data) \in Nat /\ ds[i] \in DatagramType
    <2>1. ds[i] \in DatagramType
        OBVIOUS
    <2>2. ds[i].data \in Seq(ByteType)
        BY <2>1 DEF DatagramType
    <2> QED
        BY <2>1, <2>2
<1>2. Len(ds) \in Nat
    OBVIOUS
<1>3. Lengths(ds) \in Seq(Nat) /\ Len(Lengths(ds)) = Len(ds)
    BY <1>1, <1>2 DEF Lengths
<1>4. Lengths(ds) \in Seq(Int)
    BY <1>3
<1> QED
    BY <1>1, <1>3, <1>4 DEF Lengths

(* The index a datagram had before the one at i was removed.               *)
Before(j, i) == IF j < i THEN j ELSE j + 1

(* remove_datagram_at: the others keep order and content, and the budget   *)
(* gets back exactly what the datagram owned.                              *)
Removes(i) ==
    /\ datagrams' \in Seq(DatagramType)
    /\ Len(datagrams') = Len(datagrams) - 1
    /\ \A j \in 1..Len(datagrams') :
          /\ datagrams'[j] = datagrams[Before(j, i)]
          /\ Before(j, i) \in 1..Len(datagrams)
    /\ \A j, k \in 1..Len(datagrams') : Before(j, i) = Before(k, i) => j = k
    /\ used_bytes' = used_bytes - Len(datagrams[i].data)
    /\ used_bytes' \in Nat
    /\ used_bytes' = SumSeq(Lengths(datagrams'))

(* remove_datagram_at takes one datagram out, keeps the others, and        *)
(* returns the length of its buffer to the budget.                         *)
LEMMA RemoveFacts ==
    ASSUME TypeOK, BytesAccounted, NEW i \in 1..Len(datagrams),
           NEW used \in Nat, NEW bytes \in Nat,
           used - bytes = used_bytes - Len(datagrams[i].data),
           remove_datagram_at(i, used, bytes)
    PROVE  Removes(i)
<1>0. datagrams \in Seq(DatagramType) /\ used_bytes \in Nat
    BY DEF TypeOK
<1>1. datagrams' = RemoveAt(datagrams, i) /\ used_bytes' = Release(used, bytes)
    BY DEF remove_datagram_at
<1>2. /\ RemoveAt(datagrams, i) \in Seq(DatagramType)
      /\ Len(RemoveAt(datagrams, i)) = Len(datagrams) - 1
      /\ \A j \in 1..(Len(datagrams) - 1) :
            RemoveAt(datagrams, i)[j] = IF j < i THEN datagrams[j] ELSE datagrams[j + 1]
    BY <1>0, RemoveAtElements
<1>3. /\ datagrams' \in Seq(DatagramType)
      /\ Len(datagrams') = Len(datagrams) - 1
      /\ \A j \in 1..(Len(datagrams) - 1) :
            datagrams'[j] = IF j < i THEN datagrams[j] ELSE datagrams[j + 1]
    BY <1>1, <1>2
<1>4. Len(datagrams) \in Nat /\ i \in 1..Len(datagrams)
    BY <1>0
<1>5. ASSUME NEW j \in 1..Len(datagrams')
      PROVE  datagrams'[j] = datagrams[Before(j, i)] /\ Before(j, i) \in 1..Len(datagrams)
    BY <1>3, <1>4 DEF Before
<1>6. ASSUME NEW j \in 1..Len(datagrams'), NEW k \in 1..Len(datagrams'),
             Before(j, i) = Before(k, i)
      PROVE  j = k
    BY <1>3, <1>4, <1>6 DEF Before
<1> DEFINE s == Lengths(datagrams)
           t == Lengths(datagrams')
<1>7. /\ s \in Seq(Nat) /\ s \in Seq(Int) /\ Len(s) = Len(datagrams)
      /\ \A j \in 1..Len(datagrams) : s[j] = Len(datagrams[j].data)
    BY <1>0, LengthsType
<1>8. /\ t \in Seq(Int) /\ Len(t) = Len(datagrams')
      /\ \A j \in 1..Len(datagrams') : t[j] = Len(datagrams'[j].data)
    BY <1>3, LengthsType
<1>9. used_bytes = SumSeq(s)
    BY DEF BytesAccounted, Lengths
<1>10. used_bytes' \in Nat /\ used_bytes' = used_bytes - s[i] /\ s[i] = Len(datagrams[i].data)
    <2>1. s[i] <= SumSeq(s) /\ s[i] \in Nat /\ s[i] = Len(datagrams[i].data)
        <3> HIDE DEF s
        <3>1. i \in 1..Len(s)
            BY <1>7
        <3> QED
            BY <1>7, <3>1, SumBound
    <2> HIDE DEF s
    <2>2. used >= bytes
        BY <1>0, <1>9, <2>1
    <2> QED
        BY <1>0, <1>1, <1>9, <2>1, <2>2 DEF Release
<1>11. used_bytes' = SumSeq(t)
    <2>1. ASSUME NEW j \in 1..Len(t) PROVE t[j] = IF j < i THEN s[j] ELSE s[j + 1]
        <3>1. t[j] = s[Before(j, i)]
            BY <1>5, <1>7, <1>8
        <3> HIDE DEF s, t
        <3> QED
            BY <3>1 DEF Before
    <2> HIDE DEF s, t
    <2>2. Len(t) = Len(s) - 1 /\ i \in 1..Len(s)
        BY <1>3, <1>7, <1>8
    <2>3. SumSeq(s) = SumSeq(t) + s[i]
        BY <1>7, <1>8, <2>1, <2>2, SumRemove
    <2>4. SumSeq(t) \in Int /\ s[i] \in Int
        BY <1>7, <1>8, <2>2, SumType
    <2> QED
        BY <1>9, <1>10, <2>3, <2>4
<1> HIDE DEF s
<1> QED
    BY <1>3, <1>5, <1>6, <1>10, <1>11 DEF Removes

(* What a removal keeps of the table.                                      *)
LEMMA RemoveKeeps ==
    ASSUME IInv, NEW i \in 1..Len(datagrams), Removes(i),
           UNCHANGED <<traffic, clock, jumped>>
    PROVE  /\ BytesAccounted' /\ AllSound' /\ Clocked' /\ OneOrigin'
           /\ \A now : Expired(now) = {} =>
                 {j \in 1..Len(datagrams') :
                     Timeout # 0 /\ IdleSeconds(datagrams'[j], now) >= Timeout} = {}
<1>1. /\ \A j \in 1..Len(datagrams') :
            /\ datagrams'[j] = datagrams[Before(j, i)]
            /\ Before(j, i) \in 1..Len(datagrams)
      /\ \A j, k \in 1..Len(datagrams') : Before(j, i) = Before(k, i) => j = k
    BY DEF Removes
<1>2. BytesAccounted'
    <2>1. /\ used_bytes' = SumSeq([j \in 1..Len(datagrams') |-> Len(datagrams'[j].data)])
        BY DEF Removes, Lengths
    <2>2. used_bytes' <= MaxBytes /\ Len(datagrams') <= MaxDatagrams
        <3>1. Len(datagrams[i].data) \in Nat /\ Len(datagrams) \in Nat /\ used_bytes \in Nat
            BY LengthsType DEF IInv, TypeOK, Lengths
        <3>2. used_bytes <= MaxBytes /\ Len(datagrams) <= MaxDatagrams
            BY DEF IInv, BytesAccounted
        <3>3. MaxBytes \in Nat /\ MaxDatagrams \in Nat
            BY FragmentAssumption
        <3>4. used_bytes' = used_bytes - Len(datagrams[i].data) /\ Len(datagrams') = Len(datagrams) - 1
            BY DEF Removes
        <3> QED
            BY <3>1, <3>2, <3>3, <3>4
    <2>3. ASSUME NEW j \in 1..Len(datagrams'), NEW k \in 1..Len(datagrams')
          PROVE  /\ Len(datagrams'[j].ranges) <= MaxRanges
                 /\ datagrams'[j].key = datagrams'[k].key => j = k
        BY <1>1 DEF IInv, BytesAccounted
    <2> QED
        BY <2>1, <2>2, <2>3 DEF BytesAccounted
<1>3. AllSound' /\ Clocked'
    BY <1>1 DEF IInv, AllSound, Clocked
<1>4. OneOrigin'
    <2>1. WellBehaved' = WellBehaved
        BY DEF WellBehaved
    <2> SUFFICES ASSUME WellBehaved, NEW j \in 1..Len(datagrams')
                 PROVE  \E g \in traffic : Origin(datagrams[Before(j, i)], g)
        BY <1>1, <2>1 DEF OneOrigin, Origin
    <2> QED
        BY <1>1 DEF IInv, OneOrigin
<1>5. \A now : Expired(now) = {} =>
          {j \in 1..Len(datagrams') :
              Timeout # 0 /\ IdleSeconds(datagrams'[j], now) >= Timeout} = {}
    BY <1>1 DEF Expired
<1> QED
    BY <1>2, <1>3, <1>4, <1>5
----------------------------------------------------------------------------
(* An empty table owns nothing.                                            *)
LEMMA EmptyTable == SumSeq([i \in 1..Len(<<>>) |-> Len(<<>>[i].data)]) = 0
<1>1. <<>> \in Seq(DatagramType) /\ Len(<<>>) = 0
    OBVIOUS
<1>2. Lengths(<<>>) \in Seq(Int) /\ Len(Lengths(<<>>)) = 0
    BY <1>1, LengthsType
<1>3. Lengths(<<>>) = <<>>
    BY <1>2
<1>4. SumSeq(Lengths(<<>>)) = 0
    BY <1>2, <1>3, SumType
<1> QED
    BY <1>4 DEF Lengths

(* ipv4_fragment_table_init: an empty table with nothing used satisfies    *)
(* the invariant.                                                          *)
LEMMA InitIInv == Init => IInv
<1> SUFFICES ASSUME Init PROVE IInv
    OBVIOUS
<1> USE DEF Init
<1>1. NoFragment \in FragmentType
    BY DEF NoFragment, FragmentType
<1>2. TypeOK
    <2>1. datagrams \in Seq(DatagramType) /\ used_bytes \in Nat /\ clock \in Nat
        OBVIOUS
    <2>2. jumped \in BOOLEAN
        BY Zenon
    <2>3. pc = "idle" /\ traffic \in Traffics /\ fragment \in FragmentType
        BY <1>1
    <2> QED
        BY <2>1, <2>2, <2>3 DEF TypeOK
<1>3. Len(datagrams) = 0 /\ 1..Len(datagrams) = {}
    OBVIOUS
<1>4. BytesAccounted
    <2>1. used_bytes = SumSeq([i \in 1..Len(datagrams) |-> Len(datagrams[i].data)])
        BY EmptyTable
    <2>2. MaxBytes \in Nat /\ MaxDatagrams \in Nat
        BY FragmentAssumption
    <2> QED
        BY <1>3, <2>1, <2>2 DEF BytesAccounted
<1>5. AllSound /\ Clocked /\ Fresh /\ OneOrigin
    BY <1>3 DEF AllSound, Clocked, Fresh, OneOrigin
<1>6. RebuiltFromFragments /\ RebuiltIsSent
    BY DEF RebuiltFromFragments, RebuiltIsSent, Only
<1> QED
    BY <1>2, <1>4, <1>5, <1>6 DEF IInv

(* A call begins: the fragment's time is the clock.                        *)
LEMMA ReceiveStep ==
    ASSUME IInv, NEW f \in traffic, Receive(f)
    PROVE  IInv'
<1>0. TypeOK
    BY DEF IInv
<1>1. f \in FragmentType /\ f.time \in Nat
    <2>1. f \in FragmentType
        BY <1>0, FragmentAssumption DEF TypeOK
    <2> QED
        BY <2>1 DEF FragmentType
<1>2. /\ fragment' = f /\ clock' = f.time /\ pc' = "expire" /\ traffic' = traffic
      /\ UNCHANGED <<datagrams, used_bytes, result>>
      /\ jumped' = (jumped \/ f.time < clock)
    BY DEF Receive
<1>3. TypeOK'
    BY <1>0, <1>1, <1>2 DEF TypeOK
<1>4. BytesAccounted' /\ AllSound' /\ Fresh' /\ RebuiltFromFragments'
    BY <1>2 DEF IInv, BytesAccounted, AllSound, Fresh, RebuiltFromFragments
<1>5. Clocked'
    <2> SUFFICES ASSUME ~jumped', NEW i \in 1..Len(datagrams)
                 PROVE  datagrams[i].last_seen_time <= f.time
        BY <1>2 DEF Clocked
    <2>1. ~jumped /\ ~(f.time < clock) /\ clock \in Nat
        BY <1>0, <1>2 DEF TypeOK
    <2>2. datagrams[i].last_seen_time <= clock
        BY <2>1 DEF IInv, Clocked
    <2>3. datagrams[i].last_seen_time \in Nat
        <3>1. datagrams[i] \in DatagramType
            BY <1>0 DEF TypeOK
        <3> QED
            BY <3>1 DEF DatagramType
    <2> QED
        BY <1>1, <2>1, <2>2, <2>3
<1>6. WellBehaved' => WellBehaved
    BY <1>2 DEF WellBehaved
<1>7. OneOrigin' /\ RebuiltIsSent'
    BY <1>2, <1>6 DEF IInv, OneOrigin, Origin, RebuiltIsSent
<1> QED
    BY <1>3, <1>4, <1>5, <1>7 DEF IInv

(* A removal by the expiry loop owes nothing beyond the datagram.          *)
LEMMA PlainRemoval ==
    ASSUME IInv, NEW i \in 1..Len(datagrams),
           remove_datagram_at(i, used_bytes, Len(datagrams[i].data))
    PROVE  Removes(i)
<1>1. used_bytes \in Nat /\ Len(datagrams[i].data) \in Nat
    BY LengthsType DEF IInv, TypeOK, Lengths
<1>2. TypeOK /\ BytesAccounted
    BY DEF IInv
<1> QED
    BY <1>1, <1>2, RemoveFacts

(* ipv4_fragment_table_expire: one datagram that timed out leaves, or the  *)
(* scan ends.                                                              *)
LEMMA ExpireStep == IInv /\ expire => IInv'
<1> SUFFICES ASSUME IInv, expire PROVE IInv'
    OBVIOUS
<1>0. /\ pc = "expire" /\ UNCHANGED <<fragment, result>> /\ UNCHANGED <<traffic, clock, jumped>>
      /\ TypeOK
    BY DEF expire, network, IInv
<1>1. RebuiltFromFragments' /\ RebuiltIsSent'
    BY <1>0 DEF IInv, RebuiltFromFragments, RebuiltIsSent, WellBehaved
<1>2. CASE \E i \in Expired(fragment.time) :
              /\ \A j \in Expired(fragment.time) : i <= j
              /\ stats' = Counted("expired")
              /\ remove_datagram_at(i, used_bytes, Len(datagrams[i].data))
              /\ UNCHANGED pc
    <2>1. PICK i \in 1..Len(datagrams) :
              remove_datagram_at(i, used_bytes, Len(datagrams[i].data)) /\ pc' = pc
        BY <1>2 DEF Expired
    <2>2. Removes(i)
        BY <2>1, PlainRemoval
    <2>3. BytesAccounted' /\ AllSound' /\ Clocked' /\ OneOrigin'
        BY <1>0, <2>2, RemoveKeeps
    <2>4. TypeOK'
        BY <1>0, <2>1, <2>2 DEF TypeOK, Removes
    <2>5. Fresh'
        BY <1>0, <2>1 DEF Fresh
    <2> QED
        BY <1>1, <2>3, <2>4, <2>5 DEF IInv
<1>3. CASE /\ Expired(fragment.time) = {} /\ pc' = "process"
           /\ UNCHANGED <<datagrams, used_bytes, stats>>
    <2>1. TypeOK'
        BY <1>0, <1>3 DEF TypeOK
    <2>2. BytesAccounted' /\ AllSound' /\ Clocked'
        BY <1>0, <1>3 DEF IInv, BytesAccounted, AllSound, Clocked
    <2>3. OneOrigin'
        BY <1>0, <1>3 DEF IInv, OneOrigin, Origin, WellBehaved
    <2>4. Fresh'
        BY <1>0, <1>3 DEF Fresh, Expired
    <2> QED
        BY <1>1, <2>1, <2>2, <2>3, <2>4 DEF IInv
<1> QED
    BY <1>2, <1>3 DEF expire

(* A call returns.                                                         *)
LEMMA ReturnStep ==
    ASSUME IInv, datagrams' \in Seq(DatagramType), used_bytes' \in Nat,
           BytesAccounted', AllSound', Clocked', OneOrigin',
           pc' = "idle", fragment' = NoFragment, UNCHANGED network,
           RebuiltFromFragments', RebuiltIsSent'
    PROVE  IInv'
<1>1. NoFragment \in FragmentType
    BY DEF NoFragment, FragmentType
<1>2. TypeOK'
    BY <1>1 DEF IInv, TypeOK, network
<1>3. Fresh'
    BY DEF Fresh
<1> QED
    BY <1>2, <1>3 DEF IInv

(* A result that is not a rebuilt datagram promises nothing.               *)
LEMMA NothingRebuilt ==
    ASSUME NEW r, r # "REASSEMBLED", result' = Only(r)
    PROVE  RebuiltFromFragments' /\ RebuiltIsSent'
<1>1. result'.result # "REASSEMBLED"
    BY DEF Only
<1> QED
    BY <1>1 DEF RebuiltFromFragments, RebuiltIsSent

(* A call that returns without touching the table.                         *)
LEMMA RefuseStep == IInv /\ (Malformed \/ TableFull) => IInv'
<1> SUFFICES ASSUME IInv, Malformed \/ TableFull PROVE IInv'
    OBVIOUS
<1>1. /\ UNCHANGED <<datagrams, used_bytes>> /\ UNCHANGED network
      /\ pc' = "idle" /\ fragment' = NoFragment
      /\ result' = Only("MALFORMED") \/ result' = Only("DROPPED")
    BY DEF Malformed, TableFull, Return
<1>2. RebuiltFromFragments' /\ RebuiltIsSent'
    BY <1>1, NothingRebuilt
<1>3. UNCHANGED <<traffic, clock, jumped>>
    BY <1>1 DEF network
<1>4. BytesAccounted' /\ AllSound' /\ Clocked'
    BY <1>1, <1>3 DEF IInv, BytesAccounted, AllSound, Clocked
<1>5. OneOrigin'
    BY <1>1, <1>3 DEF IInv, OneOrigin, Origin, WellBehaved
<1>6. datagrams' \in Seq(DatagramType) /\ used_bytes' \in Nat
    BY <1>1 DEF IInv, TypeOK
<1> QED
    BY <1>1, <1>2, <1>4, <1>5, <1>6, ReturnStep

(* A call that gives the datagram up: overlap, too many ranges, no budget, *)
(* no memory, or a total length no packet can have.                        *)
LEMMA GiveUpStep ==
    ASSUME IInv, NEW i \in 1..Len(datagrams), Removes(i),
           pc' = "idle", fragment' = NoFragment, UNCHANGED network,
           RebuiltFromFragments', RebuiltIsSent'
    PROVE  IInv'
<1>1. UNCHANGED <<traffic, clock, jumped>>
    BY DEF network
<1>2. BytesAccounted' /\ AllSound' /\ Clocked' /\ OneOrigin'
    BY <1>1, RemoveKeeps
<1>3. datagrams' \in Seq(DatagramType) /\ used_bytes' \in Nat
    BY DEF Removes
<1> QED
    BY <1>2, <1>3, ReturnStep

(* ipv4_fragment_table_cleanup: all buffers are freed and nothing counts   *)
(* as used.                                                                *)
LEMMA CleanupStep == IInv /\ table_cleanup => IInv'
<1> SUFFICES ASSUME IInv, table_cleanup PROVE IInv'
    OBVIOUS
<1>1. /\ datagrams' = <<>> /\ used_bytes' = 0 /\ pc' = "done"
      /\ UNCHANGED <<fragment, result>> /\ UNCHANGED <<traffic, clock, jumped>>
    BY DEF table_cleanup, network
<1>2. TypeOK'
    BY <1>1 DEF IInv, TypeOK
<1>3. Len(datagrams') = 0 /\ 1..Len(datagrams') = {}
    BY <1>1
<1>4. BytesAccounted'
    <2>1. used_bytes' = SumSeq([i \in 1..Len(datagrams') |-> Len(datagrams'[i].data)])
        BY <1>1, EmptyTable
    <2>2. MaxBytes \in Nat /\ MaxDatagrams \in Nat
        BY FragmentAssumption
    <2> QED
        BY <1>1, <1>3, <2>1, <2>2 DEF BytesAccounted
<1>5. AllSound' /\ Clocked' /\ Fresh' /\ OneOrigin'
    BY <1>1, <1>3 DEF AllSound, Clocked, Fresh, OneOrigin
<1>6. RebuiltFromFragments' /\ RebuiltIsSent'
    BY <1>1 DEF IInv, RebuiltFromFragments, RebuiltIsSent, WellBehaved
<1> QED
    BY <1>2, <1>4, <1>5, <1>6 DEF IInv
----------------------------------------------------------------------------
(* A new datagram is empty, fresh and of its fragment's origin.            *)
LEMMA CreateStep == IInv /\ create_datagram => IInv'
<1> SUFFICES ASSUME IInv, create_datagram PROVE IInv'
    OBVIOUS
<1> DEFINE new == NewDatagram(fragment)
<1>0. /\ TypeOK /\ datagrams \in Seq(DatagramType) /\ fragment \in FragmentType
      /\ pc = "process" /\ fragment \in traffic /\ fragment.time = clock
    BY DEF create_datagram, Unknown, IInv, TypeOK
<1>1. /\ new \in DatagramType /\ new.key = fragment.key
      /\ new.last_seen_time = fragment.time /\ new.data = <<>> /\ new.ranges = <<>>
      /\ new.has_last_fragment = FALSE
    <2>1. /\ fragment.key \in Nat /\ fragment.time \in Nat
          /\ fragment.header_length \in Nat /\ fragment.offset \in Nat
        BY <1>0 DEF FragmentType
    <2>2. <<>> \in Seq(ByteType) /\ <<>> \in Seq(RangeType)
        OBVIOUS
    <2> QED
        BY <2>1, <2>2 DEF NewDatagram, DatagramType
<1>2. /\ datagrams' = Append(datagrams, new)
      /\ UNCHANGED <<used_bytes, pc, fragment, result, traffic, clock, jumped>>
    BY DEF create_datagram, network
<1> HIDE DEF new
<1>3. /\ datagrams' \in Seq(DatagramType) /\ Len(datagrams') = Len(datagrams) + 1
      /\ Len(datagrams) \in Nat
      /\ \A j \in 1..Len(datagrams) : datagrams'[j] = datagrams[j]
      /\ datagrams'[Len(datagrams) + 1] = new
    BY <1>0, <1>1, <1>2
<1>4. \A j \in 1..Len(datagrams') :
          \/ j \in 1..Len(datagrams) /\ datagrams'[j] = datagrams[j]
          \/ j = Len(datagrams) + 1 /\ datagrams'[j] = new
    BY <1>3
<1>5. Len(new.data) = 0 /\ Len(new.ranges) = 0
    BY <1>1
<1>6. Sound(new)
    BY <1>5 DEF Sound, Sorted, Filling, Placed, HeaderKept
<1>7. TypeOK'
    BY <1>0, <1>2, <1>3 DEF TypeOK
<1>8. BytesAccounted'
    <2> DEFINE s == Lengths(datagrams)
               t == Lengths(datagrams')
    <2>1. /\ s \in Seq(Int) /\ Len(s) = Len(datagrams)
          /\ \A j \in 1..Len(datagrams) : s[j] = Len(datagrams[j].data)
        BY <1>0, LengthsType
    <2>2. /\ t \in Seq(Int) /\ Len(t) = Len(datagrams')
          /\ \A j \in 1..Len(datagrams') : t[j] = Len(datagrams'[j].data)
        BY <1>3, LengthsType
    <2>3. used_bytes = SumSeq(s)
        BY DEF IInv, BytesAccounted, Lengths
    <2>4. SumSeq(t) = SumSeq(s) + t[Len(t)]
        <3> HIDE DEF s, t
        <3>1. Len(t) = Len(s) + 1 /\ \A j \in 1..Len(s) : t[j] = s[j]
            BY SMTT(30), <1>3, <2>1, <2>2
        <3> QED
            BY <2>1, <2>2, <3>1, SumAppend
    <2>5. t[Len(t)] = 0
        BY <1>3, <1>5, <2>2
    <2>6. SumSeq(s) \in Int
        BY <2>1, SumType
    <2>7. used_bytes' = SumSeq(t)
        <3> HIDE DEF s, t
        <3> QED
            BY <1>2, <2>3, <2>4, <2>5, <2>6
    <2>8. used_bytes' <= MaxBytes /\ Len(datagrams') <= MaxDatagrams
        <3>1. used_bytes <= MaxBytes /\ Len(datagrams) < MaxDatagrams /\ MaxDatagrams \in Nat
            BY FragmentAssumption DEF IInv, BytesAccounted, create_datagram
        <3> QED
            BY <1>2, <1>3, <3>1
    <2>9. ASSUME NEW j \in 1..Len(datagrams'), NEW k \in 1..Len(datagrams')
          PROVE  /\ Len(datagrams'[j].ranges) <= MaxRanges
                 /\ datagrams'[j].key = datagrams'[k].key => j = k
        <3>1. \A m \in 1..Len(datagrams) : datagrams[m].key # new.key
            BY <1>1 DEF create_datagram, Unknown, find_datagram
        <3>2. 0 <= MaxRanges
            BY FragmentAssumption
        <3> QED
            BY <1>4, <1>5, <3>1, <3>2 DEF IInv, BytesAccounted
    <2> QED
        BY <2>7, <2>8, <2>9 DEF BytesAccounted, Lengths
<1>9. AllSound'
    BY <1>4, <1>6 DEF IInv, AllSound
<1>10. Clocked'
    <2>1. new.last_seen_time <= clock
        BY <1>0, <1>1 DEF TypeOK
    <2> QED
        BY <1>2, <1>4, <2>1 DEF IInv, Clocked
<1>11. Fresh'
    <2>1. ~(Timeout # 0 /\ IdleSeconds(new, fragment.time) >= Timeout)
        <3>1. fragment.time \in Nat /\ Timeout \in Nat
            BY <1>0, FragmentAssumption DEF FragmentType
        <3> QED
            BY <1>1, <3>1 DEF IdleSeconds
    <2>2. \A j \in 1..Len(datagrams) :
              ~(Timeout # 0 /\ IdleSeconds(datagrams[j], fragment.time) >= Timeout)
        BY <1>0 DEF IInv, Fresh, Expired
    <2> QED
        BY <1>2, <1>4, <2>1, <2>2 DEF Fresh, Expired
<1>12. OneOrigin'
    <2>1. WellBehaved' = WellBehaved
        BY <1>2 DEF WellBehaved
    <2>2. Origin(new, fragment)
        BY <1>1, <1>5 DEF Origin
    <2> SUFFICES ASSUME WellBehaved, NEW j \in 1..Len(datagrams')
                 PROVE  \E g \in traffic : Origin(datagrams'[j], g)
        BY <1>2, <2>1 DEF OneOrigin, Origin
    <2>3. CASE j \in 1..Len(datagrams) /\ datagrams'[j] = datagrams[j]
        BY <2>3 DEF IInv, OneOrigin
    <2>4. CASE datagrams'[j] = new
        BY <1>0, <2>2, <2>4
    <2> QED
        BY <1>4, <2>3, <2>4
<1>13. RebuiltFromFragments' /\ RebuiltIsSent'
    BY <1>2 DEF IInv, RebuiltFromFragments, RebuiltIsSent, WellBehaved
<1> QED
    BY <1>7, <1>8, <1>9, <1>10, <1>11, <1>12, <1>13 DEF IInv

(* If the senders behave, a fragment that finds a datagram under its key   *)
(* is of the same origin: the expiry before the lookup saw to it.          *)
LEMMA SameOrigin ==
    ASSUME IInv, WellBehaved, NEW i, Known(i), NEW g \in traffic, Origin(datagrams[i], g)
    PROVE  fragment.sent = g.sent
<1>0. /\ TypeOK /\ pc = "process" /\ i \in 1..Len(datagrams)
      /\ datagrams[i].key = fragment.key /\ fragment \in traffic /\ fragment.time = clock
    BY DEF IInv, TypeOK, Known, find_datagram
<1>1. datagrams[i].last_seen_time = g.time /\ g.key = fragment.key
    BY <1>0 DEF Origin
<1>2. g.time \in Nat /\ fragment.time \in Nat /\ Timeout \in Nat
    <2>1. g \in FragmentType /\ fragment \in FragmentType
        BY <1>0, FragmentAssumption DEF TypeOK
    <2> QED
        BY <2>1, FragmentAssumption DEF FragmentType
<1>3. g.time <= fragment.time
    BY <1>0, <1>1 DEF IInv, Clocked, WellBehaved
<1>4. Timeout # 0 => fragment.time - g.time < Timeout
    <2>1. ~(Timeout # 0 /\ IdleSeconds(datagrams[i], fragment.time) >= Timeout)
        BY <1>0 DEF IInv, Fresh, Expired
    <2> QED
        BY <1>1, <1>2, <1>3, <2>1 DEF IdleSeconds
<1>5. fragment.sent # g.sent =>
          /\ Timeout # 0
          /\ fragment.time >= g.time + Timeout \/ g.time >= fragment.time + Timeout
    BY <1>0, <1>1 DEF WellBehaved
<1> QED
    BY <1>2, <1>3, <1>4, <1>5

(* The stored fragment: a sound datagram, one range and Growth(i) bytes    *)
(* larger, within the caps, of one origin if the senders behave.           *)
StoredWell(i) ==
    /\ Whole(i) \in DatagramType /\ Sound(Whole(i))
    /\ Growth(i) \in Nat /\ used_bytes + Growth(i) <= MaxBytes
    /\ Len(Whole(i).data) = Len(datagrams[i].data) + Growth(i)
    /\ Len(Whole(i).ranges) <= MaxRanges
    /\ Whole(i).key = datagrams[i].key /\ Whole(i).last_seen_time = fragment.time
    /\ WellBehaved => Origin(Whole(i), fragment)

(* What add_fragment leaves when it stores a fragment is a sound datagram  *)
(* within all limits.                                                      *)
LEMMA StoredFacts ==
    ASSUME IInv, NEW i \in 1..Len(datagrams), Stored(i)
    PROVE  StoredWell(i)
<1> DEFINE D == datagrams[i]
           W == Whole(i)
<1>0. /\ TypeOK /\ pc = "process" /\ fragment \in FragmentType /\ fragment \in traffic
      /\ D \in DatagramType /\ Sound(D) /\ D.key = fragment.key
    BY DEF IInv, TypeOK, AllSound, Stored, Known, find_datagram
<1>1. /\ ~fragment_is_malformed(fragment) /\ ~range_overlaps(D, fragment.offset, End(fragment))
      /\ ~(Len(D.ranges) >= MaxRanges)
      /\ BudgetAllows(Growth(i)) /\ Growth(i) = Additional(D, fragment)
    BY DEF Stored, Known, Conflict, Growth
<1>2. W = WholeOf(D, fragment)
    BY WholeIs
<1> HIDE DEF D, W
<1>3. /\ W \in DatagramType /\ Sound(W)
      /\ Len(W.data) = Len(D.data) + Additional(D, fragment)
      /\ Len(W.ranges) = Len(D.ranges) + 1
    BY <1>0, <1>1, <1>2, StoreSound
<1>4. Fields(D, fragment, W)
    BY <1>0, <1>2, WholeFields
<1>5. /\ Additional(D, fragment) \in Nat /\ End(fragment) \in Nat
      /\ Len(Buffer(D, fragment)) = Len(D.data) + Additional(D, fragment)
      /\ \A p \in 1..(Len(D.data) + Additional(D, fragment)) :
            Buffer(D, fragment)[p] =
                IF p \in (fragment.offset + 1)..End(fragment) THEN Byte(fragment, p - 1)
                ELSE IF p <= Len(D.data) THEN D.data[p] ELSE Zero
    BY <1>0, BufferFacts
<1>6. Growth(i) \in Nat /\ used_bytes + Growth(i) <= MaxBytes
    <2>1. used_bytes \in Nat /\ MaxBytes \in Nat /\ used_bytes <= MaxBytes
        BY FragmentAssumption DEF IInv, TypeOK, BytesAccounted
    <2> QED
        BY <1>1, <1>5, <2>1 DEF BudgetAllows
<1>7. Len(W.ranges) <= MaxRanges
    <2>1. Len(D.ranges) \in Nat /\ MaxRanges \in Nat
        <3>1. D.ranges \in Seq(RangeType)
            BY <1>0 DEF DatagramType
        <3> QED
            BY <3>1, FragmentAssumption
    <2> QED
        BY <1>1, <1>3, <2>1
<1>8. W.key = D.key /\ W.last_seen_time = fragment.time
    BY <1>4 DEF Fields
<1>9. ASSUME WellBehaved PROVE Origin(W, fragment)
    <2>1. PICK g \in traffic : Origin(D, g)
        BY <1>9 DEF IInv, OneOrigin, D
    <2>2. fragment.sent = g.sent
        <3>1. Known(i) /\ Origin(datagrams[i], g)
            BY <2>1 DEF Stored, D
        <3> QED
            BY <1>9, <3>1, SameOrigin
    <2>3. ASSUME NEW p \in 1..Len(W.data), W.data[p] # Zero
          PROVE  W.data[p].sent = fragment.sent
        <3>1. W.data = Buffer(D, fragment)
            BY <1>4 DEF Fields
        <3>2. p \in 1..(Len(D.data) + Additional(D, fragment))
            BY <1>3
        <3>3. W.data[p] = IF p \in (fragment.offset + 1)..End(fragment) THEN Byte(fragment, p - 1)
                          ELSE IF p <= Len(D.data) THEN D.data[p] ELSE Zero
            BY <1>5, <3>1, <3>2
        <3>4. CASE W.data[p] = Byte(fragment, p - 1)
            BY <3>4 DEF Byte
        <3>5. CASE p <= Len(D.data) /\ W.data[p] = D.data[p]
            <4>1. p \in 1..Len(D.data)
                <5>1. Len(D.data) \in Nat
                    <6>1. D.data \in Seq(ByteType)
                        BY <1>0 DEF DatagramType
                    <6> QED
                        BY <6>1
                <5> QED
                    BY <1>5, <3>2, <3>5, <5>1
            <4> QED
                BY <2>1, <2>2, <2>3, <3>5, <4>1 DEF Origin
        <3> QED
            BY <2>3, <3>3, <3>4, <3>5
    <2>4. ASSUME W.has_last_fragment
          PROVE  \E l \in traffic :
                     ~l.more /\ l.sent = fragment.sent /\ End(l) = W.total_payload_length
        <3>0. fragment.more \in BOOLEAN
            BY <1>0 DEF FragmentType
        <3>1. CASE ~fragment.more
            <4>1. W.total_payload_length = End(fragment)
                BY <1>4, <3>1 DEF Fields
            <4> QED
                BY <1>0, <3>1, <4>1
        <3>2. CASE fragment.more
            <4>1. D.has_last_fragment /\ W.total_payload_length = D.total_payload_length
                BY <1>4, <2>4, <3>2 DEF Fields
            <4> QED
                BY <2>1, <2>2, <4>1 DEF Origin
        <3> QED
            BY <3>0, <3>1, <3>2
    <2> QED
        BY <1>0, <1>8, <2>3, <2>4 DEF Origin
<1> QED
    BY <1>1, <1>3, <1>6, <1>7, <1>8, <1>9 DEF StoredWell, D, W

(* The datagram waits for more: it replaces its former self in the table.  *)
LEMMA QueueStep ==
    ASSUME IInv, NEW i \in 1..Len(datagrams), Queue(i)
    PROVE  IInv'
<1> DEFINE W == Whole(i)
<1>0. TypeOK /\ datagrams \in Seq(DatagramType) /\ Len(datagrams) \in Nat /\ used_bytes \in Nat
    BY DEF IInv, TypeOK
<1>1. StoredWell(i)
    BY StoredFacts DEF Queue
<1>2. /\ datagrams' = [datagrams EXCEPT ![i] = W]
      /\ used_bytes' = used_bytes + Growth(i)
      /\ result' = Only("QUEUED") /\ pc' = "idle" /\ fragment' = NoFragment
      /\ UNCHANGED network /\ UNCHANGED <<traffic, clock, jumped>>
    BY DEF Queue, network
<1>3. W \in DatagramType /\ Sound(W) /\ W.key = datagrams[i].key
    BY <1>1 DEF StoredWell
<1> HIDE DEF W
<1>4. /\ datagrams' \in Seq(DatagramType) /\ Len(datagrams') = Len(datagrams)
      /\ datagrams'[i] = W
      /\ \A j \in 1..Len(datagrams) : j # i => datagrams'[j] = datagrams[j]
    BY <1>0, <1>2, <1>3
<1>5. used_bytes' \in Nat /\ used_bytes' <= MaxBytes
    BY <1>0, <1>1, <1>2 DEF StoredWell
<1>6. BytesAccounted'
    <2> DEFINE s == Lengths(datagrams)
               t == Lengths(datagrams')
    <2>1. /\ s \in Seq(Int) /\ Len(s) = Len(datagrams) /\ s[i] \in Int
          /\ \A j \in 1..Len(datagrams) : s[j] = Len(datagrams[j].data)
        BY <1>0, LengthsType
    <2>2. /\ t \in Seq(Int) /\ Len(t) = Len(datagrams')
          /\ \A j \in 1..Len(datagrams') : t[j] = Len(datagrams'[j].data)
        BY <1>4, LengthsType
    <2>3. used_bytes = SumSeq(s)
        BY DEF IInv, BytesAccounted, Lengths
    <2>4. SumSeq(t) = SumSeq(s) + t[i] - s[i] /\ SumSeq(s) \in Int
        <3> HIDE DEF s, t
        <3>1. /\ Len(t) = Len(s) /\ i \in 1..Len(s)
              /\ \A j \in 1..Len(s) : j # i => t[j] = s[j]
            BY <1>4, <2>1, <2>2
        <3> QED
            BY <2>1, <2>2, <3>1, SumReplace, SumType
    <2>5. t[i] = s[i] + Growth(i) /\ Growth(i) \in Nat
        BY <1>1, <1>4, <2>1, <2>2 DEF StoredWell, W
    <2>6. used_bytes' = SumSeq(t)
        <3> HIDE DEF s, t
        <3> QED
            BY <1>2, <2>1, <2>3, <2>4, <2>5
    <2>7. Len(datagrams') <= MaxDatagrams
        BY <1>4 DEF IInv, BytesAccounted
    <2>8. \A j \in 1..Len(datagrams) :
              datagrams'[j].key = datagrams[j].key /\ Len(datagrams'[j].ranges) <= MaxRanges
        <3>1. Len(W.ranges) <= MaxRanges
            BY <1>1 DEF StoredWell, W
        <3> QED
            BY <1>3, <1>4, <3>1 DEF IInv, BytesAccounted
    <2>9. ASSUME NEW j \in 1..Len(datagrams'), NEW k \in 1..Len(datagrams')
          PROVE  /\ Len(datagrams'[j].ranges) <= MaxRanges
                 /\ datagrams'[j].key = datagrams'[k].key => j = k
        BY <1>4, <2>8 DEF IInv, BytesAccounted
    <2> QED
        BY <1>5, <2>6, <2>7, <2>9 DEF BytesAccounted, Lengths
<1>7. AllSound'
    BY <1>3, <1>4 DEF IInv, AllSound
<1>8. Clocked'
    <2>1. W.last_seen_time = fragment.time /\ fragment.time = clock /\ clock \in Nat
        BY <1>0, <1>1 DEF StoredWell, W, TypeOK, Queue, Stored, Known
    <2> QED
        BY <1>2, <1>4, <2>1 DEF IInv, Clocked
<1>9. OneOrigin'
    <2>1. WellBehaved' = WellBehaved
        BY <1>2 DEF WellBehaved
    <2> SUFFICES ASSUME WellBehaved, NEW j \in 1..Len(datagrams)
                 PROVE  \E g \in traffic : Origin(datagrams'[j], g)
        BY <1>2, <1>4, <2>1 DEF OneOrigin, Origin
    <2>2. CASE j = i
        <3>1. Origin(W, fragment)
            BY <1>1 DEF StoredWell, W
        <3>2. fragment \in traffic
            BY <1>0 DEF TypeOK, Queue, Stored, Known
        <3> QED
            BY <1>4, <2>2, <3>1, <3>2
    <2>3. CASE j # i
        BY <1>4, <2>3 DEF IInv, OneOrigin
    <2> QED
        BY <2>2, <2>3
<1>10. RebuiltFromFragments' /\ RebuiltIsSent'
    BY <1>2, NothingRebuilt
<1> QED
    BY <1>2, <1>4, <1>5, <1>6, <1>7, <1>8, <1>9, <1>10, ReturnStep

(* The completed datagram leaves the table; the capacity refunded is the   *)
(* one it has grown to.                                                    *)
LEMMA GrownRemoval ==
    ASSUME IInv, NEW i \in 1..Len(datagrams), Stored(i),
           remove_datagram_at(i, used_bytes + Growth(i), Len(Whole(i).data))
    PROVE  Removes(i)
<1> DEFINE n == Len(datagrams[i].data)
           m == Len(Whole(i).data)
<1>1. used_bytes \in Nat /\ n \in Nat
    BY LengthsType DEF IInv, TypeOK, Lengths
<1>2. Growth(i) \in Nat /\ m = n + Growth(i)
    BY StoredFacts DEF StoredWell
<1>3. TypeOK /\ BytesAccounted
    BY DEF IInv
<1>4. used_bytes + Growth(i) \in Nat /\ m \in Nat
      /\ (used_bytes + Growth(i)) - m = used_bytes - n
    <2> HIDE DEF n, m
    <2> QED
        BY <1>1, <1>2
<1> QED
    BY <1>3, <1>4, RemoveFacts

(* The rebuilt datagram is complete, and is the one sent if the senders    *)
(* behave.                                                                 *)
LEMMA ReassembleStep ==
    ASSUME IInv, NEW i \in 1..Len(datagrams), Reassemble(i)
    PROVE  IInv'
<1> DEFINE W == Whole(i)
<1>0. Stored(i) /\ coverage_is_complete(W)
    BY DEF Reassemble
<1>1. Removes(i)
    BY <1>0, GrownRemoval DEF Reassemble
<1>2. /\ result' = Built(W) /\ pc' = "idle" /\ fragment' = NoFragment
      /\ UNCHANGED network /\ UNCHANGED <<traffic, clock, jumped>>
    BY DEF Reassemble, Return, network
<1>3. W \in DatagramType /\ Sound(W) /\ (WellBehaved => Origin(W, fragment))
    BY <1>0, StoredFacts DEF StoredWell
<1> HIDE DEF W
<1> DEFINE total == W.total_payload_length
<1>4. /\ Built(W).result = "REASSEMBLED" /\ Built(W).header_offset = 0
      /\ Built(W).payload \in Seq(ByteType) /\ Len(Built(W).payload) = total
      /\ total \in Nat \ {0}
      /\ \A p \in 1..total :
            /\ Built(W).payload[p] = W.data[p]
            /\ W.data[p] # Zero /\ W.data[p].pos = p - 1
    BY <1>0, <1>3, BuiltFacts
<1>5. RebuiltFromFragments'
    <2>1. Built(W).payload # <<>>
        BY <1>4
    <2> QED
        BY <1>2, <1>4, <2>1 DEF RebuiltFromFragments
<1>6. RebuiltIsSent'
    <2>1. WellBehaved' = WellBehaved
        BY <1>2 DEF WellBehaved
    <2> SUFFICES ASSUME WellBehaved
                 PROVE  \E l \in traffic :
                            /\ ~l.more
                            /\ Built(W).payload = [p \in 1..End(l) |-> Byte(l, p - 1)]
        BY <1>2, <2>1 DEF RebuiltIsSent
    <2>2. W.has_last_fragment /\ total \in 1..Len(W.data)
        BY <1>0, <1>3, CompleteMeansFilled
    <2>3. PICK l \in traffic : ~l.more /\ l.sent = fragment.sent /\ End(l) = total
        BY <1>3, <2>2 DEF Origin
    <2>4. ASSUME NEW p \in 1..total PROVE Built(W).payload[p] = Byte(l, p - 1)
        <3>1. p \in 1..Len(W.data)
            BY <2>2
        <3>2. W.data[p].sent = l.sent /\ W.data[p].pos = p - 1
            BY <1>3, <1>4, <2>3, <3>1 DEF Origin
        <3>3. W.data[p] \in ByteType
            <4>1. W.data \in Seq(ByteType)
                BY <1>3 DEF DatagramType
            <4> QED
                BY <3>1, <4>1
        <3>4. W.data[p] = [sent |-> l.sent, pos |-> p - 1]
            BY <3>2, <3>3 DEF ByteType
        <3> QED
            BY <1>4, <3>4 DEF Byte
    <2> DEFINE s == Built(W).payload
    <2>5. s \in Seq(ByteType) /\ Len(s) = total /\ total \in Nat
        BY <1>4
    <2>6. s = [p \in 1..total |-> Byte(l, p - 1)]
        <3> HIDE DEF total
        <3>1. \A p \in 1..total : s[p] = Byte(l, p - 1)
            BY <2>4
        <3> HIDE DEF s
        <3>2. s = [p \in 1..total |-> s[p]]
            BY <2>5
        <3> QED
            BY <3>1, <3>2
    <2> QED
        BY <2>3, <2>6
<1> QED
    BY <1>1, <1>2, <1>5, <1>6, GiveUpStep

(* add_fragment on a known datagram: a conflict or a limit gives it up, or *)
(* the fragment is stored and the datagram waits, is rebuilt, or is lost   *)
(* for want of memory.                                                     *)
LEMMA AddFragmentStep == IInv /\ AddFragment => IInv'
<1> SUFFICES ASSUME IInv, NEW i \in 1..Len(datagrams),
                    Invalidate(i) \/ GiveUp(i) \/ Queue(i) \/ Reassemble(i) \/ BuildFails(i)
             PROVE  IInv'
    BY DEF AddFragment
<1>1. CASE Invalidate(i)
    <2>1. Removes(i)
        BY <1>1, PlainRemoval DEF Invalidate
    <2>2. RebuiltFromFragments' /\ RebuiltIsSent'
        BY <1>1, NothingRebuilt DEF Invalidate, Return
    <2> QED
        BY <1>1, <2>1, <2>2, GiveUpStep DEF Invalidate, Return
<1>2. CASE GiveUp(i)
    <2>1. Removes(i)
        BY <1>2, PlainRemoval DEF GiveUp
    <2>2. RebuiltFromFragments' /\ RebuiltIsSent'
        BY <1>2, NothingRebuilt DEF GiveUp, Return
    <2> QED
        BY <1>2, <2>1, <2>2, GiveUpStep DEF GiveUp, Return
<1>3. CASE Queue(i)
    BY <1>3, QueueStep
<1>4. CASE Reassemble(i)
    BY <1>4, ReassembleStep
<1>5. CASE BuildFails(i)
    <2>1. Removes(i)
        BY <1>5, GrownRemoval DEF BuildFails
    <2>2. RebuiltFromFragments' /\ RebuiltIsSent'
        BY <1>5, NothingRebuilt DEF BuildFails, Return
    <2> QED
        BY <1>5, <2>1, <2>2, GiveUpStep DEF BuildFails, Return
<1> QED
    BY <1>1, <1>2, <1>3, <1>4, <1>5

(* A step that changes no variable keeps the invariant.                    *)
LEMMA StutterStep == IInv /\ UNCHANGED vars => IInv'
BY DEF vars, IInv, TypeOK, BytesAccounted, AllSound, Clocked, Fresh, Expired, OneOrigin, Origin,
       WellBehaved, RebuiltFromFragments, RebuiltIsSent

(* Every step of the table keeps the invariant.                            *)
LEMMA NextIInv == IInv /\ [Next]_vars => IInv'
<1> SUFFICES ASSUME IInv, [Next]_vars PROVE IInv'
    OBVIOUS
<1>1. CASE \E f \in traffic : Receive(f)
    BY <1>1, ReceiveStep
<1>2. CASE expire
    BY <1>2, ExpireStep
<1>3. CASE Malformed \/ TableFull
    BY <1>3, RefuseStep
<1>4. CASE create_datagram
    BY <1>4, CreateStep
<1>5. CASE AddFragment
    BY <1>5, AddFragmentStep
<1>6. CASE table_cleanup
    BY <1>6, CleanupStep
<1>7. CASE Finished \/ UNCHANGED vars
    BY <1>7, StutterStep DEF Finished
<1> QED
    BY <1>1, <1>2, <1>3, <1>4, <1>5, <1>6, <1>7 DEF Next, Process

(* IInv holds in every state of the fragment table.                        *)
LEMMA Invariance == Spec => []IInv
<1>1. Init => IInv
    BY InitIInv
<1>2. IInv /\ [Next]_vars => IInv'
    BY NextIInv
<1> QED
    BY <1>1, <1>2, PTL DEF Spec
----------------------------------------------------------------------------
(* used_bytes is the memory the table owns on every path of                *)
(* ipv4_fragment_table_process, and no cap is exceeded.                    *)
THEOREM NoLeak == Spec => []BytesAccounted
<1>1. IInv => BytesAccounted
    BY DEF IInv
<1> QED
    BY <1>1, Invariance, PTL

(* add_range, ensure_capacity and the copy agree: ranges are sorted and    *)
(* disjoint, and a byte is cleared exactly where no range covers it.       *)
THEOREM RangesAreData == Spec => []RangesDescribeData
<1>1. IInv => RangesDescribeData
    <2> SUFFICES ASSUME IInv, NEW i \in 1..Len(datagrams)
                 PROVE  LET d == datagrams[i]
                            In(p, r) == r.start < p /\ p <= r.end
                        IN  /\ \A m, n \in 1..Len(d.ranges) :
                                  m < n => d.ranges[m].end <= d.ranges[n].start
                            /\ \A n \in 1..Len(d.ranges) :
                                  d.ranges[n].start < d.ranges[n].end /\ d.ranges[n].end <= Len(d.data)
                            /\ \A p \in 1..Len(d.data) :
                                  d.data[p] = Zero <=> ~\E n \in 1..Len(d.ranges) : In(p, d.ranges[n])
        BY DEF RangesDescribeData
    <2>1. Sound(datagrams[i])
        BY DEF IInv, AllSound
    <2> QED
        BY <2>1 DEF Sound, Sorted, Filling, Covers
<1> QED
    BY <1>1, Invariance, PTL

(* A rebuilt datagram consists of received bytes in their places under the *)
(* first fragment's header (coverage_is_complete, build_packet).           *)
THEOREM Rebuilt == Spec => []RebuiltFromFragments
<1>1. IInv => RebuiltFromFragments
    BY DEF IInv
<1> QED
    BY <1>1, Invariance, PTL

(* If keys are not reused within the timeout and time does not run back, a *)
(* rebuilt datagram is one that was sent: the expiry loop runs before the  *)
(* lookup.                                                                 *)
THEOREM RebuiltAsSent == Spec => []RebuiltIsSent
<1>1. IInv => RebuiltIsSent
    BY DEF IInv
<1> QED
    BY <1>1, Invariance, PTL
=============================================================================
