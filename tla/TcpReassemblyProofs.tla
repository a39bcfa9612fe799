------------------------ MODULE TcpReassemblyProofs ------------------------
(***************************************************************************)
(* Proofs about TcpReassembly for every stream length, buffer size,        *)
(* pending limit and modulus that satisfy ConstantsAssumption.             *)
(***************************************************************************)
EXTENDS TcpReassemblyCalls, SequenceLemmas, SequenceTheorems, TLAPS
----------------------------------------------------------------------------
(* Arithmetic modulo M.                                                    *)

(* The quotient and remainder of a division by a positive number.          *)
LEMMA DivMod ==
    ASSUME NEW M \in Nat \ {0}, NEW x \in Int
    PROVE  /\ x % M \in 0..(M - 1)
           /\ x \div M \in Int
           /\ x = M * (x \div M) + (x % M)
OBVIOUS

(* The remainder is the only number of 0..M-1 that differs from x by a     *)
(* multiple of M.                                                          *)
LEMMA ModUnique ==
    ASSUME NEW M \in Nat \ {0}, NEW q \in Int, NEW r \in 0..(M - 1)
    PROVE  (M * q + r) % M = r
<1> DEFINE x == M * q + r
           d == q - (x \div M)
<1>1. /\ x % M \in 0..(M - 1) /\ x \div M \in Int
      /\ x = M * (x \div M) + (x % M)
    BY DivMod
<1> HIDE DEF x
<1>2. d \in Int
    BY <1>1
<1>3. M * d = (x % M) - r
    BY <1>1 DEF x
<1> HIDE DEF d
<1>4. d >= 1 => M * d >= M
    BY <1>2
<1>5. d <= -1 => M * d <= -M
    BY <1>2
<1>6. d = 0
    BY <1>1, <1>2, <1>3, <1>4, <1>5
<1>7. M * d = 0
    BY <1>6
<1> QED
    BY <1>1, <1>3, <1>7 DEF x

(* Numbers that differ by a multiple of M have the same remainder.         *)
LEMMA ModPeriod ==
    ASSUME NEW M \in Nat \ {0}, NEW x \in Int, NEW y \in Int, NEW k \in Int,
           y = x + M * k
    PROVE  y % M = x % M
<1>1. /\ x % M \in 0..(M - 1) /\ x \div M \in Int
      /\ x = M * (x \div M) + (x % M)
    BY DivMod
<1> DEFINE q == (x \div M) + k
           r == x % M
<1>2. q \in Int /\ r \in 0..(M - 1)
    BY <1>1
<1>3. y = M * q + r
    BY <1>1
<1> HIDE DEF q, r
<1>4. (M * q + r) % M = r
    BY <1>2, ModUnique
<1> QED
    BY <1>3, <1>4 DEF r

(* A remainder may be taken before an addition or a subtraction.           *)
LEMMA ModAdd ==
    ASSUME NEW M \in Nat \ {0}, NEW x \in Int, NEW y \in Int
    PROVE  /\ ((x % M) + y) % M = (x + y) % M
           /\ ((x % M) - (y % M)) % M = (x - y) % M
<1> DEFINE q == x \div M
           p == y \div M
           r == x % M
           t == y % M
<1>1. /\ r \in Int /\ t \in Int /\ q \in Int /\ p \in Int
      /\ x = M * q + r /\ y = M * p + t
    BY DivMod
<1> HIDE DEF q, p, r, t
<1>2. ASSUME NEW u \in Int, NEW v \in Int, NEW k \in Int, u = v + M * k
      PROVE  u % M = v % M
    BY <1>2, ModPeriod
<1>3. (x + y) % M = (r + y) % M
    <2>1. x + y = (r + y) + M * q /\ x + y \in Int /\ r + y \in Int
        BY <1>1
    <2> QED BY ZenonT(40), <1>1, <1>2, <2>1
<1>4. (x - y) % M = (r - t) % M
    <2>1. x - y = (r - t) + M * (q - p)
        BY <1>1
    <2>2. x - y \in Int /\ r - t \in Int /\ q - p \in Int
        BY <1>1
    <2> HIDE <1>1
    <2> QED BY <1>2, <2>1, <2>2
<1> QED
    BY <1>3, <1>4 DEF r, t

(* The remainder of a number less than M away from 0.                      *)
LEMMA ModSmall ==
    ASSUME NEW M \in Nat \ {0}, NEW x \in Int
    PROVE  /\ 0 <= x /\ x < M => x % M = x
           /\ -M <= x /\ x < 0 => x % M = x + M
<1>1. ASSUME 0 <= x, x < M PROVE x % M = x
    <2>1. x = M * 0 + x /\ x \in 0..(M - 1)
        BY <1>1
    <2> QED BY <2>1, ModUnique
<1>2. ASSUME -M <= x, x < 0 PROVE x % M = x + M
    <2>1. x = M * (-1) + (x + M) /\ x + M \in 0..(M - 1)
        BY <1>2
    <2> QED BY <2>1, ModUnique
<1> QED
    BY <1>1, <1>2
----------------------------------------------------------------------------
(* Serial-number arithmetic on stream positions.                           *)

(* Sequence numbers wrap, yet sequence_before orders positions less than   *)
(* half the sequence space apart as the integers do, and differences of    *)
(* sequence numbers are differences of positions.                          *)
LEMMA SerialArithmetic ==
    ASSUME NEW a \in Int, NEW b \in Int, a - b < HalfMod, b - a < HalfMod
    PROVE  /\ Wire(a) \in 0..(SeqSpace - 1)
           /\ sequence_before(Wire(a), Wire(b)) <=> a < b
           /\ Wire(a) = Wire(b) <=> a = b
           /\ sequence_before_or_equal(Wire(a), Wire(b)) <=> a <= b
           /\ a <= b => (Wire(b) - Wire(a)) % SeqSpace = b - a
<1> USE ConstantsAssumption
<1>1. SeqSpace \in Nat \ {0} /\ SeqSpace = HalfMod + HalfMod
    BY DEF SeqSpace
<1>2. Wire(a) \in 0..(SeqSpace - 1) /\ Wire(b) \in 0..(SeqSpace - 1)
    <2>1. ISN + 1 + a \in Int /\ ISN + 1 + b \in Int
        OBVIOUS
    <2> QED BY <1>1, <2>1, DivMod, Zenon DEF Wire
<1>3. /\ (Wire(a) - Wire(b)) % SeqSpace = (a - b) % SeqSpace
      /\ (Wire(b) - Wire(a)) % SeqSpace = (b - a) % SeqSpace
    <2> DEFINE u == ISN + 1 + a
               w == ISN + 1 + b
    <2>1. u \in Int /\ w \in Int /\ u - w = a - b /\ w - u = b - a
        OBVIOUS
    <2>2. Wire(a) = u % SeqSpace /\ Wire(b) = w % SeqSpace
        BY DEF Wire
    <2> HIDE DEF u, w
    <2>3. /\ ((u % SeqSpace) - (w % SeqSpace)) % SeqSpace = (u - w) % SeqSpace
          /\ ((w % SeqSpace) - (u % SeqSpace)) % SeqSpace = (w - u) % SeqSpace
        BY <1>1, <2>1, ModAdd
    <2> QED BY <2>1, <2>2, <2>3
<1>4. /\ a >= b => (a - b) % SeqSpace = a - b
      /\ a < b => (a - b) % SeqSpace = a - b + SeqSpace
      /\ b >= a => (b - a) % SeqSpace = b - a
    <2>1. \A d \in Int : /\ 0 <= d /\ d < SeqSpace => d % SeqSpace = d
                         /\ -SeqSpace <= d /\ d < 0 => d % SeqSpace = d + SeqSpace
        BY <1>1, ModSmall
    <2>2. a - b \in Int /\ b - a \in Int
        OBVIOUS
    <2> QED BY <1>1, <2>1, <2>2
<1>5. sequence_before(Wire(a), Wire(b)) <=> a < b
    BY <1>1, <1>3, <1>4 DEF sequence_before
<1>6. Wire(a) = Wire(b) <=> a = b
    <2>1. Wire(a) = Wire(b) => (a - b) % SeqSpace = 0
        <3>1. 0 % SeqSpace = 0
            BY <1>1, ModSmall
        <3> QED BY <1>2, <1>3, <3>1
    <2> QED BY <2>1, <1>1, <1>4
<1> QED
    BY <1>2, <1>3, <1>4, <1>5, <1>6 DEF sequence_before_or_equal

(* Adding a length to a sequence number is adding it to the position.      *)
LEMMA WireAdd ==
    ASSUME NEW a \in Int, NEW k \in Int, NEW b \in Int, b = a + k
    PROVE  (Wire(a) + k) % SeqSpace = Wire(b)
<1>1. SeqSpace \in Nat \ {0} /\ ISN \in Int
    BY ConstantsAssumption DEF SeqSpace
<1> DEFINE u == ISN + 1 + a
<1>2. u \in Int /\ u + k = ISN + 1 + b
    BY <1>1
<1>3. Wire(a) = u % SeqSpace /\ Wire(b) = (u + k) % SeqSpace
    BY <1>2 DEF Wire
<1> HIDE DEF u
<1>4. ((u % SeqSpace) + k) % SeqSpace = (u + k) % SeqSpace
    BY <1>1, <1>2, ModAdd
<1> QED
    BY <1>3, <1>4
----------------------------------------------------------------------------
(* Sequences.                                                              *)

(* A function on 1..n is a sequence of length n.                           *)
LEMMA FunctionIsSequence ==
    ASSUME NEW S, NEW n \in Nat, NEW f \in [1..n -> S]
    PROVE  f \in Seq(S) /\ Len(f) = n
<1>1. f \in Seq(S)
    OBVIOUS
<1>2. Len(f) \in Nat /\ 1..Len(f) = 1..n
    BY <1>1, LenProperties
<1> QED
    BY <1>1, <1>2

(* Trimming drops the first n bytes.                                       *)
LEMMA TrimmedProperties ==
    ASSUME NEW S, NEW d \in Seq(S), NEW n \in Nat
    PROVE  /\ Trimmed(d, n) \in Seq(S)
           /\ n <= Len(d) => Len(Trimmed(d, n)) = Len(d) - n
           /\ n <= Len(d) => \A j \in 1..(Len(d) - n) : Trimmed(d, n)[j] = d[n + j]
           /\ n > Len(d) => Trimmed(d, n) = <<>>
BY DEF Trimmed

(* The first n bytes.                                                      *)
LEMMA PrefixProperties ==
    ASSUME NEW S, NEW d \in Seq(S), NEW n \in Nat, n <= Len(d)
    PROVE  /\ SubSeq(d, 1, n) \in Seq(S)
           /\ Len(SubSeq(d, 1, n)) = n
           /\ \A i \in 1..n : SubSeq(d, 1, n)[i] = d[i]
OBVIOUS

(* A run that is trimmed, or cut short, is a run.                          *)
LEMMA PartOfRun ==
    ASSUME NEW d \in Seq(Int), IsRun(d), NEW n \in 0..(Len(d) - 1)
    PROVE  /\ IsRun(Trimmed(d, n)) /\ Trimmed(d, n)[1] = d[1] + n
           /\ IsRun(SubSeq(d, 1, n))
           /\ n > 0 => SubSeq(d, 1, n)[1] = d[1]
<1>1. /\ Len(Trimmed(d, n)) = Len(d) - n
      /\ \A j \in 1..(Len(d) - n) : Trimmed(d, n)[j] = d[n + j]
    <2>1. n \in Nat /\ n <= Len(d)
        OBVIOUS
    <2> QED BY <2>1, TrimmedProperties
<1>2. \A i \in 1..Len(d) : d[i] = d[1] + i - 1 /\ d[1] \in Int
    BY DEF IsRun
<1>3. Trimmed(d, n)[1] = d[1] + n
    <2>1. 1 \in 1..(Len(d) - n) /\ n + 1 \in 1..Len(d)
        OBVIOUS
    <2> QED BY <1>1, <1>2, <2>1
<1>4. ASSUME NEW j \in 1..(Len(d) - n)
      PROVE  Trimmed(d, n)[j] = (d[1] + n) + j - 1
    <2>1. n + j \in 1..Len(d)
        OBVIOUS
    <2>2. Trimmed(d, n)[j] = d[n + j]
        BY <1>1
    <2>3. d[n + j] = d[1] + (n + j) - 1 /\ d[1] \in Int
        BY <1>2, <2>1
    <2>4. j \in Int /\ n \in Int
        OBVIOUS
    <2>5. d[1] + (n + j) - 1 = (d[1] + n) + j - 1
        BY <2>3, <2>4
    <2> QED BY <2>2, <2>3, <2>5
<1>5. IsRun(Trimmed(d, n))
    BY <1>1, <1>3, <1>4 DEF IsRun
<1>6. /\ Len(SubSeq(d, 1, n)) = n
      /\ \A i \in 1..n : SubSeq(d, 1, n)[i] = d[i]
    OBVIOUS
<1> QED
    BY <1>2, <1>3, <1>5, <1>6 DEF IsRun

(* A run extended with a run that continues it is a run.                   *)
LEMMA RunConcat ==
    ASSUME NEW a \in Seq(Int), NEW b \in Seq(Int), IsRun(a), IsRun(b),
           Len(a) > 0 /\ Len(b) > 0 => b[1] = a[Len(a)] + 1
    PROVE  IsRun(a \o b)
<1>1. CASE Len(a) = 0
    <2>1. a \o b = b
        BY <1>1
    <2> QED BY <2>1
<1>2. CASE Len(a) > 0
    <2>1. /\ Len(a \o b) = Len(a) + Len(b)
          /\ \A i \in 1..Len(a) : (a \o b)[i] = a[i]
          /\ \A i \in (Len(a) + 1)..(Len(a) + Len(b)) : (a \o b)[i] = b[i - Len(a)]
        OBVIOUS
    <2>2. ASSUME NEW i \in 1..Len(a \o b)
          PROVE  (a \o b)[i] = (a \o b)[1] + i - 1
        <3>1. CASE i <= Len(a)
            BY <1>2, <2>1, <3>1 DEF IsRun
        <3>2. CASE i > Len(a)
            <4>1. b[i - Len(a)] = b[1] + (i - Len(a)) - 1
                BY <2>1, <3>2 DEF IsRun
            <4>2. a[Len(a)] = a[1] + Len(a) - 1
                BY <1>2 DEF IsRun
            <4>3. Len(b) > 0 /\ b[1] \in Int /\ a[1] \in Int
                BY <1>2, <2>1, <3>2
            <4>4. (a \o b)[i] = b[i - Len(a)] /\ (a \o b)[1] = a[1]
                BY <1>2, <2>1, <3>2
            <4> QED BY <1>2, <4>1, <4>2, <4>3, <4>4
        <3> QED BY <3>1, <3>2
    <2> QED BY <2>2 DEF IsRun
<1> QED
    BY <1>1, <1>2
----------------------------------------------------------------------------
(* Segments.                                                               *)

(* What the assumptions say of one segment: its payload is the run that    *)
(* starts at its position, and its header names that position.             *)
LEMMA SegmentFacts ==
    ASSUME NEW s \in Segments
    PROVE  /\ s.pos \in Position /\ s.len \in 0..StreamLen
           /\ s.syn \in BOOLEAN /\ s.fin \in BOOLEAN /\ s.rst \in BOOLEAN
           /\ s.len > 0 => s.pos + s.len <= StreamLen
           /\ payload(s) \in Seq(0..StreamLen)
           /\ Len(payload(s)) = s.len
           /\ \A i \in 1..s.len : payload(s)[i] = s.pos + i - 1
           /\ payload_sequence(s) = Wire(s.pos)
           /\ SegmentEnd(payload_sequence(s), s.len) = Wire(s.pos + s.len)
<1> USE ConstantsAssumption
<1>1. /\ s.pos \in Position /\ s.len \in 0..StreamLen
      /\ s.syn \in BOOLEAN /\ s.fin \in BOOLEAN /\ s.rst \in BOOLEAN
      /\ s.len > 0 => s.pos + s.len <= StreamLen
    <2>1. s \in SegmentType
        OBVIOUS
    <2> QED BY <2>1 DEF SegmentType, Position
<1>2. /\ payload(s) \in Seq(0..StreamLen)
      /\ Len(payload(s)) = s.len
      /\ \A i \in 1..s.len : payload(s)[i] = s.pos + i - 1
    <2>1. \A i \in 1..s.len : s.pos + i - 1 \in 0..StreamLen
        BY <1>1 DEF Position
    <2>2. payload(s) \in [1..s.len -> 0..StreamLen] /\ s.len \in Nat
        BY <1>1, <2>1 DEF payload
    <2>3. payload(s) \in Seq(0..StreamLen) /\ Len(payload(s)) = s.len
        BY <2>2, FunctionIsSequence, Zenon
    <2> QED BY <2>3 DEF payload
<1>3. payload_sequence(s) = Wire(s.pos)
    <2>1. s.pos \in Int /\ s.pos - 1 \in Int /\ (s.pos - 1) + 1 = s.pos
        BY <1>1 DEF Position
    <2> DEFINE before == s.pos - 1
    <2>2. before \in Int /\ s.pos = before + 1 /\ sequence(s) = Wire(IF s.syn THEN before ELSE s.pos)
        BY <2>1 DEF sequence
    <2> HIDE DEF before
    <2>3. (Wire(before) + 1) % SeqSpace = Wire(s.pos)
        BY <2>1, <2>2, WireAdd
    <2> QED BY <2>2, <2>3 DEF payload_sequence
<1>4. SegmentEnd(payload_sequence(s), s.len) = Wire(s.pos + s.len)
    <2>1. s.pos \in Int /\ s.len \in Int /\ s.pos + s.len \in Int
        BY <1>1 DEF Position
    <2>2. (Wire(s.pos) + s.len) % SeqSpace = Wire(s.pos + s.len)
        BY <2>1, WireAdd
    <2> QED BY <1>3, <2>2 DEF SegmentEnd
<1> QED
    BY <1>1, <1>2, <1>3, <1>4
----------------------------------------------------------------------------
(* Type correctness.                                                       *)

(* The sequence space is not empty.                                        *)
LEMMA SeqSpaceNat == SeqSpace \in Nat \ {0} /\ 0 \in 0..(SeqSpace - 1)
BY ConstantsAssumption DEF SeqSpace

(* Sequence numbers computed by the code stay in the sequence space.       *)
LEMMA SeqSpaceClosed ==
    /\ \A x \in Int : x % SeqSpace \in 0..(SeqSpace - 1)
    /\ \A p \in Int : Wire(p) \in 0..(SeqSpace - 1)
<1>1. SeqSpace \in Nat \ {0} /\ ISN \in Int
    BY ConstantsAssumption, SeqSpaceNat
<1>2. \A x \in Int : x % SeqSpace \in 0..(SeqSpace - 1)
    BY <1>1, DivMod
<1>3. ASSUME NEW p \in Int PROVE Wire(p) \in 0..(SeqSpace - 1)
    <2>1. ISN + 1 + p \in Int
        BY <1>1
    <2> QED BY <1>2, <2>1 DEF Wire
<1> QED
    BY <1>1, <1>2, <1>3

(* Removing a pending entry keeps the pending store well typed.            *)
LEMMA RemovePendingType ==
    ASSUME TypeOK, NEW i \in 1..Len(pending), remove_pending_at(i)
    PROVE  /\ pending' \in Seq(PendingType) /\ Len(pending') <= MaxPending
           /\ pending_bytes' \in Int
           /\ pending[i].data \in Seq(0..StreamLen)
           /\ pending[i].sequence \in 0..(SeqSpace - 1)
<1>1. pending \in Seq(PendingType) /\ Len(pending) <= MaxPending
    BY DEF TypeOK
<1>2. /\ RemoveAt(pending, i) \in Seq(PendingType)
      /\ Len(RemoveAt(pending, i)) = Len(pending) - 1
    BY <1>1, RemoveAtElements
<1>3. pending[i] \in PendingType
    BY <1>1
<1>4. /\ pending[i].data \in Seq(0..StreamLen)
      /\ pending[i].sequence \in 0..(SeqSpace - 1)
    BY <1>3 DEF PendingType
<1>5. Len(pending[i].data) \in Int
    BY <1>4
<1> QED
    BY <1>1, <1>2, <1>4, <1>5, ConstantsAssumption DEF remove_pending_at, TypeOK

(* Each branch of process_segment keeps the types.                         *)
LEMMA ProcessSegmentType ==
    ASSUME TypeOK, NEW s \in Segments, ProcessSegment(s)
    PROVE  TypeOK'
<1> DEFINE n == IF initial_sequence_known THEN next_sequence ELSE payload_sequence(s)
<1>a. /\ s.len \in Nat /\ s.len \in Int
      /\ s.fin \in BOOLEAN /\ s.rst \in BOOLEAN
      /\ payload(s) \in Seq(0..StreamLen)
      /\ payload_sequence(s) \in 0..(SeqSpace - 1)
    <2>1. s.pos \in Int
        BY SegmentFacts DEF Position
    <2>2. Wire(s.pos) \in 0..(SeqSpace - 1)
        BY <2>1, SeqSpaceClosed
    <2> QED BY <2>2, SegmentFacts, ConstantsAssumption
<1>b. SeqSpace \in Nat \ {0}
    BY SeqSpaceNat
<1>c. \A x \in Int : x % SeqSpace \in 0..(SeqSpace - 1)
    BY SeqSpaceClosed
<1>1. n \in 0..(SeqSpace - 1) /\ n \in Int
    BY <1>a, <1>b DEF TypeOK
<1>2. /\ initial_sequence_known' \in BOOLEAN
      /\ fin_seen' \in BOOLEAN /\ rst_seen' \in BOOLEAN
      /\ deliveries' \in 0..MaxDeliveries
      /\ capacity' = capacity /\ pending_byte_cap' = pending_byte_cap
    BY <1>a, ConstantsAssumption DEF TypeOK, ProcessSegment
<1>3. ToSet(payload(s)) \subseteq 0..StreamLen
    <2>1. \A i \in DOMAIN payload(s) : payload(s)[i] \in 0..StreamLen
        <3>1. DOMAIN payload(s) = 1..Len(payload(s))
            BY <1>a
        <3> QED BY <1>a, <3>1, ElementOfSeq, Zenon
    <2> QED BY <2>1 DEF ToSet
<1>4. \/ EmptySegment(s, n) \/ Retransmission(s, n)
      \/ OutOfOrder(s, n) \/ InOrder(s, n)
    BY DEF ProcessSegment
<1> HIDE DEF n
<1>5. CASE EmptySegment(s, n)
    <2>1. (n + 1) % SeqSpace \in 0..(SeqSpace - 1)
        BY <1>1, <1>c
    <2> QED BY <1>1, <1>2, <1>5, <2>1 DEF TypeOK, EmptySegment, Return, Results, store
<1>6. CASE Retransmission(s, n)
    <2>1. counters' \in [CounterNames -> Nat]
        BY <1>6 DEF TypeOK, Retransmission, Count, CounterNames
    <2> QED BY <1>1, <1>2, <1>6, <2>1 DEF TypeOK, Retransmission, Return, Results, store
<1>7. CASE OutOfOrder(s, n)
    <2>1. counters' \in [CounterNames -> Nat]
        BY <1>7 DEF TypeOK, OutOfOrder, Count, CounterNames
    <2>2. /\ pending' \in Seq(PendingType) /\ Len(pending') <= MaxPending
          /\ pending_bytes' \in Int /\ kept' \subseteq 0..StreamLen
          /\ result' \in Results /\ pc' \in {"idle", "flush"}
        <3>1. CASE UNCHANGED <<store, kept>> /\ Return("DROPPED")
            BY <3>1 DEF TypeOK, Return, Results, store
        <3>2. CASE /\ PendingRoom(s.len) /\ Return("BUFFERED")
                   /\ pending' = Append(pending, [sequence |-> payload_sequence(s),
                                                  data |-> payload(s)])
                   /\ pending_bytes' = pending_bytes + s.len
                   /\ kept' = kept \cup ToSet(payload(s))
            <4>1. [sequence |-> payload_sequence(s), data |-> payload(s)] \in PendingType
                BY <1>a DEF PendingType
            <4>2. pending' \in Seq(PendingType) /\ Len(pending') = Len(pending) + 1
                BY <3>2, <4>1 DEF TypeOK
            <4>3. Len(pending) < MaxPending /\ Len(pending) \in Nat /\ MaxPending \in Nat
                BY <3>2, ConstantsAssumption DEF TypeOK, PendingRoom
            <4>4. kept' \subseteq 0..StreamLen
                BY <1>3, <3>2 DEF TypeOK
            <4>5. pending_bytes' \in Int
                BY <1>a, <3>2 DEF TypeOK
            <4> QED BY <3>2, <4>2, <4>3, <4>4, <4>5 DEF Return, Results
        <3> QED BY <1>7, <3>1, <3>2 DEF OutOfOrder
    <2> QED BY <1>1, <1>2, <1>7, <2>1, <2>2 DEF TypeOK, OutOfOrder
<1>8. CASE InOrder(s, n)
    <2> DEFINE overlap == sequence_before(payload_sequence(s), n)
               trim == IF overlap THEN (n - payload_sequence(s)) % SeqSpace ELSE 0
               new == Trimmed(payload(s), trim)
               room == capacity - Len(stream)
               end == SegmentEnd(n, Len(new))
    <2>1. payload_sequence(s) \in Int
        BY <1>a, <1>b
    <2>2. trim \in Nat
        <3>1. n - payload_sequence(s) \in Int
            BY <1>1, <2>1
        <3>2. (n - payload_sequence(s)) % SeqSpace \in Nat
            BY <1>b, <1>c, <3>1
        <3> QED BY <3>2
    <2>3. new \in Seq(0..StreamLen) /\ Len(new) \in Nat
        <3> HIDE DEF trim
        <3>1. new \in Seq(0..StreamLen)
            BY <1>a, <2>2, TrimmedProperties
        <3> HIDE DEF new
        <3> QED BY <3>1
    <2>4. end \in 0..(SeqSpace - 1) /\ (end + 1) % SeqSpace \in 0..(SeqSpace - 1)
        <3> HIDE DEF new
        <3>1. end \in 0..(SeqSpace - 1)
            <4>1. n + Len(new) \in Int
                BY <1>1, <2>3
            <4> QED BY <1>c, <4>1 DEF SegmentEnd
        <3> HIDE DEF end
        <3>2. end + 1 \in Int
            BY <1>b, <3>1
        <3> QED BY <1>c, <3>1, <3>2
    <2>5. room \in Nat
        BY ConstantsAssumption DEF TypeOK
    <2>6. counters' \in [CounterNames -> Nat]
        BY <1>8 DEF TypeOK, InOrder, Count, CounterNames
    <2>7. kept' \subseteq 0..StreamLen /\ UNCHANGED store
        BY <1>3, <1>8 DEF TypeOK, InOrder
    <2>8. \/ /\ Len(new) <= room /\ stream' = stream \o new
             /\ next_sequence' = IF s.fin THEN (end + 1) % SeqSpace ELSE end
             /\ pc' = "flush" /\ UNCHANGED <<unusable, result>>
          \/ /\ Len(new) > room /\ stream' = stream \o SubSeq(new, 1, room)
             /\ unusable' = TRUE /\ next_sequence' = n
             /\ Return(IF room > 0 THEN "ACCEPTED" ELSE "DROPPED")
        <3>1. \/ /\ Len(new) <= room /\ stream' = stream \o new
                 /\ next_sequence' = IF s.fin THEN (end + 1) % SeqSpace ELSE end
                 /\ pc' = "flush" /\ UNCHANGED <<unusable, result>>
              \/ /\ ~(Len(new) <= room) /\ stream' = stream \o SubSeq(new, 1, room)
                 /\ unusable' = TRUE /\ next_sequence' = n
                 /\ Return(IF room > 0 THEN "ACCEPTED" ELSE "DROPPED")
            BY <1>8 DEF InOrder
        <3> HIDE DEF new, room, end
        <3> QED BY <2>3, <2>5, <3>1
    <2> HIDE DEF trim, new, room, end
    <2>9. stream' \in Seq(0..StreamLen) /\ Len(stream') <= capacity
        <3>1. stream \in Seq(0..StreamLen) /\ Len(stream) \in Nat /\ capacity \in Nat
              /\ room = capacity - Len(stream)
            BY ConstantsAssumption DEF TypeOK, room
        <3>2. CASE Len(new) <= room /\ stream' = stream \o new
            BY <2>3, <2>5, <3>1, <3>2
        <3>3. CASE Len(new) > room /\ stream' = stream \o SubSeq(new, 1, room)
            <4>1. SubSeq(new, 1, room) \in Seq(0..StreamLen) /\ Len(SubSeq(new, 1, room)) = room
                <5>1. room <= Len(new)
                    BY <2>3, <2>5, <3>3
                <5> QED BY <2>3, <2>5, <5>1, PrefixProperties, Zenon
            <4> QED BY <2>5, <3>1, <3>3, <4>1
        <3> QED BY <2>8, <3>2, <3>3, Zenon
    <2>10. /\ next_sequence' \in 0..(SeqSpace - 1) /\ unusable' \in BOOLEAN
           /\ pc' \in {"idle", "flush"} /\ result' \in Results
        BY <1>1, <2>4, <2>8 DEF TypeOK, Return, Results
    <2> QED BY <1>2, <2>6, <2>7, <2>9, <2>10 DEF TypeOK, store
<1> QED
    BY <1>4, <1>5, <1>6, <1>7, <1>8

(* Each iteration of the flush loop keeps the types.                       *)
LEMMA FlushStepType ==
    ASSUME TypeOK, FlushStep
    PROVE  TypeOK'
<1>1. PICK i \in 1..Len(pending) : FlushStale(i) \/ FlushAppend(i)
    BY DEF FlushStep
<1>2. /\ UNCHANGED <<initial_sequence_known, flags, capacity, pending_byte_cap>>
      /\ UNCHANGED <<kept, deliveries>>
    BY DEF FlushStep
<1>3. CASE FlushStale(i)
    <2>1. counters' \in [CounterNames -> Nat]
        BY <1>3 DEF TypeOK, FlushStale, Count, CounterNames
    <2>2. /\ pending' \in Seq(PendingType) /\ Len(pending') <= MaxPending
          /\ pending_bytes' \in Int
        BY <1>3, RemovePendingType DEF FlushStale
    <2> QED BY <1>2, <1>3, <2>1, <2>2 DEF TypeOK, FlushStale, flags
<1>4. CASE FlushAppend(i)
    <2> DEFINE trim == (next_sequence - pending[i].sequence) % SeqSpace
               new == Trimmed(pending[i].data, trim)
               fits == Len(new) <= capacity - Len(stream)
    <2>1. counters' \in [CounterNames -> Nat]
        BY <1>4 DEF TypeOK, FlushAppend, Count, CounterNames
    <2>2. /\ pending[i].data \in Seq(0..StreamLen)
          /\ pending[i].sequence \in 0..(SeqSpace - 1)
        <3>1. pending[i] \in PendingType
            BY DEF TypeOK
        <3> QED BY <3>1 DEF PendingType
    <2>3. trim \in Nat
        <3>1. next_sequence - pending[i].sequence \in Int
            BY <2>2, SeqSpaceNat DEF TypeOK
        <3>2. (next_sequence - pending[i].sequence) % SeqSpace \in 0..(SeqSpace - 1)
            BY <3>1, SeqSpaceClosed
        <3>3. SeqSpace \in Nat
            BY SeqSpaceNat
        <3> QED BY <3>2, <3>3
    <2>4. new \in Seq(0..StreamLen) /\ Len(new) \in Nat
        <3> HIDE DEF trim
        <3>1. new \in Seq(0..StreamLen)
            BY <2>2, <2>3, TrimmedProperties
        <3> HIDE DEF new
        <3> QED BY <3>1
    <2>5. PendingEnd(i) \in 0..(SeqSpace - 1)
        <3>1. pending[i].sequence + Len(pending[i].data) \in Int
            BY <2>2, SeqSpaceNat
        <3> QED BY <3>1, SeqSpaceClosed DEF PendingEnd, SegmentEnd
    <2>6. \/ /\ fits /\ stream' = stream \o new /\ next_sequence' = PendingEnd(i)
             /\ remove_pending_at(i) /\ UNCHANGED <<unusable, pc, result>>
          \/ /\ unusable' = TRUE /\ Return("DROPPED")
             /\ UNCHANGED <<next_sequence, stream, store>>
        BY <1>4 DEF FlushAppend
    <2> HIDE DEF trim, new
    <2>7. CASE /\ fits /\ stream' = stream \o new /\ next_sequence' = PendingEnd(i)
               /\ remove_pending_at(i) /\ UNCHANGED <<unusable, pc, result>>
        <3>1. /\ pending' \in Seq(PendingType) /\ Len(pending') <= MaxPending
              /\ pending_bytes' \in Int
            BY <2>7, RemovePendingType
        <3>2. stream' \in Seq(0..StreamLen) /\ Len(stream') <= capacity
            BY <2>4, <2>7, ConstantsAssumption DEF TypeOK
        <3> QED BY <1>2, <2>1, <2>5, <2>7, <3>1, <3>2 DEF TypeOK, flags
    <2>8. CASE /\ unusable' = TRUE /\ Return("DROPPED")
               /\ UNCHANGED <<next_sequence, stream, store>>
        BY <1>2, <2>1, <2>8 DEF TypeOK, flags, store, Return, Results
    <2> QED BY <2>6, <2>7, <2>8
<1> QED
    BY <1>1, <1>3, <1>4

(* A zeroed struct is well typed.                                          *)
LEMMA ZeroedTypes ==
    /\ 0 \in 0..(SeqSpace - 1)
    /\ NoCounts \in [CounterNames -> Nat]
    /\ <<>> \in Seq(0..StreamLen) /\ <<>> \in Seq(PendingType) /\ Len(<<>>) = 0
    /\ {} \subseteq 0..StreamLen /\ "NONE" \in Results
    /\ 0 <= BufferBytes /\ 0 <= MaxPending /\ 0 \in 0..MaxDeliveries
<1>1. NoCounts \in [CounterNames -> Nat] /\ "NONE" \in Results
    BY DEF NoCounts, CounterNames, Results
<1>2. <<>> \in Seq(0..StreamLen) /\ <<>> \in Seq(PendingType) /\ Len(<<>>) = 0
    BY EmptySeq, Zenon
<1> QED
    BY <1>1, <1>2, SeqSpaceNat, ConstantsAssumption

(* The zeroed struct is well typed.                                        *)
LEMMA TypeInit == Init => TypeOK
<1> SUFFICES ASSUME Init PROVE TypeOK
    OBVIOUS
<1>1. /\ next_sequence \in 0..(SeqSpace - 1) /\ counters \in [CounterNames -> Nat]
      /\ stream \in Seq(0..StreamLen) /\ pending \in Seq(PendingType)
      /\ kept \subseteq 0..StreamLen /\ deliveries \in 0..MaxDeliveries
      /\ result \in Results
    BY ZeroedTypes, Zenon DEF Init
<1>2. /\ Len(stream) <= capacity /\ capacity \in {0, BufferBytes}
      /\ Len(pending) <= MaxPending /\ pending_byte_cap \in {0, BufferBytes}
    BY ZeroedTypes DEF Init
<1>3. /\ initial_sequence_known \in BOOLEAN /\ unusable \in BOOLEAN
      /\ fin_seen \in BOOLEAN /\ rst_seen \in BOOLEAN
      /\ pc \in {"idle", "flush"}
    BY Zenon DEF Init
<1>4. pending_bytes \in Int
    BY DEF Init
<1> QED BY <1>1, <1>2, <1>3, <1>4 DEF TypeOK

(* Every step keeps the types.                                             *)
LEMMA TypeStep == TypeOK /\ [Next]_vars => TypeOK'
<1> SUFFICES ASSUME TypeOK, [Next]_vars PROVE TypeOK'
    OBVIOUS
<1>1. ASSUME NEW size \in {0, BufferBytes}, Reset(size) PROVE TypeOK'
    <2>1. /\ next_sequence' \in 0..(SeqSpace - 1) /\ counters' \in [CounterNames -> Nat]
          /\ stream' \in Seq(0..StreamLen) /\ pending' \in Seq(PendingType)
          /\ kept' \subseteq 0..StreamLen
        BY <1>1, ZeroedTypes, Zenon DEF Reset
    <2>2. /\ Len(stream') <= capacity' /\ capacity' \in {0, BufferBytes}
          /\ Len(pending') <= MaxPending /\ pending_byte_cap' \in {0, BufferBytes}
        BY <1>1, ZeroedTypes, ConstantsAssumption DEF Reset
    <2>3. /\ initial_sequence_known' \in BOOLEAN /\ unusable' \in BOOLEAN
          /\ fin_seen' \in BOOLEAN /\ rst_seen' \in BOOLEAN
        BY <1>1, Zenon DEF Reset
    <2>4. pending_bytes' \in Int
        BY <1>1 DEF Reset
    <2>5. UNCHANGED <<pc, result, deliveries>>
        BY <1>1 DEF Reset
    <2> QED BY <2>1, <2>2, <2>3, <2>4, <2>5 DEF TypeOK
<1>2. CASE DirectionInit \/ DirectionCleanup
    BY <1>1, <1>2 DEF DirectionInit, DirectionCleanup
<1>3. CASE ReleaseBuffers
    BY <1>3, ConstantsAssumption DEF ReleaseBuffers, TypeOK, sequencing, flags
<1>4. CASE DropUnusable
    BY <1>4 DEF DropUnusable, Return, Results, TypeOK, sequencing, flags, store
<1>5. CASE FlushStep
    BY <1>5, FlushStepType
<1>6. CASE FlushDone
    BY <1>6 DEF FlushDone, Return, Results, TypeOK, sequencing, flags, store
<1>7. ASSUME NEW s \in Segments, TrackFlags(s) PROVE TypeOK'
    BY <1>7, SegmentFacts DEF TrackFlags, TypeOK, sequencing, store
<1>8. ASSUME NEW s \in Segments, ProcessSegment(s) PROVE TypeOK'
    BY <1>8, ProcessSegmentType
<1>9. CASE UNCHANGED vars
    BY <1>9 DEF vars, TypeOK, sequencing, flags, store
<1> QED
    BY <1>2, <1>3, <1>4, <1>5, <1>6, <1>7, <1>8, <1>9
       DEF Next, flush_pending_segments

(* The fields of the struct keep their types in every state: in particular *)
(* the stream never outgrows its allocation and the pending array its      *)
(* fixed size.                                                             *)
THEOREM TypeCorrect == Spec => []TypeOK
BY TypeInit, TypeStep, PTL DEF Spec
----------------------------------------------------------------------------
(* The byte account of the pending store.                                  *)

\* The payload lengths the pending entries of q own.
Owned(q) == [i \in 1..Len(q) |-> Len(q[i].data)]

(* The lengths of a pending store are natural numbers, one per entry.      *)
LEMMA OwnedType ==
    ASSUME NEW q \in Seq(PendingType)
    PROVE  /\ Owned(q) \in Seq(Nat) /\ Owned(q) \in Seq(Int)
           /\ Len(Owned(q)) = Len(q)
           /\ \A i \in 1..Len(q) : Owned(q)[i] = Len(q[i].data)
<1>1. ASSUME NEW i \in 1..Len(q) PROVE Len(q[i].data) \in Nat
    <2>1. q[i] \in PendingType
        OBVIOUS
    <2>2. q[i].data \in Seq(0..StreamLen)
        BY <2>1 DEF PendingType
    <2> QED
        BY <2>2
<1>2. Len(q) \in Nat
    OBVIOUS
<1>3. Owned(q) \in Seq(Nat) /\ Len(Owned(q)) = Len(q)
    BY <1>1, <1>2 DEF Owned
<1>4. Owned(q) \in Seq(Int)
    BY <1>3
<1> QED
    BY <1>3, <1>4 DEF Owned

(* A store without entries owns nothing.                                   *)
LEMMA OwnedEmpty == SumSeq(Owned(<<>>)) = 0
<1>1. <<>> \in Seq(PendingType) /\ Len(<<>>) = 0
    BY ZeroedTypes
<1>2. Owned(<<>>) \in Seq(Int) /\ Len(Owned(<<>>)) = 0
    BY <1>1, OwnedType
<1>3. Owned(<<>>) = <<>>
    BY <1>2
<1> QED
    BY <1>2, <1>3, SumType

(* store_out_of_order_segment charges exactly the bytes of its copy.       *)
LEMMA OwnedAppend ==
    ASSUME NEW q \in Seq(PendingType), NEW e \in PendingType
    PROVE  SumSeq(Owned(Append(q, e))) = SumSeq(Owned(q)) + Len(e.data)
<1> DEFINE r == Append(q, e)
<1>1. /\ r \in Seq(PendingType) /\ Len(r) = Len(q) + 1 /\ r[Len(r)] = e
      /\ \A j \in 1..Len(q) : r[j] = q[j]
    OBVIOUS
<1> HIDE DEF r
<1>2. /\ Owned(q) \in Seq(Int) /\ Len(Owned(q)) = Len(q)
      /\ \A i \in 1..Len(q) : Owned(q)[i] = Len(q[i].data)
    BY OwnedType
<1>3. /\ Owned(r) \in Seq(Int) /\ Len(Owned(r)) = Len(r)
      /\ \A i \in 1..Len(r) : Owned(r)[i] = Len(r[i].data)
    BY <1>1, OwnedType
<1>4. Len(q) \in Nat /\ Len(r) \in 1..Len(r)
    BY <1>1
<1>5. ASSUME NEW j \in 1..Len(q) PROVE Owned(r)[j] = Owned(q)[j]
    <2>1. j \in 1..Len(r)
        BY <1>1
    <2> QED
        BY <1>1, <1>2, <1>3, <2>1
<1>6. SumSeq(Owned(r)) = SumSeq(Owned(q)) + Owned(r)[Len(Owned(r))]
    BY <1>1, <1>2, <1>3, <1>5, SumAppend
<1> QED
    BY <1>1, <1>3, <1>4, <1>6 DEF r

(* remove_pending_at credits exactly the bytes of the entry it frees, and  *)
(* its guard against underflow never has to act.                           *)
LEMMA OwnedRemove ==
    ASSUME NEW q \in Seq(PendingType), NEW i \in 1..Len(q)
    PROVE  /\ SumSeq(Owned(q)) = SumSeq(Owned(RemoveAt(q, i))) + Len(q[i].data)
           /\ SumSeq(Owned(q)) \in Int /\ SumSeq(Owned(RemoveAt(q, i))) \in Int
           /\ Len(q[i].data) \in Nat /\ Len(q[i].data) <= SumSeq(Owned(q))
<1> DEFINE r == RemoveAt(q, i)
<1>1. /\ r \in Seq(PendingType) /\ Len(r) = Len(q) - 1
      /\ \A j \in 1..(Len(q) - 1) : r[j] = IF j < i THEN q[j] ELSE q[j + 1]
    BY RemoveAtElements
<1> HIDE DEF r
<1> DEFINE a == Owned(q)
           b == Owned(r)
<1>2. /\ a \in Seq(Int) /\ a \in Seq(Nat) /\ Len(a) = Len(q)
      /\ \A j \in 1..Len(q) : a[j] = Len(q[j].data)
    BY OwnedType
<1>3. /\ b \in Seq(Int) /\ Len(b) = Len(r)
      /\ \A j \in 1..Len(r) : b[j] = Len(r[j].data)
    BY <1>1, OwnedType
<1> HIDE DEF a, b
<1>4. ASSUME NEW j \in 1..Len(b) PROVE b[j] = IF j < i THEN a[j] ELSE a[j + 1]
    <2>1. j \in 1..Len(r) /\ j \in 1..(Len(q) - 1) /\ j \in 1..Len(q) /\ j + 1 \in 1..Len(q)
        BY <1>1, <1>3
    <2>2. CASE j < i
        BY <1>1, <1>2, <1>3, <2>1, <2>2
    <2>3. CASE ~(j < i)
        BY <1>1, <1>2, <1>3, <2>1, <2>3
    <2> QED
        BY <2>2, <2>3
<1>5. i \in 1..Len(a) /\ Len(b) = Len(a) - 1
    BY <1>1, <1>2, <1>3
<1>6. SumSeq(a) = SumSeq(b) + a[i]
    BY <1>2, <1>3, <1>4, <1>5, SumRemove
<1>7. a[i] <= SumSeq(a)
    BY <1>2, <1>5, SumBound
<1>8. SumSeq(a) \in Int /\ SumSeq(b) \in Int /\ a[i] \in Nat /\ a[i] = Len(q[i].data)
    BY <1>2, <1>3, <1>5, SumType
<1> QED
    BY <1>6, <1>7, <1>8 DEF a, b, r

(* Every operation keeps pending_bytes equal to what the pending array     *)
(* owns and within the cap.                                                *)
LEMMA AccountStep ==
    ASSUME TypeOK, PendingAccounting, [Next]_vars
    PROVE  PendingAccounting'
<1>0. /\ pending \in Seq(PendingType) /\ pending_bytes \in Int
      /\ pending_byte_cap \in Nat /\ BufferBytes \in Nat \ {0}
      /\ pending_bytes = SumSeq(Owned(pending)) /\ pending_bytes <= pending_byte_cap
      /\ (capacity = 0 => pending = <<>> /\ stream = <<>>)
    BY ConstantsAssumption DEF TypeOK, PendingAccounting, PendingTotal, Owned
<1>1. ASSUME pending' = <<>>, pending_bytes' = 0, stream' = <<>>,
             pending_byte_cap' \in Nat
      PROVE  PendingAccounting'
    <2>1. SumSeq(Owned(pending')) = 0
        BY <1>1, OwnedEmpty
    <2>2. PendingTotal' = SumSeq(Owned(pending'))
        BY DEF PendingTotal, Owned
    <2> QED
        BY <1>1, <2>1, <2>2 DEF PendingAccounting
<1>2. ASSUME UNCHANGED <<store, pending_byte_cap, capacity>>,
             capacity > 0 \/ stream' = stream
      PROVE  PendingAccounting'
    BY <1>0, <1>2 DEF PendingAccounting, PendingTotal, store
<1>3. CASE DirectionInit \/ DirectionCleanup
    <2>1. PICK size \in {0, BufferBytes} : Reset(size)
        BY <1>3 DEF DirectionInit, DirectionCleanup
    <2> QED
        BY <1>0, <1>1, <2>1 DEF Reset
<1>4. CASE ReleaseBuffers
    BY <1>0, <1>1, <1>4 DEF ReleaseBuffers
<1>5. CASE DropUnusable
    BY <1>2, <1>5 DEF DropUnusable
<1>6. CASE FlushDone
    BY <1>2, <1>6 DEF FlushDone
<1>7. ASSUME NEW s \in Segments, TrackFlags(s) PROVE PendingAccounting'
    BY <1>2, <1>7 DEF TrackFlags
<1>8. CASE UNCHANGED vars
    BY <1>2, <1>8 DEF vars
<1>9. CASE FlushStep
    <2>1. PICK i \in 1..Len(pending) : FlushStale(i) \/ FlushAppend(i)
        BY <1>9 DEF FlushStep
    <2>2. /\ UNCHANGED <<capacity, pending_byte_cap>> /\ capacity # 0
          /\ capacity \in Nat
        BY <1>0, <1>9, <2>1 DEF FlushStep, TypeOK
    <2>3. CASE UNCHANGED store
        BY <1>2, <2>2, <2>3
    <2>4. CASE remove_pending_at(i)
        <3>1. /\ SumSeq(Owned(pending)) = SumSeq(Owned(RemoveAt(pending, i))) + Len(pending[i].data)
              /\ SumSeq(Owned(pending)) \in Int /\ SumSeq(Owned(RemoveAt(pending, i))) \in Int
              /\ Len(pending[i].data) \in Nat
              /\ Len(pending[i].data) <= SumSeq(Owned(pending))
            BY <1>0, OwnedRemove
        <3>2. /\ pending' = RemoveAt(pending, i)
              /\ pending_bytes' = IF Len(pending[i].data) <= pending_bytes
                                  THEN pending_bytes - Len(pending[i].data) ELSE 0
            BY <2>4 DEF remove_pending_at
        <3>3. pending_bytes' = SumSeq(Owned(pending')) /\ pending_bytes' <= pending_byte_cap
            BY <1>0, <3>1, <3>2
        <3> QED
            BY <2>2, <3>3 DEF PendingAccounting, PendingTotal, Owned
    <2> QED
        BY <2>1, <2>3, <2>4 DEF FlushStale, FlushAppend
<1>10. ASSUME NEW s \in Segments, ProcessSegment(s) PROVE PendingAccounting'
    <2> DEFINE m == IF initial_sequence_known THEN next_sequence ELSE payload_sequence(s)
    <2>1. /\ capacity > 0 /\ UNCHANGED <<capacity, pending_byte_cap>>
          /\ \/ EmptySegment(s, m) \/ Retransmission(s, m)
             \/ OutOfOrder(s, m) \/ InOrder(s, m)
        BY <1>10 DEF ProcessSegment
    <2> HIDE DEF m
    <2>2. CASE UNCHANGED store
        BY <1>2, <2>1, <2>2
    <2>3. CASE /\ PendingRoom(s.len)
               /\ pending' = Append(pending, [sequence |-> payload_sequence(s),
                                              data |-> payload(s)])
               /\ pending_bytes' = pending_bytes + s.len
        <3> DEFINE e == [sequence |-> payload_sequence(s), data |-> payload(s)]
        <3>1. /\ payload(s) \in Seq(0..StreamLen) /\ Len(payload(s)) = s.len
              /\ s.len \in Nat /\ payload_sequence(s) \in 0..(SeqSpace - 1)
            <4>1. s.pos \in Int
                BY SegmentFacts DEF Position
            <4>2. Wire(s.pos) \in 0..(SeqSpace - 1)
                BY <4>1, SeqSpaceClosed
            <4> QED
                BY <4>2, SegmentFacts, ConstantsAssumption
        <3>2. e \in PendingType /\ e.data = payload(s)
            BY <3>1 DEF PendingType
        <3> HIDE DEF e
        <3>3. SumSeq(Owned(Append(pending, e))) = SumSeq(Owned(pending)) + Len(e.data)
            BY <1>0, <3>2, OwnedAppend
        <3>4. pending_bytes' = SumSeq(Owned(pending'))
            BY <1>0, <2>3, <3>1, <3>2, <3>3 DEF e
        <3>5. pending_bytes' <= pending_byte_cap
            BY <1>0, <2>3, <3>1 DEF PendingRoom
        <3>6. capacity' # 0
            BY <2>1 DEF TypeOK
        <3> QED
            BY <2>1, <3>4, <3>5, <3>6 DEF PendingAccounting, PendingTotal, Owned
    <2> QED
        BY <2>1, <2>2, <2>3 DEF EmptySegment, Retransmission, OutOfOrder, InOrder
<1> QED
    BY <1>3, <1>4, <1>5, <1>6, <1>7, <1>8, <1>9, <1>10
       DEF Next, flush_pending_segments

(* The pending account is exact: pending_bytes is always the payload bytes *)
(* the pending array owns and within the direction's cap, and a direction  *)
(* without a stream owns no pending copy, so no memset ever leaks one.     *)
(* This needs no assumption on the capture.                                *)
THEOREM AccountIsExact == Spec => []PendingAccounting
<1>1. Init => PendingAccounting
    <2> SUFFICES ASSUME Init PROVE PendingAccounting
        OBVIOUS
    <2>1. /\ pending = <<>> /\ pending_bytes = 0 /\ pending_byte_cap = 0
          /\ stream = <<>>
        BY DEF Init
    <2>2. SumSeq(Owned(pending)) = 0
        BY <2>1, OwnedEmpty
    <2> QED
        BY <2>1, <2>2 DEF PendingAccounting, PendingTotal, Owned
<1>2. TypeOK /\ PendingAccounting /\ [Next]_vars => PendingAccounting'
    BY AccountStep
<1> QED
    BY <1>1, <1>2, TypeInit, TypeStep, PTL DEF Spec
----------------------------------------------------------------------------
(* The stream is contiguous.                                               *)

(* A run extended with a non-empty run that starts just after it.          *)
LEMMA ExtendRun ==
    ASSUME NEW a \in Seq(Int), IsRun(a), NEW d \in Seq(Int), IsRun(d), d # <<>>,
           a # <<>> => d[1] = a[Len(a)] + 1
    PROVE  /\ IsRun(a \o d) /\ a \o d # <<>>
           /\ (a \o d)[Len(a \o d)] = d[1] + Len(d) - 1
<1>1. Len(d) > 0 /\ (Len(a) > 0 <=> a # <<>>)
    OBVIOUS
<1>2. IsRun(a \o d)
    BY <1>1, RunConcat
<1>3. /\ Len(a \o d) = Len(a) + Len(d)
      /\ (a \o d)[Len(a) + Len(d)] = d[Len(d)]
    BY <1>1
<1>4. d[Len(d)] = d[1] + Len(d) - 1
    BY <1>1 DEF IsRun
<1>5. a \o d # <<>>
    BY <1>1, <1>3
<1> QED
    BY <1>2, <1>3, <1>4, <1>5

(* The part of the run d, which starts at position p, from position n on.  *)
LEMMA TrimToPosition ==
    ASSUME NEW d \in Seq(Int), IsRun(d), d # <<>>, NEW p \in Int, d[1] = p,
           NEW n \in Int, p <= n, n < p + Len(d)
    PROVE  /\ Trimmed(d, n - p) \in Seq(Int) /\ IsRun(Trimmed(d, n - p))
           /\ Trimmed(d, n - p)[1] = n
           /\ Len(Trimmed(d, n - p)) = p + Len(d) - n
           /\ Trimmed(d, n - p) # <<>>
<1> DEFINE k == n - p
<1>1. k \in Nat /\ k \in 0..(Len(d) - 1) /\ k <= Len(d) /\ p + k = n
    OBVIOUS
<1> HIDE DEF k
<1>2. IsRun(Trimmed(d, k)) /\ Trimmed(d, k)[1] = d[1] + k
    BY <1>1, PartOfRun
<1>3. Trimmed(d, k) \in Seq(Int) /\ Len(Trimmed(d, k)) = Len(d) - k
    BY <1>1, TrimmedProperties
<1>4. Len(d) - k = p + Len(d) - n /\ Len(d) - k > 0
    BY DEF k
<1>5. Trimmed(d, k) # <<>>
    BY <1>3, <1>4
<1> QED
    BY <1>1, <1>2, <1>3, <1>4, <1>5 DEF k

(* The comparisons of the code, read on positions: a run of length l that  *)
(* starts at p against the position n expected next.                       *)
LEMMA Comparisons ==
    ASSUME NEW p \in Position, NEW l \in Nat, p + l <= StreamLen, NEW n \in Position
    PROVE  /\ SegmentEnd(Wire(p), l) = Wire(p + l)
           /\ sequence_before_or_equal(SegmentEnd(Wire(p), l), Wire(n)) <=> p + l <= n
           /\ sequence_before_or_equal(Wire(p), Wire(n)) <=> p <= n
           /\ sequence_before(Wire(p), Wire(n)) <=> p < n
           /\ sequence_before(Wire(n), Wire(p)) <=> n < p
           /\ p <= n => (Wire(n) - Wire(p)) % SeqSpace = n - p
<1> USE ConstantsAssumption
<1>1. /\ p \in Int /\ n \in Int /\ l \in Int /\ p + l \in Int
      /\ p - n < HalfMod /\ n - p < HalfMod
      /\ (p + l) - n < HalfMod /\ n - (p + l) < HalfMod
    BY DEF Position
<1>2. SegmentEnd(Wire(p), l) = Wire(p + l)
    BY <1>1, WireAdd DEF SegmentEnd
<1>3. sequence_before_or_equal(Wire(p + l), Wire(n)) <=> p + l <= n
    <2> DEFINE e == p + l
    <2>1. e \in Int /\ e - n < HalfMod /\ n - e < HalfMod
        BY <1>1
    <2> HIDE DEF e
    <2>2. sequence_before_or_equal(Wire(e), Wire(n)) <=> e <= n
        BY <1>1, <2>1, SerialArithmetic
    <2> QED BY <2>2 DEF e
<1> QED
    BY <1>1, <1>2, <1>3, SerialArithmetic

(* The baseline: before and after the first segment, the sequence number   *)
(* process_segment expects next continues the stream.                      *)
LEMMA ExpectedPosition ==
    ASSUME IInv, NEW s \in Segments, ProcessSegment(s)
    PROVE  \E n \in Position :
             Continues(IF initial_sequence_known THEN next_sequence
                                                 ELSE payload_sequence(s), n)
<1>1. ~unusable /\ initial_sequence_known \in BOOLEAN
    BY DEF ProcessSegment, IInv, TypeOK
<1>2. CASE initial_sequence_known
    BY <1>1, <1>2 DEF IInv, Sequencing
<1>3. CASE ~initial_sequence_known
    <2>1. stream = <<>>
        BY <1>3 DEF IInv, Sequencing
    <2>2. s.pos \in Position /\ payload_sequence(s) = Wire(s.pos)
        BY SegmentFacts
    <2> QED BY <1>3, <2>1, <2>2 DEF Continues
<1> QED
    BY <1>1, <1>2, <1>3

(* What an in-order segment appends: the part of its payload that starts   *)
(* at the position expected next.                                          *)
LEMMA InOrderBytes ==
    ASSUME NEW s \in Segments, NEW n \in Position, InOrder(s, Wire(n))
    PROVE  \E new \in Seq(Int) :
             /\ IsRun(new) /\ new # <<>> /\ new[1] = n
             /\ n + Len(new) = s.pos + s.len /\ n + Len(new) <= StreamLen
             /\ \/ /\ Len(new) <= capacity - Len(stream) /\ stream' = stream \o new
                   /\ next_sequence' = IF s.fin THEN Wire(n + Len(new) + 1)
                                                ELSE Wire(n + Len(new))
                   /\ pc' = "flush" /\ UNCHANGED unusable
                \/ /\ ~(Len(new) <= capacity - Len(stream))
                   /\ stream' = stream \o SubSeq(new, 1, capacity - Len(stream))
                   /\ unusable' = TRUE /\ pc' = "idle"
<1> DEFINE m == Wire(n)
           trim == IF sequence_before(payload_sequence(s), m)
                   THEN (m - payload_sequence(s)) % SeqSpace ELSE 0
           new == Trimmed(payload(s), trim)
           room == capacity - Len(stream)
           end == SegmentEnd(m, Len(new))
<1>1. /\ s.len > 0
      /\ ~sequence_before_or_equal(SegmentEnd(payload_sequence(s), s.len), m)
      /\ ~sequence_before(m, payload_sequence(s))
      /\ \/ /\ Len(new) <= room /\ stream' = stream \o new
            /\ next_sequence' = IF s.fin THEN (end + 1) % SeqSpace ELSE end
            /\ pc' = "flush" /\ UNCHANGED unusable
         \/ /\ ~(Len(new) <= room) /\ stream' = stream \o SubSeq(new, 1, room)
            /\ unusable' = TRUE /\ pc' = "idle"
    BY DEF InOrder, Return
<1>2. /\ s.pos \in Position /\ s.pos \in Int /\ s.len \in Nat
      /\ s.pos + s.len <= StreamLen /\ n \in Int
      /\ payload_sequence(s) = Wire(s.pos)
    BY <1>1, SegmentFacts, ConstantsAssumption DEF Position
<1>3. payload(s) \in Seq(Int) /\ IsRun(payload(s)) /\ payload(s) # <<>>
      /\ payload(s)[1] = s.pos /\ Len(payload(s)) = s.len
    <2>1. /\ payload(s) \in Seq(0..StreamLen) /\ Len(payload(s)) = s.len
          /\ \A i \in 1..s.len : payload(s)[i] = s.pos + i - 1
        BY SegmentFacts
    <2>2. payload(s) \in Seq(Int)
        <3>1. 0..StreamLen \subseteq Int
            BY ConstantsAssumption
        <3> QED BY <2>1, <3>1, SeqMonotonic, Zenon
    <2>3. 1 \in 1..s.len
        BY <1>1, <1>2
    <2>4. payload(s)[1] = s.pos
        BY <1>2, <2>1, <2>3
    <2>5. IsRun(payload(s))
        BY <2>1, <2>4 DEF IsRun
    <2> QED BY <1>1, <1>2, <2>1, <2>2, <2>4, <2>5
<1>4. s.pos <= n /\ n < s.pos + s.len
    BY <1>1, <1>2, Comparisons
<1>5. trim = n - s.pos
    BY <1>2, <1>4, Comparisons
<1>6. /\ new \in Seq(Int) /\ IsRun(new) /\ new # <<>> /\ new[1] = n
      /\ Len(new) = s.pos + s.len - n
    <2> DEFINE d == payload(s)
               q == s.pos
    <2>1. n < q + Len(d)
        BY <1>3, <1>4
    <2>2. d \in Seq(Int) /\ IsRun(d) /\ d # <<>> /\ d[1] = q /\ q \in Int /\ q <= n
        BY <1>2, <1>3, <1>4
    <2> HIDE DEF trim, d, q
    <2>3. /\ Trimmed(d, n - q) \in Seq(Int) /\ IsRun(Trimmed(d, n - q))
          /\ Trimmed(d, n - q)[1] = n /\ Trimmed(d, n - q) # <<>>
          /\ Len(Trimmed(d, n - q)) = q + Len(d) - n
        BY <1>2, <2>1, <2>2, TrimToPosition
    <2> QED BY <1>3, <1>5, <2>3 DEF d, q
<1> HIDE DEF trim, new
<1>7. /\ Len(new) \in Int /\ n + Len(new) = s.pos + s.len
      /\ n + Len(new) \in Int /\ n + Len(new) + 1 \in Int
    BY <1>2, <1>6
<1>8. end = Wire(n + Len(new))
    BY <1>2, <1>7, WireAdd DEF SegmentEnd
<1>9. (end + 1) % SeqSpace = Wire(n + Len(new) + 1)
    <2> DEFINE e == n + Len(new)
    <2>1. e \in Int /\ e + 1 \in Int
        BY <1>7
    <2> HIDE DEF e
    <2>2. (Wire(e) + 1) % SeqSpace = Wire(e + 1)
        BY <2>1, WireAdd
    <2> QED BY <1>8, <2>2 DEF e
<1> HIDE DEF end
<1>10. n + Len(new) <= StreamLen
    BY <1>2, <1>7
<1> QED
    BY <1>1, <1>6, <1>7, <1>8, <1>9, <1>10

(* process_segment keeps the stream contiguous, the pending store labelled *)
(* and next_sequence at the end of the stream.                             *)
LEMMA ProcessSegmentInv ==
    ASSUME FullCapture, IInv, NEW s \in Segments, ProcessSegment(s)
    PROVE  IInv'
<1> DEFINE m == IF initial_sequence_known THEN next_sequence ELSE payload_sequence(s)
<1>1. PICK n \in Position : Continues(m, n)
    BY ExpectedPosition
<1>2. /\ TypeOK' /\ initial_sequence_known' = TRUE /\ ~unusable
      /\ stream \in Seq(Int) /\ IsRun(stream) /\ PendingLabelled
      /\ pc = "idle" /\ n \in Int
    <2>1. TypeOK'
        BY ProcessSegmentType DEF IInv
    <2>2. stream \in Seq(Int)
        <3>1. 0..StreamLen \subseteq Int /\ stream \in Seq(0..StreamLen)
            BY ConstantsAssumption DEF IInv, TypeOK
        <3> QED BY <3>1, SeqMonotonic, Zenon
    <2>3. n \in Int
        BY ConstantsAssumption DEF Position
    <2> QED BY <2>1, <2>2, <2>3 DEF ProcessSegment, IInv, StreamContiguous
<1>3. /\ s.pos \in Position /\ s.pos \in Int /\ s.len \in Nat /\ s.fin \in BOOLEAN
      /\ payload_sequence(s) = Wire(s.pos)
      /\ s.fin => s.pos + s.len = StreamLen
      /\ s.len > 0 => s.pos + s.len <= StreamLen
    BY SegmentFacts, ConstantsAssumption DEF FullCapture, Position
<1>4. \/ EmptySegment(s, m) \/ Retransmission(s, m)
      \/ OutOfOrder(s, m) \/ InOrder(s, m)
    BY DEF ProcessSegment
<1>5. /\ m = Wire(n)
      /\ stream # <<>> => \/ n = stream[Len(stream)] + 1
                          \/ n = StreamLen + 1 /\ stream[Len(stream)] = StreamLen - 1
    BY <1>1 DEF Continues
<1> HIDE DEF m
<1>6. CASE EmptySegment(s, m)
    <2>1. stream' = stream /\ pending' = pending /\ unusable' = unusable /\ pc' = "idle"
        BY <1>6 DEF EmptySegment, Return, store
    <2>2. \E k \in Position : Continues(next_sequence, k)'
        <3>1. CASE next_sequence' = m
            BY <1>5, <2>1, <3>1 DEF Continues
        <3>2. CASE s.fin /\ m = payload_sequence(s) /\ next_sequence' = (m + 1) % SeqSpace
            <4>1. n = s.pos
                <5>1. n - s.pos < HalfMod /\ s.pos - n < HalfMod
                    BY <1>2, <1>3, ConstantsAssumption DEF Position
                <5>2. Wire(n) = Wire(s.pos)
                    BY <1>3, <1>5, <3>2
                <5> QED BY <1>2, <1>3, <5>1, <5>2, SerialArithmetic
            <4>2. s.len = 0
                BY <1>6 DEF EmptySegment
            <4>3. n = StreamLen /\ StreamLen + 1 \in Position
                BY <1>3, <3>2, <4>1, <4>2, ConstantsAssumption DEF Position
            <4>4. (Wire(StreamLen) + 1) % SeqSpace = Wire(StreamLen + 1)
                BY ConstantsAssumption, WireAdd
            <4>5. stream # <<>> => stream[Len(stream)] = StreamLen - 1
                <5>1. stream # <<>> => stream[Len(stream)] \in Int
                    BY <1>2
                <5> QED BY <1>5, <4>3, <5>1, ConstantsAssumption
            <4>6. next_sequence' = Wire(StreamLen + 1)
                BY <1>5, <3>2, <4>3, <4>4
            <4> QED BY <2>1, <4>3, <4>5, <4>6 DEF Continues
        <3> QED BY <1>6, <3>1, <3>2 DEF EmptySegment
    <2> QED BY <1>2, <2>1, <2>2
            DEF IInv, StreamContiguous, PendingLabelled, Sequencing, FlushContext
<1>7. CASE Retransmission(s, m)
    <2>1. /\ stream' = stream /\ pending' = pending /\ unusable' = unusable
          /\ pc' = "idle" /\ next_sequence' = m
        BY <1>7 DEF Retransmission, Return, store
    <2>2. \E k \in Position : Continues(next_sequence, k)'
        BY <1>5, <2>1 DEF Continues
    <2> QED BY <1>2, <2>1, <2>2
            DEF IInv, StreamContiguous, PendingLabelled, Sequencing, FlushContext
<1>8. CASE OutOfOrder(s, m)
    <2>1. /\ stream' = stream /\ unusable' = unusable
          /\ pc' = "idle" /\ next_sequence' = m /\ s.len > 0
        BY <1>8 DEF OutOfOrder, Return
    <2>2. \E k \in Position : Continues(next_sequence, k)'
        BY <1>5, <2>1 DEF Continues
    <2>3. PendingLabelled'
        <3>1. CASE pending' = pending
            BY <1>2, <3>1 DEF PendingLabelled
        <3>2. CASE pending' = Append(pending, [sequence |-> payload_sequence(s),
                                               data |-> payload(s)])
            <4>1. /\ payload(s) \in Seq(0..StreamLen) /\ Len(payload(s)) = s.len
                  /\ \A i \in 1..s.len : payload(s)[i] = s.pos + i - 1
                BY SegmentFacts
            <4>2. payload(s)[1] = s.pos
                BY <1>3, <2>1, <4>1
            <4>3. IsRun(payload(s))
                BY <4>1, <4>2 DEF IsRun
            <4>4. pending \in Seq(PendingType)
                BY DEF IInv, TypeOK
            <4>5. ASSUME NEW i \in 1..Len(pending')
                  PROVE  \/ i \in 1..Len(pending) /\ pending'[i] = pending[i]
                         \/ pending'[i] = [sequence |-> payload_sequence(s), data |-> payload(s)]
                BY <3>2, <4>4
            <4>6. ASSUME NEW i \in 1..Len(pending')
                  PROVE  /\ Len(pending'[i].data) >= 1 /\ IsRun(pending'[i].data)
                         /\ pending'[i].data[1] + Len(pending'[i].data) <= StreamLen
                         /\ pending'[i].sequence = Wire(pending'[i].data[1])
                <5>1. CASE i \in 1..Len(pending) /\ pending'[i] = pending[i]
                    BY <1>2, <5>1 DEF PendingLabelled
                <5>2. CASE pending'[i] = [sequence |-> payload_sequence(s), data |-> payload(s)]
                    <6>1. /\ pending'[i].data = payload(s)
                          /\ pending'[i].sequence = payload_sequence(s)
                        BY <5>2
                    <6> QED BY <1>3, <2>1, <4>1, <4>2, <4>3, <6>1
                <5> QED BY <4>5, <5>1, <5>2
            <4> QED BY <4>6 DEF PendingLabelled
        <3> QED BY <1>8, <3>1, <3>2 DEF OutOfOrder, store
    <2> QED BY <1>2, <2>1, <2>2, <2>3
            DEF IInv, StreamContiguous, Sequencing, FlushContext
<1>9. CASE InOrder(s, m)
    <2>1. PICK new \in Seq(Int) :
             /\ IsRun(new) /\ new # <<>> /\ new[1] = n
             /\ n + Len(new) = s.pos + s.len /\ n + Len(new) <= StreamLen
             /\ \/ /\ Len(new) <= capacity - Len(stream) /\ stream' = stream \o new
                   /\ next_sequence' = IF s.fin THEN Wire(n + Len(new) + 1)
                                                ELSE Wire(n + Len(new))
                   /\ pc' = "flush" /\ UNCHANGED unusable
                \/ /\ ~(Len(new) <= capacity - Len(stream))
                   /\ stream' = stream \o SubSeq(new, 1, capacity - Len(stream))
                   /\ unusable' = TRUE /\ pc' = "idle"
        BY <1>5, <1>9, InOrderBytes
    <2>2. Len(new) \in Nat /\ Len(new) > 0 /\ n < StreamLen
        BY <1>2, <2>1, ConstantsAssumption
    <2>3. stream # <<>> => new[1] = stream[Len(stream)] + 1
        BY <1>2, <1>5, <2>1, <2>2, ConstantsAssumption
    <2>4. PendingLabelled'
        <3>1. pending' = pending
            BY <1>9 DEF InOrder, store
        <3> QED BY <1>2, <3>1 DEF PendingLabelled
    <2>5. CASE /\ stream' = stream \o new /\ pc' = "flush" /\ UNCHANGED unusable
               /\ next_sequence' = IF s.fin THEN Wire(n + Len(new) + 1)
                                            ELSE Wire(n + Len(new))
        <3>1. /\ IsRun(stream') /\ stream' # <<>>
              /\ stream'[Len(stream')] = n + Len(new) - 1
            BY <1>2, <2>1, <2>3, <2>5, ExtendRun
        <3>2. \E k \in Position : Continues(next_sequence, k)'
            <4> DEFINE e == n + Len(new)
            <4>1. e \in Int /\ e \in Position /\ e = stream'[Len(stream')] + 1
                BY <1>2, <2>1, <2>2, <3>1, ConstantsAssumption DEF Position
            <4>2. CASE ~s.fin
                BY <2>5, <4>1, <4>2 DEF Continues
            <4>3. CASE s.fin
                <5>1. e = StreamLen /\ StreamLen + 1 \in Position
                    BY <1>3, <2>1, <4>3, ConstantsAssumption DEF Position
                <5>2. stream'[Len(stream')] = StreamLen - 1
                    BY <1>2, <2>2, <3>1, <5>1
                <5>3. next_sequence' = Wire(StreamLen + 1)
                    BY <2>5, <4>3, <5>1
                <5> QED BY <5>1, <5>2, <5>3 DEF Continues
            <4> QED BY <1>3, <4>2, <4>3
        <3> QED BY <1>2, <2>4, <2>5, <3>1, <3>2
                DEF IInv, StreamContiguous, Sequencing, FlushContext
    <2>6. CASE /\ stream' = stream \o SubSeq(new, 1, capacity - Len(stream))
               /\ ~(Len(new) <= capacity - Len(stream))
               /\ unusable' = TRUE /\ pc' = "idle"
        <3> DEFINE room == capacity - Len(stream)
                   head == SubSeq(new, 1, room)
        <3>1. room \in Nat /\ room <= Len(new) /\ room \in 0..(Len(new) - 1)
            BY <2>2, <2>6, ConstantsAssumption DEF IInv, TypeOK
        <3> HIDE DEF room
        <3>2. head \in Seq(Int) /\ Len(head) = room /\ IsRun(head)
              /\ (room > 0 => head[1] = new[1])
            BY <2>1, <3>1, PrefixProperties, PartOfRun
        <3>3. stream' = stream \o head
            BY <2>6 DEF room
        <3> HIDE DEF head
        <3>4. IsRun(stream')
            <4>1. Len(stream) > 0 /\ Len(head) > 0 => head[1] = stream[Len(stream)] + 1
                BY <1>2, <2>3, <3>1, <3>2
            <4> QED BY <1>2, <3>2, <3>3, <4>1, RunConcat
        <3> QED BY <1>2, <2>4, <2>6, <3>4
                DEF IInv, StreamContiguous, Sequencing, FlushContext
    <2> QED BY <2>1, <2>5, <2>6
<1> QED
    BY <1>4, <1>6, <1>7, <1>8, <1>9

(* What the flush loop appends: the part of a pending segment that starts  *)
(* at the position expected next.                                          *)
LEMMA FlushAppendBytes ==
    ASSUME IInv, NEW i \in 1..Len(pending), FirstReady(i), FlushAppend(i),
           NEW n \in Position, next_sequence = Wire(n)
    PROVE  \E new \in Seq(Int) :
             /\ IsRun(new) /\ new # <<>> /\ new[1] = n /\ n + Len(new) <= StreamLen
             /\ pending[i].data[1] <= n
             /\ n + Len(new) = pending[i].data[1] + Len(pending[i].data)
             /\ \/ /\ stream' = stream \o new /\ next_sequence' = Wire(n + Len(new))
                   /\ remove_pending_at(i) /\ UNCHANGED <<unusable, pc>>
                \/ unusable' = TRUE /\ pc' = "idle" /\ UNCHANGED <<stream, pending>>
<1> DEFINE d == pending[i].data
           p == d[1]
           l == Len(d)
           trim == (next_sequence - pending[i].sequence) % SeqSpace
           new == Trimmed(d, trim)
<1>1. /\ d \in Seq(Int) /\ IsRun(d) /\ d # <<>> /\ p \in Int /\ p >= 0 /\ l \in Nat
      /\ p + l <= StreamLen /\ pending[i].sequence = Wire(p)
    <2>1. pending[i] \in PendingType
        BY DEF IInv, TypeOK
    <2>2. d \in Seq(0..StreamLen)
        BY <2>1 DEF PendingType
    <2>3. 0..StreamLen \subseteq Int
        BY ConstantsAssumption
    <2>4. d \in Seq(Int)
        BY <2>2, <2>3, SeqMonotonic, Zenon
    <2>5. l >= 1 /\ IsRun(d) /\ p + l <= StreamLen /\ pending[i].sequence = Wire(p)
        BY DEF IInv, PendingLabelled
    <2> HIDE DEF d
    <2>6. d # <<>> /\ 1 \in 1..Len(d)
        BY <2>4, <2>5
    <2>7. d[1] \in 0..StreamLen
        BY <2>2, <2>6, ElementOfSeq, Zenon
    <2> QED BY <2>4, <2>5, <2>6, <2>7, ConstantsAssumption
<1>2. n \in Int
    BY ConstantsAssumption DEF Position
<1>3. /\ ~sequence_before_or_equal(SegmentEnd(Wire(p), l), Wire(n))
      /\ sequence_before_or_equal(Wire(p), Wire(n))
    BY <1>1 DEF FirstReady, FlushAppend, Ready, Stale, PendingEnd
<1>4. \/ /\ stream' = stream \o new /\ next_sequence' = SegmentEnd(Wire(p), l)
         /\ remove_pending_at(i) /\ UNCHANGED <<unusable, pc>>
      \/ unusable' = TRUE /\ pc' = "idle" /\ UNCHANGED <<stream, pending>>
    BY <1>1 DEF FlushAppend, Return, PendingEnd, store
<1>5. trim = (Wire(n) - Wire(p)) % SeqSpace
    BY <1>1
<1> HIDE DEF d, p, l, trim
<1>6. p \in Position
    BY <1>1, ConstantsAssumption DEF Position
<1>7. p <= n /\ n < p + l /\ trim = n - p /\ SegmentEnd(Wire(p), l) = Wire(p + l)
    BY <1>1, <1>2, <1>3, <1>5, <1>6, Comparisons
<1>8. /\ new \in Seq(Int) /\ IsRun(new) /\ new[1] = n
      /\ Len(new) = p + l - n /\ new # <<>>
    BY <1>1, <1>2, <1>7, TrimToPosition DEF p, l
<1> HIDE DEF new
<1>9. n + Len(new) = p + l /\ n + Len(new) <= StreamLen
    BY <1>1, <1>2, <1>8
<1> QED
    BY <1>4, <1>7, <1>8, <1>9 DEF p, l, d

(* The same for one iteration of the flush loop: a pending segment is only *)
(* appended from the position expected next.                               *)
LEMMA FlushStepInv ==
    ASSUME IInv, FlushStep
    PROVE  IInv'
<1>1. PICK i \in 1..Len(pending) : FirstReady(i) /\ (FlushStale(i) \/ FlushAppend(i))
    BY DEF FlushStep
<1>2. initial_sequence_known /\ ~unusable /\ initial_sequence_known' = initial_sequence_known
      /\ pc = "flush"
    BY DEF FlushStep, IInv, FlushContext
<1>3. PICK n \in Position : Continues(next_sequence, n)
    BY <1>2 DEF IInv, Sequencing
<1>4. TypeOK'
    BY FlushStepType DEF IInv
<1>5. /\ pending \in Seq(PendingType) /\ PendingLabelled
      /\ stream \in Seq(Int) /\ IsRun(stream) /\ n \in Int
    <2>1. 0..StreamLen \subseteq Int /\ stream \in Seq(0..StreamLen)
        BY ConstantsAssumption DEF IInv, TypeOK
    <2>2. stream \in Seq(Int)
        BY <2>1, SeqMonotonic, Zenon
    <2> QED BY <2>2, ConstantsAssumption DEF IInv, TypeOK, StreamContiguous, Position
<1>6. ASSUME remove_pending_at(i) PROVE PendingLabelled'
    <2>1. /\ Len(pending') = Len(pending) - 1
          /\ \A j \in 1..(Len(pending) - 1) :
                pending'[j] = IF j < i THEN pending[j] ELSE pending[j + 1]
        BY <1>5, <1>6, RemoveAtElements DEF remove_pending_at
    <2>2. ASSUME NEW j \in 1..Len(pending')
          PROVE  \E k \in 1..Len(pending) : pending'[j] = pending[k]
        <3>1. Len(pending) \in Nat
            BY <1>5
        <3> QED BY <2>1, <3>1
    <2> QED BY <1>5, <2>2 DEF PendingLabelled
<1>7. CASE FlushStale(i)
    <2>1. /\ stream' = stream /\ unusable' = unusable /\ next_sequence' = next_sequence
          /\ PendingLabelled'
        BY <1>6, <1>7 DEF FlushStale
    <2>2. \E k \in Position : Continues(next_sequence, k)'
        BY <1>3, <2>1 DEF Continues
    <2> QED BY <1>2, <1>4, <1>5, <2>1, <2>2
            DEF IInv, StreamContiguous, Sequencing, FlushContext
<1>8. CASE FlushAppend(i)
    <2>1. PICK new \in Seq(Int) :
             /\ IsRun(new) /\ new # <<>> /\ new[1] = n /\ n + Len(new) <= StreamLen
             /\ \/ /\ stream' = stream \o new /\ next_sequence' = Wire(n + Len(new))
                   /\ remove_pending_at(i) /\ UNCHANGED <<unusable, pc>>
                \/ unusable' = TRUE /\ pc' = "idle" /\ UNCHANGED <<stream, pending>>
        BY <1>1, <1>3, <1>8, FlushAppendBytes DEF Continues
    <2>2. Len(new) \in Nat /\ Len(new) > 0 /\ n < StreamLen
        BY <1>5, <2>1, ConstantsAssumption
    <2>3. CASE /\ stream' = stream \o new /\ next_sequence' = Wire(n + Len(new))
               /\ remove_pending_at(i) /\ UNCHANGED <<unusable, pc>>
        <3>1. stream # <<>> => new[1] = stream[Len(stream)] + 1
            <4>1. StreamLen \in Nat
                BY ConstantsAssumption
            <4> QED BY <1>3, <1>5, <2>1, <2>2, <4>1 DEF Continues
        <3>2. /\ IsRun(stream') /\ stream' # <<>>
              /\ stream'[Len(stream')] = n + Len(new) - 1
            BY <1>5, <2>1, <2>3, <3>1, ExtendRun
        <3>3. n + Len(new) \in Position /\ n + Len(new) = stream'[Len(stream')] + 1
            BY <1>5, <2>1, <2>2, <3>2, ConstantsAssumption DEF Position
        <3>4. \E k \in Position : Continues(next_sequence, k)'
            BY <2>3, <3>3 DEF Continues
        <3> QED BY <1>2, <1>4, <1>6, <2>3, <3>2, <3>4
                DEF IInv, StreamContiguous, Sequencing, FlushContext
    <2>4. CASE unusable' = TRUE /\ pc' = "idle" /\ UNCHANGED <<stream, pending>>
        BY <1>2, <1>4, <1>5, <2>4
           DEF IInv, StreamContiguous, PendingLabelled, Sequencing, FlushContext
    <2> QED BY <2>1, <2>3, <2>4
<1> QED
    BY <1>1, <1>7, <1>8

(* What one iteration of the flush loop may append is a byte sequence.     *)
LEMMA FlushedBytes ==
    ASSUME IInv, NEW i \in 1..Len(pending)
    PROVE  Trimmed(pending[i].data,
                   (next_sequence - pending[i].sequence) % SeqSpace) \in Seq(Int)
<1> DEFINE d == pending[i].data
           k == (next_sequence - pending[i].sequence) % SeqSpace
<1>1. d \in Seq(0..StreamLen) /\ pending[i].sequence \in 0..(SeqSpace - 1)
    <2>1. pending[i] \in PendingType
        BY DEF IInv, TypeOK
    <2> QED BY <2>1 DEF PendingType
<1>2. d \in Seq(Int)
    <2>1. 0..StreamLen \subseteq Int
        BY ConstantsAssumption
    <2> QED BY <1>1, <2>1, SeqMonotonic, Zenon
<1>3. next_sequence - pending[i].sequence \in Int
    BY <1>1, SeqSpaceNat DEF IInv, TypeOK
<1>4. k \in 0..(SeqSpace - 1)
    BY <1>3, SeqSpaceClosed
<1>5. k \in Nat
    BY <1>4, SeqSpaceNat
<1> HIDE DEF d, k
<1>6. Trimmed(d, k) \in Seq(Int)
    BY <1>2, <1>5, TrimmedProperties
<1> QED
    BY <1>6 DEF d, k

(* A zeroed or released direction satisfies the invariant.                 *)
LEMMA EmptyInv ==
    ASSUME TypeOK', pc' = "idle", stream' = <<>>, pending' = <<>>,
           initial_sequence_known' /\ ~unusable' =>
               \E n \in Position : next_sequence' = Wire(n)
    PROVE  IInv'
<1>1. \A i \in 1..Len(pending') : FALSE
    OBVIOUS
<1>2. \A i \in 1..Len(stream') : FALSE
    OBVIOUS
<1> QED
    BY <1>1, <1>2 DEF IInv, StreamContiguous, IsRun, PendingLabelled, Sequencing,
                      Continues, FlushContext

(* The inductive invariant is preserved by every step.                     *)
LEMMA IInvInductive ==
    ASSUME FullCapture
    PROVE  IInv /\ [Next]_vars => IInv'
<1> SUFFICES ASSUME IInv, [Next]_vars PROVE IInv'
    OBVIOUS
<1>1. TypeOK'
    BY TypeStep DEF IInv
<1>2. ASSUME NEW size, Reset(size), pc = "idle" PROVE IInv'
    <2>1. /\ stream' = <<>> /\ pending' = <<>> /\ pc' = "idle"
          /\ initial_sequence_known' = FALSE
        BY <1>2 DEF Reset
    <2> QED BY <1>1, <2>1, EmptyInv
<1>3. CASE DirectionInit \/ DirectionCleanup
    BY <1>2, <1>3 DEF DirectionInit, DirectionCleanup
<1>4. CASE ReleaseBuffers
    <2>1. /\ stream' = <<>> /\ pending' = <<>> /\ pc' = "idle"
          /\ UNCHANGED <<next_sequence, initial_sequence_known, unusable>>
        BY <1>4 DEF ReleaseBuffers, sequencing
    <2>2. initial_sequence_known' /\ ~unusable' =>
              \E n \in Position : next_sequence' = Wire(n)
        BY <2>1 DEF IInv, Sequencing, Continues
    <2> QED BY <1>1, <2>1, <2>2, EmptyInv
<1>5. ASSUME UNCHANGED <<sequencing, unusable, stream, pending>>,
             pc' = pc \/ pc' = "idle"
      PROVE  IInv'
    <2>1. /\ StreamContiguous' /\ PendingLabelled' /\ FlushContext'
        BY <1>5 DEF IInv, StreamContiguous, PendingLabelled, FlushContext, sequencing
    <2>2. Sequencing'
        BY <1>5 DEF IInv, Sequencing, Continues, sequencing
    <2> QED BY <1>1, <2>1, <2>2 DEF IInv
<1>6. CASE DropUnusable
    BY <1>5, <1>6 DEF DropUnusable, Return, store
<1>7. CASE FlushDone
    BY <1>5, <1>7 DEF FlushDone, Return, store
<1>8. ASSUME NEW s \in Segments, TrackFlags(s) PROVE IInv'
    BY <1>5, <1>8 DEF TrackFlags, store
<1>9. CASE UNCHANGED vars
    BY <1>5, <1>9 DEF vars, store
<1>10. CASE FlushStep
    BY <1>10, FlushStepInv
<1>11. ASSUME NEW s \in Segments, ProcessSegment(s) PROVE IInv'
    BY <1>11, ProcessSegmentInv
<1> QED
    BY <1>3, <1>4, <1>6, <1>7, <1>8, <1>9, <1>10, <1>11
       DEF Next, flush_pending_segments

(* The zeroed struct satisfies the inductive invariant.                    *)
LEMMA IInvInit == Init => IInv
<1> SUFFICES ASSUME Init PROVE IInv
    OBVIOUS
<1>1. TypeOK
    BY TypeInit
<1>2. stream = <<>> /\ pending = <<>> /\ pc = "idle" /\ initial_sequence_known = FALSE
    BY DEF Init
<1>3. (\A i \in 1..Len(pending) : FALSE) /\ (\A i \in 1..Len(stream) : FALSE)
    BY <1>2
<1> QED
    BY <1>1, <1>2, <1>3 DEF IInv, StreamContiguous, IsRun, PendingLabelled,
                            Sequencing, FlushContext

(* When no FIN segment was truncated by the capture, the bytes decoders    *)
(* read are consecutive bytes of the sender's stream: reordering,          *)
(* duplication, overlap, buffer limits and sequence wrap-around never make *)
(* process_segment or the flush loop skip, repeat or splice one.           *)
THEOREM StreamIsContiguous ==
    ASSUME FullCapture
    PROVE  Spec => []StreamContiguous
<1>1. IInv => StreamContiguous
    BY DEF IInv
<1>2. IInv /\ [Next]_vars => IInv'
    BY IInvInductive
<1> QED
    BY <1>1, <1>2, IInvInit, PTL DEF Spec
----------------------------------------------------------------------------
(* The flush loop reaches a fixpoint.                                      *)

(* With next_sequence at position n, a pending segment is ready exactly    *)
(* when it starts at or before n.                                          *)
LEMMA ReadyAt ==
    ASSUME IInv, NEW n \in Position, next_sequence = Wire(n),
           NEW i \in 1..Len(pending)
    PROVE  /\ Ready(i) <=> pending[i].data[1] <= n
           /\ pending[i].data[1] < StreamLen
<1> DEFINE p == pending[i].data[1]
           l == Len(pending[i].data)
<1>1. pending[i].data \in Seq(0..StreamLen)
    <2>1. pending[i] \in PendingType
        BY DEF IInv, TypeOK
    <2> QED BY <2>1 DEF PendingType
<1>2. l >= 1 /\ l \in Nat /\ p + l <= StreamLen /\ pending[i].sequence = Wire(p)
    BY <1>1 DEF IInv, PendingLabelled
<1>3. p \in 0..StreamLen
    <2>1. 1 \in 1..Len(pending[i].data)
        BY <1>2
    <2> QED BY <1>1, <2>1, ElementOfSeq, Zenon
<1>4. Ready(i) <=> \/ sequence_before_or_equal(SegmentEnd(Wire(p), l), Wire(n))
                   \/ sequence_before_or_equal(Wire(p), Wire(n))
    BY <1>2 DEF Ready, Stale, PendingEnd
<1> HIDE DEF p, l
<1>5. p \in Position /\ p \in Int /\ n \in Int
    BY <1>3, ConstantsAssumption DEF Position
<1>6. /\ sequence_before_or_equal(SegmentEnd(Wire(p), l), Wire(n)) <=> p + l <= n
      /\ sequence_before_or_equal(Wire(p), Wire(n)) <=> p <= n
    BY <1>2, <1>5, Comparisons
<1>7. (Ready(i) <=> p <= n) /\ p < StreamLen
    BY <1>2, <1>4, <1>5, <1>6, ConstantsAssumption
<1> QED
    BY <1>7 DEF p

(* Every call leaves a usable direction with nothing ready to be appended. *)
LEMMA GapStep ==
    ASSUME FullCapture, IInv, PendingBeyondGap, [Next]_vars
    PROVE  PendingBeyondGap'
<1>1. ASSUME pending' = <<>> PROVE PendingBeyondGap'
    BY <1>1 DEF PendingBeyondGap
<1>2. ASSUME unusable' \/ pc' = "flush" PROVE PendingBeyondGap'
    BY <1>2 DEF PendingBeyondGap
<1>3. ASSUME UNCHANGED <<next_sequence, pending>>,
             (pc = "idle" /\ ~unusable) \/ \A i \in 1..Len(pending) : ~Ready(i)
      PROVE  PendingBeyondGap'
    BY <1>3 DEF PendingBeyondGap, Ready, Stale, PendingEnd
<1>4. CASE DirectionInit \/ DirectionCleanup
    BY <1>1, <1>4 DEF DirectionInit, DirectionCleanup, Reset
<1>5. CASE ReleaseBuffers
    BY <1>1, <1>5 DEF ReleaseBuffers
<1>6. CASE DropUnusable
    BY <1>2, <1>6 DEF DropUnusable
<1>7. CASE FlushDone
    BY <1>3, <1>7 DEF FlushDone, sequencing, store
<1>8. CASE FlushStep
    <2>1. PICK i \in 1..Len(pending) : FlushStale(i) \/ FlushAppend(i)
        BY <1>8 DEF FlushStep
    <2>2. pc = "flush"
        BY <1>8 DEF FlushStep
    <2>3. unusable' \/ pc' = "flush"
        BY <2>1, <2>2 DEF FlushStale, FlushAppend
    <2> QED BY <1>2, <2>3
<1>9. ASSUME UNCHANGED <<next_sequence, pending, unusable, pc>> PROVE PendingBeyondGap'
    BY <1>9 DEF PendingBeyondGap, Ready, Stale, PendingEnd
<1>10. ASSUME NEW s \in Segments, TrackFlags(s) PROVE PendingBeyondGap'
    BY <1>9, <1>10 DEF TrackFlags, sequencing, store
<1>11. CASE UNCHANGED vars
    BY <1>9, <1>11 DEF vars, sequencing, store
<1>12. ASSUME NEW s \in Segments, ProcessSegment(s) PROVE PendingBeyondGap'
    <2> DEFINE m == IF initial_sequence_known THEN next_sequence ELSE payload_sequence(s)
    <2>1. /\ pc = "idle" /\ ~unusable /\ initial_sequence_known \in BOOLEAN
          /\ \/ EmptySegment(s, m) \/ Retransmission(s, m)
             \/ OutOfOrder(s, m) \/ InOrder(s, m)
        BY <1>12 DEF ProcessSegment, IInv, TypeOK
    <2>2. \A i \in 1..Len(pending) : ~Ready(i)
        BY <2>1 DEF PendingBeyondGap
    <2>3. PICK n \in Position : Continues(m, n)
        BY <1>12, ExpectedPosition
    <2>4. pending = <<>> \/ m = next_sequence
        BY <2>1 DEF IInv, Sequencing
    <2>5. m = Wire(n) /\ n \in Int
        BY <2>3, ConstantsAssumption DEF Continues, Position
    <2> HIDE DEF m
    <2>6. ASSUME pending' = pending, next_sequence' = m PROVE PendingBeyondGap'
        BY <1>1, <1>3, <2>1, <2>4, <2>6
    <2>7. CASE Retransmission(s, m)
        BY <2>6, <2>7 DEF Retransmission, store
    <2>8. CASE InOrder(s, m)
        BY <1>2, <2>8 DEF InOrder
    <2>9. CASE EmptySegment(s, m)
        <3>1. pending' = pending
            BY <2>9 DEF EmptySegment, store
        <3>2. CASE s.fin /\ m = payload_sequence(s) /\ pending # <<>>
            <4>1. /\ s.pos \in Position /\ s.pos \in Int /\ s.len = 0
                  /\ payload_sequence(s) = Wire(s.pos) /\ s.pos + s.len = StreamLen
                BY <2>9, <3>2, SegmentFacts, ConstantsAssumption
                   DEF EmptySegment, FullCapture, Position
            <4>2. n = s.pos
                <5>1. n - s.pos < HalfMod /\ s.pos - n < HalfMod
                    BY <2>5, <4>1, ConstantsAssumption DEF Position
                <5> QED BY <2>5, <3>2, <4>1, <5>1, SerialArithmetic
            <4>3. 1 \in 1..Len(pending)
                <5>1. pending \in Seq(PendingType)
                    BY DEF IInv, TypeOK
                <5> QED BY <3>2, <5>1
            <4>4. next_sequence = Wire(n)
                BY <2>4, <2>5, <3>2
            <4>5. pending[1].data[1] <= n <=> Ready(1)
                BY <4>3, <4>4, ReadyAt
            <4>6. pending[1].data[1] < StreamLen /\ n = StreamLen
                BY <4>1, <4>2, <4>3, <4>4, ReadyAt
            <4>7. pending[1].data[1] \in Int
                <5>1. pending[1] \in PendingType /\ Len(pending[1].data) >= 1
                    BY <4>3 DEF IInv, TypeOK, PendingLabelled
                <5>2. pending[1].data \in Seq(0..StreamLen)
                    BY <5>1 DEF PendingType
                <5>3. 1 \in 1..Len(pending[1].data)
                    BY <5>1, <5>2
                <5>4. pending[1].data[1] \in 0..StreamLen
                    BY <5>2, <5>3, ElementOfSeq, Zenon
                <5> QED BY <5>4, ConstantsAssumption
            <4> QED BY <2>2, <2>5, <4>3, <4>5, <4>6, <4>7
        <3>3. CASE ~(s.fin /\ m = payload_sequence(s))
            BY <2>6, <2>9, <3>1, <3>3 DEF EmptySegment
        <3> QED BY <1>1, <3>1, <3>2, <3>3
    <2>10. CASE OutOfOrder(s, m)
        <3>1. /\ next_sequence' = m /\ s.len > 0
              /\ ~sequence_before_or_equal(SegmentEnd(payload_sequence(s), s.len), m)
              /\ sequence_before(m, payload_sequence(s))
            BY <2>10 DEF OutOfOrder
        <3>2. CASE pending' = pending
            BY <2>6, <3>1, <3>2
        <3>3. CASE pending' = Append(pending, [sequence |-> payload_sequence(s),
                                               data |-> payload(s)])
            <4>1. /\ s.pos \in Position /\ s.pos \in Int /\ s.len \in Nat
                  /\ s.pos + s.len <= StreamLen /\ Len(payload(s)) = s.len
                  /\ payload_sequence(s) = Wire(s.pos)
                BY <3>1, SegmentFacts, ConstantsAssumption DEF Position
            <4>2. ~sequence_before_or_equal(payload_sequence(s), m)
                BY <2>5, <3>1, <4>1, Comparisons
            <4>3. pending \in Seq(PendingType)
                BY DEF IInv, TypeOK
            <4>4. ASSUME NEW i \in 1..Len(pending') PROVE ~Ready(i)'
                <5>1. CASE i \in 1..Len(pending) /\ pending'[i] = pending[i]
                    <6>1. pending # <<>>
                        BY <4>3, <5>1
                    <6>2. next_sequence' = next_sequence
                        BY <2>4, <3>1, <6>1
                    <6> QED BY <2>2, <5>1, <6>2 DEF Ready, Stale, PendingEnd
                <5>2. CASE pending'[i] = [sequence |-> payload_sequence(s),
                                          data |-> payload(s)]
                    <6>1. /\ pending'[i].sequence = payload_sequence(s)
                          /\ Len(pending'[i].data) = s.len
                        BY <4>1, <5>2
                    <6> QED BY <3>1, <4>2, <6>1 DEF Ready, Stale, PendingEnd
                <5> QED BY <3>3, <4>3, <5>1, <5>2
            <4> QED BY <4>4 DEF PendingBeyondGap
        <3> QED BY <2>10, <3>2, <3>3 DEF OutOfOrder, store
    <2> QED BY <2>1, <2>7, <2>8, <2>9, <2>10
<1> QED
    BY <1>4, <1>5, <1>6, <1>7, <1>8, <1>10, <1>11, <1>12
       DEF Next, flush_pending_segments

(* flush_pending_segments is complete: whenever a call has returned and    *)
(* the direction is usable, every stored segment still waits for a gap.    *)
THEOREM PendingWaitsForGap ==
    ASSUME FullCapture
    PROVE  Spec => []PendingBeyondGap
<1>1. Init => PendingBeyondGap
    BY DEF Init, PendingBeyondGap
<1>2. IInv /\ [Next]_vars => IInv'
    BY IInvInductive
<1>3. IInv /\ PendingBeyondGap /\ [Next]_vars => PendingBeyondGap'
    BY GapStep
<1> QED
    BY <1>1, <1>2, <1>3, IInvInit, PTL DEF Spec
----------------------------------------------------------------------------
(* Nothing acknowledged is lost.                                           *)

\* Position p is in the pending store q.
Waiting(q, p) ==
    \E i \in 1..Len(q) : q[i].data[1] <= p /\ p < q[i].data[1] + Len(q[i].data)

\* Position p lies after everything the stream st holds.
After(st, p) == st # <<>> => p > st[Len(st)]

(* The strengthening that makes StreamIsLongestRun follow: while the       *)
(* direction is usable, also in the middle of the flush loop, the stream   *)
(* holds acknowledged bytes only, and past its end the acknowledged bytes  *)
(* are exactly the ones waiting in the pending store. The loop only runs   *)
(* after an append.                                                        *)
KeptHeld ==
    /\ ~unusable =>
          /\ \A i \in 1..Len(stream) : stream[i] \in kept
          /\ \A p \in Int : After(stream, p) => (p \in kept <=> Waiting(pending, p))
    /\ pc = "flush" => stream # <<>>

(* A pending segment is an interval of positions inside the sender's       *)
(* stream.                                                                 *)
LEMMA PendingFacts ==
    ASSUME IInv, NEW i \in 1..Len(pending)
    PROVE  /\ pending[i].data[1] \in 0..StreamLen
           /\ Len(pending[i].data) \in Nat /\ Len(pending[i].data) >= 1
           /\ pending[i].data[1] + Len(pending[i].data) <= StreamLen
           /\ pending[i].sequence = Wire(pending[i].data[1])
<1>1. pending[i].data \in Seq(0..StreamLen)
    <2>1. pending[i] \in PendingType
        BY DEF IInv, TypeOK
    <2> QED BY <2>1 DEF PendingType
<1>2. /\ Len(pending[i].data) >= 1 /\ Len(pending[i].data) \in Nat
      /\ pending[i].data[1] + Len(pending[i].data) <= StreamLen
      /\ pending[i].sequence = Wire(pending[i].data[1])
    BY <1>1 DEF IInv, PendingLabelled
<1>3. pending[i].data[1] \in 0..StreamLen
    <2>1. 1 \in 1..Len(pending[i].data)
        BY <1>2
    <2> QED BY <1>1, <2>1, ElementOfSeq, Zenon
<1> QED
    BY <1>2, <1>3

(* Removing an entry takes no other position out of the pending store.     *)
LEMMA WaitingRemove ==
    ASSUME IInv, NEW i \in 1..Len(pending), remove_pending_at(i), NEW p \in Int,
           ~(pending[i].data[1] <= p /\ p < pending[i].data[1] + Len(pending[i].data))
    PROVE  Waiting(pending', p) <=> Waiting(pending, p)
<1>1. pending \in Seq(PendingType) /\ Len(pending) \in Nat
    BY DEF IInv, TypeOK
<1>2. /\ Len(pending') = Len(pending) - 1
      /\ \A j \in 1..(Len(pending) - 1) :
            pending'[j] = IF j < i THEN pending[j] ELSE pending[j + 1]
    BY <1>1, RemoveAtElements DEF remove_pending_at
<1>3. ASSUME NEW j \in 1..Len(pending')
      PROVE  \E k \in 1..Len(pending) : pending'[j] = pending[k]
    BY <1>1, <1>2
<1>4. ASSUME NEW k \in 1..Len(pending), k # i
      PROVE  \E j \in 1..Len(pending') : pending'[j] = pending[k]
    <2>1. CASE k < i
        <3>1. k \in 1..(Len(pending) - 1)
            BY <1>1, <2>1
        <3> QED BY <1>2, <2>1, <3>1
    <2>2. CASE k > i
        <3>1. k - 1 \in 1..(Len(pending) - 1) /\ ~(k - 1 < i) /\ (k - 1) + 1 = k
            BY <1>1, <2>2
        <3>2. pending'[k - 1] = pending[k]
            BY <1>2, <3>1
        <3> QED BY <1>2, <3>1, <3>2
    <2> QED BY <1>4, <2>1, <2>2
<1> QED
    BY <1>3, <1>4 DEF Waiting

(* The positions of a segment's payload.                                   *)
LEMMA PayloadPositions ==
    ASSUME NEW s \in Segments, NEW p \in Int
    PROVE  p \in ToSet(payload(s)) <=> s.pos <= p /\ p < s.pos + s.len
<1>1. /\ payload(s) \in Seq(0..StreamLen) /\ Len(payload(s)) = s.len
      /\ \A i \in 1..s.len : payload(s)[i] = s.pos + i - 1
      /\ s.pos \in Int /\ s.len \in Nat
    BY SegmentFacts, ConstantsAssumption DEF Position
<1>2. DOMAIN payload(s) = 1..s.len
    BY <1>1
<1>3. ASSUME p \in ToSet(payload(s)) PROVE s.pos <= p /\ p < s.pos + s.len
    <2>1. PICK i \in 1..s.len : p = payload(s)[i]
        BY <1>2, <1>3 DEF ToSet
    <2>2. p = s.pos + i - 1
        BY <1>1, <2>1
    <2> QED BY <1>1, <2>2
<1>4. ASSUME s.pos <= p, p < s.pos + s.len PROVE p \in ToSet(payload(s))
    <2>1. p - s.pos + 1 \in 1..s.len /\ s.pos + (p - s.pos + 1) - 1 = p
        <3> DEFINE a == s.pos
                   l == s.len
        <3>1. a \in Int /\ l \in Nat /\ a <= p /\ p < a + l
            BY <1>1, <1>4
        <3> HIDE DEF a, l
        <3>2. p - a + 1 \in 1..l /\ a + (p - a + 1) - 1 = p
            BY <3>1
        <3> QED BY <3>2 DEF a, l
    <2>2. payload(s)[p - s.pos + 1] = p
        BY <1>1, <2>1
    <2> QED BY <1>2, <2>1, <2>2 DEF ToSet
<1> QED
    BY <1>3, <1>4

(* Appending the run of positions from n on, which the stream st lacks,    *)
(* moves the end of the stream past them.                                  *)
LEMMA AfterAppend ==
    ASSUME NEW st \in Seq(Int), NEW new \in Seq(Int), IsRun(st), IsRun(new),
           new # <<>>, st # <<>> => new[1] = st[Len(st)] + 1
    PROVE  /\ \A p \in Int : After(st \o new, p) <=> p >= new[1] + Len(new)
           /\ \A p \in Int : p >= new[1] => After(st, p)
           /\ \A i \in 1..Len(st \o new) :
                 \/ i \in 1..Len(st) /\ (st \o new)[i] = st[i]
                 \/ (st \o new)[i] \in new[1]..(new[1] + Len(new) - 1)
<1>1. /\ st \o new \in Seq(Int) /\ st \o new # <<>>
      /\ (st \o new)[Len(st \o new)] = new[1] + Len(new) - 1
    BY ExtendRun
<1>2. /\ Len(new) \in Nat /\ Len(new) > 0 /\ Len(st) \in Nat /\ new[1] \in Int
      /\ (st # <<>> => st[Len(st)] \in Int)
    OBVIOUS
<1>3. ASSUME NEW i \in 1..Len(st \o new)
      PROVE  \/ i \in 1..Len(st) /\ (st \o new)[i] = st[i]
             \/ (st \o new)[i] \in new[1]..(new[1] + Len(new) - 1)
    <2>1. CASE i <= Len(st)
        BY <2>1
    <2>2. CASE i > Len(st)
        <3>1. i - Len(st) \in 1..Len(new) /\ (st \o new)[i] = new[i - Len(st)]
            BY <2>2
        <3>2. new[i - Len(st)] = new[1] + (i - Len(st)) - 1
            BY <3>1 DEF IsRun
        <3> DEFINE k == i - Len(st)
                   l == Len(new)
                   a == new[1]
        <3>3. k \in 1..l /\ l \in Nat /\ a \in Int /\ (st \o new)[i] = a + k - 1
            BY <1>2, <3>1, <3>2
        <3> HIDE DEF k, l, a
        <3>4. (st \o new)[i] \in a..(a + l - 1)
            BY <3>3
        <3> QED BY <3>4 DEF a, l
    <2> QED BY <1>2, <2>1, <2>2
<1>4. ASSUME NEW p \in Int PROVE After(st \o new, p) <=> p >= new[1] + Len(new)
    <2> DEFINE l == Len(new)
               a == new[1]
    <2>1. a \in Int /\ l \in Nat /\ (After(st \o new, p) <=> p > a + l - 1)
        BY <1>1, <1>2 DEF After
    <2> HIDE DEF l, a
    <2>2. After(st \o new, p) <=> p >= a + l
        BY <2>1
    <2> QED BY <2>2 DEF l, a
<1>5. ASSUME NEW p \in Int, p >= new[1] PROVE After(st, p)
    BY <1>2, <1>5 DEF After
<1> QED
    BY <1>3, <1>4, <1>5

(* process_segment acknowledges what it appends or stores, and only that.  *)
LEMMA ProcessSegmentKept ==
    ASSUME IInv, KeptHeld, NEW s \in Segments, ProcessSegment(s)
    PROVE  KeptHeld'
<1> DEFINE m == IF initial_sequence_known THEN next_sequence ELSE payload_sequence(s)
<1>1. PICK n \in Position : Continues(m, n)
    BY ExpectedPosition
<1>2. /\ ~unusable /\ stream \in Seq(Int) /\ IsRun(stream) /\ n \in Int
      /\ pending \in Seq(PendingType) /\ s.pos \in Int /\ s.len \in Nat
    <2>1. 0..StreamLen \subseteq Int /\ stream \in Seq(0..StreamLen)
        BY ConstantsAssumption DEF IInv, TypeOK
    <2>2. stream \in Seq(Int)
        BY <2>1, SeqMonotonic, Zenon
    <2> QED BY <2>2, SegmentFacts, ConstantsAssumption
            DEF ProcessSegment, IInv, TypeOK, StreamContiguous, Position
<1>3. /\ \A i \in 1..Len(stream) : stream[i] \in kept
      /\ \A p \in Int : After(stream, p) => (p \in kept <=> Waiting(pending, p))
    BY <1>2 DEF KeptHeld
<1>4. \/ EmptySegment(s, m) \/ Retransmission(s, m)
      \/ OutOfOrder(s, m) \/ InOrder(s, m)
    BY DEF ProcessSegment
<1>5. /\ m = Wire(n)
      /\ stream # <<>> => \/ n = stream[Len(stream)] + 1
                          \/ n = StreamLen + 1 /\ stream[Len(stream)] = StreamLen - 1
    BY <1>1 DEF Continues
<1> HIDE DEF m
<1>6. ASSUME UNCHANGED <<stream, pending, kept, unusable>>, pc' = "idle" PROVE KeptHeld'
    BY <1>2, <1>3, <1>6 DEF KeptHeld
<1>7. CASE EmptySegment(s, m) \/ Retransmission(s, m)
    BY <1>6, <1>7 DEF EmptySegment, Retransmission, Return, store
<1>8. CASE OutOfOrder(s, m)
    <2>1. CASE UNCHANGED <<store, kept>>
        BY <1>6, <1>8, <2>1 DEF OutOfOrder, Return, store
    <2>2. CASE /\ pending' = Append(pending, [sequence |-> payload_sequence(s),
                                              data |-> payload(s)])
               /\ kept' = kept \cup ToSet(payload(s))
        <3>1. stream' = stream /\ s.len > 0 /\ pc' = "idle"
            BY <1>8 DEF OutOfOrder, Return
        <3>2. Len(payload(s)) = s.len /\ payload(s)[1] = s.pos
            <4>1. /\ Len(payload(s)) = s.len
                  /\ \A i \in 1..s.len : payload(s)[i] = s.pos + i - 1
                BY SegmentFacts
            <4>2. 1 \in 1..s.len
                BY <1>2, <3>1
            <4> QED BY <1>2, <4>1, <4>2
        <3> DEFINE e == [sequence |-> payload_sequence(s), data |-> payload(s)]
        <3>3. e.data = payload(s)
            OBVIOUS
        <3>4. /\ pending' = Append(pending, e) /\ Len(pending') = Len(pending) + 1
              /\ \A i \in 1..Len(pending) : pending'[i] = pending[i]
              /\ pending'[Len(pending) + 1] = e /\ Len(pending) \in Nat
            BY <1>2, <2>2
        <3> HIDE DEF e
        <3>5. ASSUME NEW p \in Int
              PROVE  Waiting(pending', p) <=> \/ Waiting(pending, p)
                                              \/ s.pos <= p /\ p < s.pos + s.len
            <4>1. ASSUME Waiting(pending, p) PROVE Waiting(pending', p)
                <5>1. PICK i \in 1..Len(pending) :
                        pending[i].data[1] <= p /\ p < pending[i].data[1] + Len(pending[i].data)
                    BY <4>1 DEF Waiting
                <5>2. i \in 1..Len(pending') /\ pending'[i] = pending[i]
                    BY <3>4
                <5> QED BY <5>1, <5>2 DEF Waiting
            <4>2. ASSUME s.pos <= p, p < s.pos + s.len PROVE Waiting(pending', p)
                <5>1. Len(pending) + 1 \in 1..Len(pending')
                    BY <3>4
                <5> QED BY <3>2, <3>3, <3>4, <4>2, <5>1 DEF Waiting
            <4>3. ASSUME NEW i \in 1..Len(pending'), pending'[i].data[1] <= p,
                         p < pending'[i].data[1] + Len(pending'[i].data)
                  PROVE  Waiting(pending, p) \/ (s.pos <= p /\ p < s.pos + s.len)
                <5>1. CASE i \in 1..Len(pending)
                    BY <3>4, <4>3, <5>1 DEF Waiting
                <5>2. CASE i = Len(pending) + 1
                    BY <3>2, <3>3, <3>4, <4>3, <5>2
                <5> QED BY <3>4, <5>1, <5>2
            <4> QED BY <4>1, <4>2, <4>3 DEF Waiting
        <3>6. \A p \in Int : p \in ToSet(payload(s)) <=> s.pos <= p /\ p < s.pos + s.len
            BY PayloadPositions
        <3> QED BY <1>3, <2>2, <3>1, <3>5, <3>6 DEF KeptHeld
    <2> QED BY <1>8, <2>1, <2>2 DEF OutOfOrder
<1>9. CASE InOrder(s, m)
    <2>1. PICK new \in Seq(Int) :
             /\ IsRun(new) /\ new # <<>> /\ new[1] = n
             /\ n + Len(new) = s.pos + s.len /\ n + Len(new) <= StreamLen
             /\ \/ stream' = stream \o new
                \/ unusable' = TRUE /\ pc' = "idle"
        BY ZenonT(40), <1>5, <1>9, InOrderBytes
    <2>2. kept' = kept \cup ToSet(payload(s)) /\ pending' = pending
          /\ ~sequence_before(m, payload_sequence(s)) /\ s.len > 0
        BY <1>9 DEF InOrder, store
    <2>3. Len(new) \in Nat /\ Len(new) > 0 /\ n < StreamLen
        BY <1>2, <2>1, ConstantsAssumption
    <2>4. stream # <<>> => new[1] = stream[Len(stream)] + 1
        <3>1. StreamLen \in Nat
            BY ConstantsAssumption
        <3> QED BY <1>2, <1>5, <2>1, <2>3, <3>1
    <2>5. s.pos <= n
        <3>1. /\ s.pos \in Position /\ s.pos + s.len <= StreamLen
              /\ payload_sequence(s) = Wire(s.pos)
            BY <2>2, SegmentFacts
        <3>2. ~sequence_before(Wire(n), Wire(s.pos))
            BY <1>5, <2>2, <3>1
        <3>3. sequence_before(Wire(n), Wire(s.pos)) <=> n < s.pos
            BY <1>2, <3>1, Comparisons
        <3> QED BY <1>2, <3>2, <3>3
    <2>6. CASE unusable' = TRUE /\ pc' = "idle"
        BY <2>6 DEF KeptHeld
    <2>7. CASE stream' = stream \o new
        <3>1. /\ \A p \in Int : After(stream', p) <=> p >= n + Len(new)
              /\ \A p \in Int : p >= n => After(stream, p)
              /\ \A i \in 1..Len(stream') :
                    \/ i \in 1..Len(stream) /\ stream'[i] = stream[i]
                    \/ stream'[i] \in n..(n + Len(new) - 1)
            BY <1>2, <2>1, <2>4, <2>7, AfterAppend
        <3>2. \A p \in Int : p \in ToSet(payload(s)) <=> s.pos <= p /\ p < s.pos + s.len
            BY PayloadPositions
        <3>3. ASSUME NEW i \in 1..Len(stream') PROVE stream'[i] \in kept'
            <4>1. CASE i \in 1..Len(stream) /\ stream'[i] = stream[i]
                BY <1>3, <2>2, <4>1
            <4>2. CASE stream'[i] \in n..(n + Len(new) - 1)
                <5> DEFINE q == stream'[i]
                <5>1. q \in n..(n + Len(new) - 1)
                    BY <4>2
                <5> HIDE DEF q
                <5>2. q \in Int /\ s.pos <= q /\ q < s.pos + s.len
                    BY <1>2, <2>1, <2>3, <2>5, <5>1
                <5>3. q \in kept'
                    BY <2>2, <3>2, <5>2
                <5> QED BY <5>3 DEF q
            <4> QED BY <3>1, <4>1, <4>2
        <3>4. ASSUME NEW p \in Int, After(stream', p)
              PROVE  p \in kept' <=> Waiting(pending', p)
            <4>1. p >= n + Len(new) /\ p >= n /\ ~(p < s.pos + s.len)
                BY <1>2, <2>1, <2>3, <3>1, <3>4
            <4> QED BY <1>3, <2>2, <3>1, <3>2, <4>1
        <3>5. stream' # <<>>
            BY <1>2, <2>1, <2>3, <2>7
        <3> QED BY <3>3, <3>4, <3>5 DEF KeptHeld
    <2> QED BY <2>1, <2>6, <2>7
<1> QED
    BY <1>4, <1>7, <1>8, <1>9

(* The flush loop loses nothing: what it removes from the pending store is *)
(* in the stream already or goes there.                                    *)
LEMMA FlushStepKept ==
    ASSUME IInv, KeptHeld, FlushStep
    PROVE  KeptHeld'
<1>1. PICK i \in 1..Len(pending) : FirstReady(i) /\ (FlushStale(i) \/ FlushAppend(i))
    BY DEF FlushStep
<1>2. /\ initial_sequence_known /\ ~unusable /\ pc = "flush" /\ kept' = kept
    BY DEF FlushStep, IInv, FlushContext
<1>3. PICK n \in Position : Continues(next_sequence, n)
    BY <1>2 DEF IInv, Sequencing
<1>4. /\ stream \in Seq(Int) /\ IsRun(stream) /\ n \in Int /\ StreamLen \in Nat
      /\ next_sequence = Wire(n)
      /\ stream # <<>> => \/ n = stream[Len(stream)] + 1
                          \/ n = StreamLen + 1 /\ stream[Len(stream)] = StreamLen - 1
    <2>1. 0..StreamLen \subseteq Int /\ stream \in Seq(0..StreamLen)
        BY ConstantsAssumption DEF IInv, TypeOK
    <2>2. stream \in Seq(Int)
        BY <2>1, SeqMonotonic, Zenon
    <2> QED BY <1>3, <2>2, ConstantsAssumption
            DEF IInv, StreamContiguous, Position, Continues
<1>5. /\ \A j \in 1..Len(stream) : stream[j] \in kept
      /\ \A p \in Int : After(stream, p) => (p \in kept <=> Waiting(pending, p))
    BY <1>2 DEF KeptHeld
<1> DEFINE a == pending[i].data[1]
           l == Len(pending[i].data)
<1>6. /\ a \in Int /\ a >= 0 /\ l \in Nat /\ l >= 1 /\ a + l <= StreamLen
      /\ pending[i].sequence = Wire(a) /\ a \in Position
    BY PendingFacts, ConstantsAssumption DEF Position
<1>7. ASSUME remove_pending_at(i), NEW p \in Int, ~(a <= p /\ p < a + l)
      PROVE  Waiting(pending', p) <=> Waiting(pending, p)
    BY <1>7, WaitingRemove
<1>8. CASE FlushStale(i)
    <2>1. /\ stream' = stream /\ unusable' = unusable /\ remove_pending_at(i)
          /\ sequence_before_or_equal(SegmentEnd(Wire(a), l), Wire(n))
        BY <1>4, <1>6, <1>8 DEF FlushStale, Stale, PendingEnd
    <2> HIDE DEF a, l
    <2>2. a + l <= n
        BY <1>6, <2>1, Comparisons
    <2>3. stream # <<>>
        BY <1>2 DEF KeptHeld
    <2>4. ASSUME NEW p \in Int, After(stream, p) PROVE ~(p < a + l)
        <3>1. stream[Len(stream)] \in Int /\ p > stream[Len(stream)]
            BY <1>4, <2>3, <2>4 DEF After
        <3> QED BY <1>4, <1>6, <2>2, <2>3, <3>1
    <2> QED BY <1>2, <1>5, <1>7, <2>1, <2>3, <2>4 DEF KeptHeld
<1>9. CASE FlushAppend(i)
    <2>1. PICK new \in Seq(Int) :
             /\ IsRun(new) /\ new # <<>> /\ new[1] = n /\ n + Len(new) <= StreamLen
             /\ a <= n /\ n + Len(new) = a + l
             /\ \/ /\ stream' = stream \o new
                   /\ remove_pending_at(i) /\ UNCHANGED <<unusable, pc>>
                \/ unusable' = TRUE /\ pc' = "idle"
        BY <1>1, <1>4, <1>9, FlushAppendBytes
    <2> HIDE DEF a, l
    <2>2. Len(new) \in Nat /\ Len(new) > 0 /\ n < StreamLen
        BY <1>4, <2>1
    <2>3. stream # <<>> => new[1] = stream[Len(stream)] + 1
        BY <1>4, <2>1, <2>2
    <2>4. CASE unusable' = TRUE /\ pc' = "idle"
        BY <2>4 DEF KeptHeld
    <2>5. CASE /\ stream' = stream \o new
               /\ remove_pending_at(i) /\ UNCHANGED <<unusable, pc>>
        <3>1. /\ \A p \in Int : After(stream', p) <=> p >= n + Len(new)
              /\ \A p \in Int : p >= n => After(stream, p)
              /\ \A j \in 1..Len(stream') :
                    \/ j \in 1..Len(stream) /\ stream'[j] = stream[j]
                    \/ stream'[j] \in n..(n + Len(new) - 1)
            BY <1>4, <2>1, <2>3, <2>5, AfterAppend
        <3>2. ASSUME NEW j \in 1..Len(stream') PROVE stream'[j] \in kept'
            <4>1. CASE j \in 1..Len(stream) /\ stream'[j] = stream[j]
                BY <1>2, <1>5, <4>1
            <4>2. CASE stream'[j] \in n..(n + Len(new) - 1)
                <5> DEFINE q == stream'[j]
                <5>1. q \in n..(n + Len(new) - 1)
                    BY <4>2
                <5> HIDE DEF q
                <5>2. q \in Int /\ q >= n /\ a <= q /\ q < a + l
                    BY <1>4, <1>6, <2>1, <2>2, <5>1
                <5>3. Waiting(pending, q)
                    BY <5>2 DEF Waiting, a, l
                <5>4. q \in kept
                    BY <1>5, <3>1, <5>2, <5>3
                <5> QED BY <1>2, <5>4 DEF q
            <4> QED BY <3>1, <4>1, <4>2
        <3>3. ASSUME NEW p \in Int, After(stream', p)
              PROVE  p \in kept' <=> Waiting(pending', p)
            <4>1. p >= n + Len(new) /\ p >= n /\ ~(p < a + l)
                BY <1>4, <2>1, <2>2, <3>1, <3>3
            <4>2. Waiting(pending', p) <=> Waiting(pending, p)
                BY <1>7, <2>5, <4>1
            <4> QED BY <1>2, <1>5, <3>1, <4>1, <4>2
        <3>4. stream' # <<>>
            BY <1>4, <2>1, <2>2, <2>5
        <3> QED BY <3>2, <3>3, <3>4 DEF KeptHeld
    <2> QED BY <2>1, <2>4, <2>5
<1> QED
    BY <1>1, <1>8, <1>9

(* Every step keeps what has been acknowledged accounted for.              *)
LEMMA KeptStep ==
    ASSUME IInv, KeptHeld, [Next]_vars
    PROVE  KeptHeld'
<1>1. ASSUME pc = "idle", pc' = pc, stream' = <<>>, pending' = <<>>, kept' = {}
      PROVE  KeptHeld'
    <2>1. (\A i \in 1..Len(stream') : FALSE) /\ \A p : ~Waiting(pending', p)
        BY <1>1 DEF Waiting
    <2> QED BY <1>1, <2>1 DEF KeptHeld
<1>2. ASSUME UNCHANGED <<unusable, stream, store, kept>>, pc' = pc \/ pc' = "idle"
      PROVE  KeptHeld'
    BY <1>2 DEF KeptHeld, store
<1>3. CASE DirectionInit \/ DirectionCleanup
    BY <1>1, <1>3 DEF DirectionInit, DirectionCleanup, Reset
<1>4. CASE ReleaseBuffers
    BY <1>1, <1>4 DEF ReleaseBuffers
<1>5. CASE DropUnusable
    BY <1>2, <1>5 DEF DropUnusable, Return
<1>6. CASE FlushDone
    BY <1>2, <1>6 DEF FlushDone, Return
<1>7. ASSUME NEW s \in Segments, TrackFlags(s) PROVE KeptHeld'
    BY <1>2, <1>7 DEF TrackFlags
<1>8. CASE UNCHANGED vars
    BY <1>2, <1>8 DEF vars
<1>9. CASE FlushStep
    BY <1>9, FlushStepKept
<1>10. ASSUME NEW s \in Segments, ProcessSegment(s) PROVE KeptHeld'
    BY <1>10, ProcessSegmentKept
<1> QED
    BY <1>3, <1>4, <1>5, <1>6, <1>7, <1>8, <1>9, <1>10
       DEF Next, flush_pending_segments

(* At a fixpoint of the flush loop the byte after the stream has not been  *)
(* acknowledged, so the stream is the longest run.                         *)
LEMMA LongestRun ==
    ASSUME IInv, KeptHeld, PendingBeyondGap
    PROVE  StreamIsLongestRun
<1> SUFFICES ASSUME pc = "idle", ~unusable, stream # <<>>
             PROVE  ToSet(stream) =
                      {p \in kept : stream[1]..p \subseteq kept /\ p >= stream[1]}
    BY DEF StreamIsLongestRun
<1> DEFINE b == stream[1]
           e == stream[Len(stream)]
<1>1. /\ stream \in Seq(Int) /\ Len(stream) \in Nat /\ Len(stream) >= 1
      /\ b \in Int /\ e \in Int /\ e = b + Len(stream) - 1
      /\ \A i \in 1..Len(stream) : stream[i] = b + i - 1
    <2>1. 0..StreamLen \subseteq Int /\ stream \in Seq(0..StreamLen)
        BY ConstantsAssumption DEF IInv, TypeOK
    <2>2. stream \in Seq(Int)
        BY <2>1, SeqMonotonic, Zenon
    <2>3. Len(stream) \in Nat /\ Len(stream) >= 1
        BY <2>2
    <2> QED BY <2>2, <2>3 DEF IInv, StreamContiguous, IsRun
<1>2. /\ \A i \in 1..Len(stream) : stream[i] \in kept
      /\ \A p \in Int : p > e => (p \in kept <=> Waiting(pending, p))
    BY DEF KeptHeld, After
<1>3. kept \subseteq Int
    BY ConstantsAssumption DEF IInv, TypeOK
<1>4. e + 1 \notin kept
    <2>1. initial_sequence_known \in BOOLEAN
        BY DEF IInv, TypeOK
    <2>2. PICK n \in Position : Continues(next_sequence, n)
        BY <2>1 DEF IInv, Sequencing
    <2>3. next_sequence = Wire(n) /\ n \in Int /\ n >= e + 1
        BY <1>1, <2>2, ConstantsAssumption DEF Continues, Position
    <2>4. ASSUME NEW i \in 1..Len(pending)
          PROVE  ~(pending[i].data[1] <= e + 1)
        <3>1. ~Ready(i)
            BY DEF PendingBeyondGap
        <3>2. Ready(i) <=> pending[i].data[1] <= n
            BY <2>3, ReadyAt
        <3>3. pending[i].data[1] \in Int
            BY PendingFacts
        <3> DEFINE a == pending[i].data[1]
        <3>4. e \in Int /\ a \in Int /\ ~(a <= n)
            BY <1>1, <3>1, <3>2, <3>3
        <3> HIDE DEF e, a
        <3>5. ~(a <= e + 1)
            BY <2>3, <3>4
        <3> QED BY <3>5 DEF a
    <2>5. ~Waiting(pending, e + 1)
        BY <2>4 DEF Waiting
    <2>6. e + 1 \in Int /\ e + 1 > e
        BY <1>1
    <2> HIDE DEF e
    <2> QED BY <1>2, <2>5, <2>6
<1>5. ToSet(stream) = b..e
    <2>1. DOMAIN stream = 1..Len(stream)
        BY <1>1
    <2> HIDE DEF b, e
    <2>2. ASSUME NEW p \in ToSet(stream) PROVE p \in b..e
        <3>1. PICK i \in 1..Len(stream) : p = stream[i]
            BY <2>1 DEF ToSet
        <3>2. p = b + i - 1
            BY <1>1, <3>1
        <3> QED BY <1>1, <3>2
    <2>3. ASSUME NEW p \in b..e PROVE p \in ToSet(stream)
        <3>1. p - b + 1 \in 1..Len(stream) /\ b + (p - b + 1) - 1 = p
            BY <1>1
        <3>2. stream[p - b + 1] = p
            BY <1>1, <3>1
        <3> QED BY <2>1, <3>1, <3>2 DEF ToSet
    <2> QED BY <2>2, <2>3
<1>6. b..e \subseteq kept
    BY <1>2, <1>5 DEF ToSet
<1> HIDE DEF b, e
<1>7. ASSUME NEW p \in b..e PROVE p \in kept /\ b..p \subseteq kept /\ p >= b
    <2>1. b..p \subseteq b..e /\ p >= b
        BY <1>1
    <2> QED BY <1>6, <2>1
<1>8. ASSUME NEW p \in kept, b..p \subseteq kept, p >= b PROVE p \in b..e
    <2>1. p \in Int
        BY <1>3
    <2>2. CASE p > e
        <3>1. e + 1 \in b..p
            BY <1>1, <2>1, <2>2
        <3> QED BY <1>4, <1>8, <3>1
    <2> QED BY <1>1, <1>8, <2>1, <2>2
<1>9. b..e = {p \in kept : b..p \subseteq kept /\ p >= b}
    BY <1>7, <1>8
<1> QED
    BY <1>5, <1>9 DEF b

(* No acknowledged byte is lost and none is delivered early: between       *)
(* calls, the stream of a usable direction is the longest uninterrupted    *)
(* run, from its first byte, of the bytes that process_segment reported as *)
(* ACCEPTED or BUFFERED, when no FIN segment was truncated by the capture. *)
THEOREM NothingAcknowledgedIsLost ==
    ASSUME FullCapture
    PROVE  Spec => []StreamIsLongestRun
<1>1. Init => PendingBeyondGap
    BY DEF Init, PendingBeyondGap
<1>2. Init => KeptHeld
    <2> SUFFICES ASSUME Init PROVE KeptHeld
        OBVIOUS
    <2>1. stream = <<>> /\ pending = <<>> /\ kept = {} /\ pc = "idle"
        BY DEF Init
    <2>2. (\A i \in 1..Len(stream) : FALSE) /\ \A p : ~Waiting(pending, p)
        BY <2>1 DEF Waiting
    <2> QED BY <2>1, <2>2 DEF KeptHeld
<1>3. IInv /\ [Next]_vars => IInv'
    BY IInvInductive
<1>4. IInv /\ PendingBeyondGap /\ [Next]_vars => PendingBeyondGap'
    BY GapStep
<1>5. IInv /\ KeptHeld /\ [Next]_vars => KeptHeld'
    BY KeptStep
<1>6. IInv /\ KeptHeld /\ PendingBeyondGap => StreamIsLongestRun
    BY LongestRun
<1> QED
    BY <1>1, <1>2, <1>3, <1>4, <1>5, <1>6, IInvInit, PTL DEF Spec
----------------------------------------------------------------------------
(* The direction implements the in-order reader.                           *)

(* Every step appends in order, closes, discards, or leaves the reader's   *)
(* view as it is.                                                          *)
LEMMA ReaderStep ==
    ASSUME FullCapture, IInv, IInv', [Next]_vars
    PROVE  [Reader!Next]_(Reader!vars)
<1>1. /\ stream \in Seq(Int) /\ stream' \in Seq(Int) /\ IsRun(stream')
      /\ Len(stream') <= BufferBytes
    <2>1. /\ 0..StreamLen \subseteq Int
          /\ stream \in Seq(0..StreamLen) /\ stream' \in Seq(0..StreamLen)
        BY ConstantsAssumption DEF IInv, TypeOK
    <2>2. stream \in Seq(Int) /\ stream' \in Seq(Int)
        BY <2>1, SeqMonotonic, Zenon
    <2>3. Len(stream') <= BufferBytes
        <3>1. Len(stream') <= capacity' /\ capacity' \in {0, BufferBytes}
            BY DEF IInv, TypeOK
        <3> QED BY <2>2, <3>1, ConstantsAssumption
    <2> QED BY <2>2, <2>3 DEF IInv, StreamContiguous
<1>2. unusable' \in BOOLEAN
    BY DEF IInv, TypeOK
<1>3. ASSUME NEW d \in Seq(Int), d # <<>>, stream' = stream \o d, ~unusable
      PROVE  Reader!Extend
    <2>1. Len(stream) < Len(stream') /\ \A i \in 1..Len(stream) : stream'[i] = stream[i]
        BY <1>1, <1>3
    <2> QED BY <1>1, <1>2, <1>3, <2>1
            DEF Reader!Extend, Reader!Extends, Reader!IsRun, IsRun
<1>4. ASSUME stream' = stream, unusable' = TRUE PROVE Reader!Close
    BY <1>4 DEF Reader!Close
<1>5. ASSUME stream' = <<>> PROVE Reader!Discard
    BY <1>2, <1>5 DEF Reader!Discard
<1>6. ASSUME stream' = stream, unusable' = unusable PROVE UNCHANGED Reader!vars
    BY <1>6 DEF Reader!vars
<1>7. CASE DirectionInit \/ DirectionCleanup \/ ReleaseBuffers
    BY <1>5, <1>7 DEF DirectionInit, DirectionCleanup, Reset, ReleaseBuffers, Reader!Next
<1>8. CASE DropUnusable \/ FlushDone
    BY <1>6, <1>8 DEF DropUnusable, FlushDone
<1>9. CASE UNCHANGED vars
    BY <1>6, <1>9 DEF vars
<1>10. ASSUME NEW s \in Segments, TrackFlags(s) PROVE UNCHANGED Reader!vars
    BY <1>6, <1>10 DEF TrackFlags
<1>11. CASE FlushStep
    <2>1. PICK i \in 1..Len(pending) : FirstReady(i) /\ (FlushStale(i) \/ FlushAppend(i))
        BY <1>11 DEF FlushStep
    <2>2. ~unusable
        BY <1>11 DEF FlushStep, IInv, FlushContext
    <2>3. CASE FlushStale(i)
        BY <1>6, <2>3 DEF FlushStale
    <2>4. CASE FlushAppend(i)
        <3>1. CASE stream' = stream
            BY <1>4, <1>6, <2>4, <3>1 DEF FlushAppend, Reader!Next
        <3>2. CASE stream' # stream
            <4> DEFINE new == Trimmed(pending[i].data,
                                (next_sequence - pending[i].sequence) % SeqSpace)
            <4>1. stream' = stream \o new
                BY <2>4, <3>2 DEF FlushAppend
            <4>2. new \in Seq(Int)
                BY <2>1, <2>4, FlushedBytes
            <4> HIDE DEF new
            <4>3. new # <<>>
                BY <1>1, <3>2, <4>1
            <4> QED BY <1>3, <2>2, <4>1, <4>2, <4>3 DEF Reader!Next
        <3> QED BY <3>1, <3>2
    <2> QED BY <2>1, <2>3, <2>4
<1>12. ASSUME NEW s \in Segments, ProcessSegment(s) PROVE [Reader!Next]_(Reader!vars)
    <2> DEFINE m == IF initial_sequence_known THEN next_sequence ELSE payload_sequence(s)
    <2>1. /\ ~unusable
          /\ \/ EmptySegment(s, m) \/ Retransmission(s, m)
             \/ OutOfOrder(s, m) \/ InOrder(s, m)
        BY <1>12 DEF ProcessSegment
    <2>2. PICK n \in Position : Continues(m, n)
        BY <1>12, ExpectedPosition
    <2>3. m = Wire(n)
        BY <2>2 DEF Continues
    <2> HIDE DEF m
    <2>4. CASE EmptySegment(s, m) \/ Retransmission(s, m) \/ OutOfOrder(s, m)
        BY <1>6, <2>4 DEF EmptySegment, Retransmission, OutOfOrder
    <2>5. CASE InOrder(s, m)
        <3>1. PICK new \in Seq(Int) :
                 /\ new # <<>>
                 /\ \/ stream' = stream \o new
                    \/ /\ ~(Len(new) <= capacity - Len(stream))
                       /\ stream' = stream \o SubSeq(new, 1, capacity - Len(stream))
                       /\ unusable' = TRUE
            BY <2>3, <2>5, InOrderBytes
        <3>2. CASE stream' = stream \o new
            BY <1>3, <2>1, <3>1, <3>2 DEF Reader!Next
        <3>3. CASE /\ ~(Len(new) <= capacity - Len(stream))
                   /\ stream' = stream \o SubSeq(new, 1, capacity - Len(stream))
                   /\ unusable' = TRUE
            <4> DEFINE room == capacity - Len(stream)
                       head == SubSeq(new, 1, room)
            <4>1. room \in Nat /\ room <= Len(new)
                BY <1>1, <3>1, <3>3, ConstantsAssumption DEF IInv, TypeOK
            <4>2. stream' = stream \o head
                BY <3>3
            <4> HIDE DEF room
            <4>3. head \in Seq(Int)
                BY <3>1, <4>1, PrefixProperties
            <4> HIDE DEF head
            <4>4. CASE head = <<>>
                <5>1. stream' = stream
                    BY <1>1, <4>2, <4>4, ConcatEmptySeq
                <5> QED BY <1>4, <3>3, <5>1 DEF Reader!Next
            <4>5. CASE head # <<>>
                BY <1>3, <2>1, <4>2, <4>3, <4>5 DEF Reader!Next
            <4> QED BY <4>4, <4>5
        <3> QED BY <3>1, <3>2, <3>3
    <2> QED BY <2>1, <2>4, <2>5
<1> QED
    BY <1>7, <1>8, <1>9, <1>10, <1>11, <1>12 DEF Next, flush_pending_segments, Reader!Next

(* TcpReassembly implements InOrderStream: a decoder that re-reads the     *)
(* stream after every segment sees one growing run of the sender's bytes,  *)
(* never longer than the configured buffer, and an unusable direction      *)
(* shows it nothing new.                                                   *)
THEOREM ImplementsReader ==
    ASSUME FullCapture
    PROVE  Spec => ReaderSpec
<1>1. Init => Reader!Init
    BY DEF Init, Reader!Init
<1>2. IInv /\ [Next]_vars => IInv'
    BY IInvInductive
<1>3. IInv /\ IInv' /\ [Next]_vars => [Reader!Next]_(Reader!vars)
    BY ReaderStep
<1> QED
    BY <1>1, <1>2, <1>3, IInvInit, PTL DEF Spec, ReaderSpec, Reader!Spec
----------------------------------------------------------------------------
(* The interface of a direction. A call that reaches the flush loop spans  *)
(* several steps, so the invariant has to say what the call has done so    *)
(* far: it noted the flags of one segment, and every event it counted past *)
(* the first one has cost it a pending entry.                              *)

Counted(c) == counters[c] - seen.counts[c]

InCall ==
    /\ ~seen.unusable /\ seen.allocated /\ ~unusable /\ capacity > 0
    /\ \E s \in Segments : /\ fin_seen = (seen.fin_seen \/ s.fin)
                           /\ rst_seen = (seen.rst_seen \/ s.rst)
    /\ \A c \in CounterNames : /\ Counted(c) >= 0
                               /\ Counted(c) + Len(pending) <= MaxPending + 1

CallInv ==
    /\ seen \in Interface!DirectionType
    /\ pc = "idle" => seen = direction
    /\ pc = "flush" => InCall

(* The interface state of a well-typed direction is well typed.            *)
LEMMA DirectionTyped ==
    ASSUME TypeOK
    PROVE  direction \in Interface!DirectionType
<1>1. (capacity > 0) \in BOOLEAN
    BY ConstantsAssumption DEF TypeOK
<1> QED BY <1>1 DEF TypeOK, direction, Interface!DirectionType

(* The same after a step.                                                  *)
LEMMA DirectionTypedNext ==
    ASSUME TypeOK'
    PROVE  direction' \in Interface!DirectionType
<1>1. (capacity' > 0) \in BOOLEAN
    BY ConstantsAssumption DEF TypeOK
<1> QED BY <1>1 DEF TypeOK, direction, Interface!DirectionType

(* Counting an event adds one to its counter.                              *)
LEMMA CountAdds ==
    ASSUME NEW f \in [CounterNames -> Nat], NEW name \in CounterNames
    PROVE  /\ Count(f, name) \in [CounterNames -> Nat]
           /\ \A c \in CounterNames : Count(f, name)[c] - f[c] \in {0, 1}
           /\ \A c \in CounterNames : c # name => Count(f, name)[c] = f[c]
BY DEF Count

(* Interface states with the same fields are the same.                     *)
LEMMA SameDirection ==
    ASSUME NEW d \in Interface!DirectionType, NEW e \in Interface!DirectionType,
           d.fin_seen = e.fin_seen, d.rst_seen = e.rst_seen,
           d.unusable = e.unusable, d.allocated = e.allocated, d.counts = e.counts
    PROVE  d = e
BY DEF Interface!DirectionType

(* The fields of the interface state after a step.                         *)
LEMMA DirectionFields ==
    /\ direction'.fin_seen = fin_seen' /\ direction'.rst_seen = rst_seen'
    /\ direction'.unusable = unusable' /\ direction'.allocated = (capacity' > 0)
    /\ direction'.counts = counters'
    /\ direction.fin_seen = fin_seen /\ direction.rst_seen = rst_seen
    /\ direction.unusable = unusable /\ direction.allocated = (capacity > 0)
    /\ direction.counts = counters
BY DEF direction

(* track_flags raises the flags of f and leaves the rest.                  *)
LEMMA TrackFields ==
    ASSUME NEW d \in Interface!DirectionType, NEW s \in Segments
    PROVE  LET q == Interface!track_flags(d, s)
           IN  /\ q \in Interface!DirectionType
               /\ q.fin_seen = (d.fin_seen \/ s.fin)
               /\ q.rst_seen = (d.rst_seen \/ s.rst)
               /\ q.unusable = d.unusable /\ q.allocated = d.allocated
               /\ q.counts = d.counts
<1> DEFINE x == d.fin_seen \/ s.fin
           y == d.rst_seen \/ s.rst
<1>1. x \in BOOLEAN /\ y \in BOOLEAN
    BY Zenon
<1>2. Interface!track_flags(d, s) = [d EXCEPT !.fin_seen = x, !.rst_seen = y]
    BY Zenon DEF Interface!track_flags
<1> HIDE DEF x, y
<1> DEFINE q == Interface!track_flags(d, s)
<1> HIDE DEF q
<1>3. q = [d EXCEPT !.fin_seen = x, !.rst_seen = y]
    BY <1>2, Zenon DEF q
<1>4. /\ q \in Interface!DirectionType
      /\ q.fin_seen = x /\ q.rst_seen = y /\ q.unusable = d.unusable
      /\ q.allocated = d.allocated /\ q.counts = d.counts
    BY <1>1, <1>3 DEF Interface!DirectionType
<1> QED BY <1>4, Zenon DEF x, y, q

(* A call that notes the flags of a segment on a usable direction and      *)
(* counts at most MaxPending + 1 events of each kind has an effect of      *)
(* process_segment.                                                        *)
LEMMA CallEffect ==
    ASSUME TypeOK', seen \in Interface!DirectionType, NEW s \in Segments,
           ~seen.unusable, seen.allocated, capacity' > 0,
           fin_seen' = (seen.fin_seen \/ s.fin),
           rst_seen' = (seen.rst_seen \/ s.rst),
           \A c \in CounterNames :
               counters'[c] - seen.counts[c] \in 0..(MaxPending + 1)
    PROVE  direction' \in Interface!process_segment(seen, s)
<1> DEFINE e == [c \in CounterNames |-> counters'[c] - seen.counts[c]]
           d == Interface!Processed(seen, s, unusable', e)
<1>1. e \in Interface!Increments /\ unusable' \in BOOLEAN
    BY DEF Interface!Increments, TypeOK
<1>2. Interface!Plus(seen.counts, e) = counters'
    BY DEF Interface!Plus, TypeOK, Interface!DirectionType
<1> HIDE DEF e
<1>3. d = direction'
    <2> DEFINE t == Interface!track_flags(seen, s)
               k == Interface!Plus(seen.counts, e)
    <2>1. /\ t \in Interface!DirectionType
          /\ t.fin_seen = fin_seen' /\ t.rst_seen = rst_seen'
          /\ t.allocated = seen.allocated /\ t.counts = seen.counts
        BY TrackFields, Zenon
    <2>2. k = counters' /\ k \in [CounterNames -> Nat]
        BY <1>2 DEF TypeOK
    <2>3. d = [t EXCEPT !.unusable = unusable', !.counts = k]
        BY <2>1, Zenon DEF Interface!Processed
    <2> HIDE DEF t, k, d
    <2>4. /\ d \in Interface!DirectionType
          /\ d.fin_seen = t.fin_seen /\ d.rst_seen = t.rst_seen
          /\ d.unusable = unusable' /\ d.allocated = t.allocated /\ d.counts = k
        BY <1>1, <2>1, <2>2, <2>3 DEF Interface!DirectionType
    <2>5. seen.allocated = (capacity' > 0)
        BY ConstantsAssumption DEF Interface!DirectionType, TypeOK
    <2>6. /\ d.fin_seen = direction'.fin_seen /\ d.rst_seen = direction'.rst_seen
          /\ d.unusable = direction'.unusable /\ d.allocated = direction'.allocated
          /\ d.counts = direction'.counts
        BY <2>1, <2>2, <2>4, <2>5, DirectionFields, Zenon
    <2> QED BY <2>4, <2>6, DirectionTypedNext, SameDirection, Zenon
<1> HIDE DEF d
<1>4. d \in {Interface!Processed(seen, s, u, f) :
                u \in BOOLEAN, f \in Interface!Increments}
    BY <1>1 DEF d
<1> QED
    BY <1>3, <1>4 DEF Interface!process_segment

(* No branch of process_segment counts an event of one kind twice, only    *)
(* the in-order branch enters the flush loop, and it does so with the      *)
(* direction usable and the pending store untouched.                       *)
LEMMA ProcessSegmentCounts ==
    ASSUME TypeOK, NEW s \in Segments, ProcessSegment(s)
    PROVE  /\ \A c \in CounterNames : counters'[c] - counters[c] \in {0, 1}
           /\ pc' \in {"idle", "flush"}
           /\ pc' = "flush" => ~unusable' /\ pending' = pending
<1> DEFINE n == IF initial_sequence_known THEN next_sequence ELSE payload_sequence(s)
<1>1. counters \in [CounterNames -> Nat]
    BY DEF TypeOK
<1>2. {"out_of_order", "retransmissions", "overlapping", "gaps"} = CounterNames
    BY DEF CounterNames
<1>3. \A c \in CounterNames : counters[c] - counters[c] \in {0, 1}
    BY <1>1
<1>4. \/ EmptySegment(s, n) \/ Retransmission(s, n)
      \/ OutOfOrder(s, n) \/ InOrder(s, n)
    BY Zenon DEF ProcessSegment
<1>5. ~unusable
    BY DEF ProcessSegment
<1> HIDE DEF n
<1>6. CASE EmptySegment(s, n)
    <2>1. counters' = counters /\ pc' = "idle"
        BY <1>6 DEF EmptySegment, Return
    <2> QED BY <1>3, <2>1
<1>7. CASE Retransmission(s, n)
    <2>1. counters' = Count(counters, "retransmissions") /\ pc' = "idle"
        BY <1>7 DEF Retransmission, Return
    <2> QED BY <1>1, <1>2, <2>1, CountAdds
<1>8. CASE OutOfOrder(s, n)
    <2> DEFINE f == Count(counters, "out_of_order")
    <2>1. counters' = Count(f, "gaps") /\ pc' = "idle"
        BY <1>8 DEF OutOfOrder, Return
    <2>2. /\ f \in [CounterNames -> Nat]
          /\ \A c \in CounterNames : f[c] - counters[c] \in {0, 1}
          /\ \A c \in CounterNames : c # "out_of_order" => f[c] = counters[c]
        BY <1>1, <1>2, CountAdds
    <2> HIDE DEF f
    <2>3. /\ \A c \in CounterNames : counters'[c] - f[c] \in {0, 1}
          /\ \A c \in CounterNames : c # "gaps" => counters'[c] = f[c]
        BY <1>2, <2>1, <2>2, CountAdds
    <2> QED BY <1>1, <2>1, <2>2, <2>3
<1>9. CASE InOrder(s, n)
    <2>1. counters' = counters \/ counters' = Count(counters, "overlapping")
        BY <1>9, Zenon DEF InOrder
    <2>2. \A c \in CounterNames : counters'[c] - counters[c] \in {0, 1}
        BY <1>1, <1>2, <1>3, <2>1, CountAdds
    <2>3. (pc' = "flush" /\ unusable' = unusable) \/ pc' = "idle"
        BY <1>9, Zenon DEF InOrder, Return
    <2>4. pending' = pending
        BY <1>9, Zenon DEF InOrder, store
    <2> QED BY <1>5, <2>2, <2>3, <2>4
<1> QED BY <1>4, <1>6, <1>7, <1>8, <1>9

(* An iteration of the flush loop counts at most one event of a kind, and  *)
(* an iteration that stays in the loop removes a pending entry; one that   *)
(* leaves it had an entry to try.                                          *)
LEMMA FlushStepCounts ==
    ASSUME TypeOK, FlushStep
    PROVE  /\ \A c \in CounterNames : counters'[c] - counters[c] \in {0, 1}
           /\ Len(pending) >= 1
           /\ \/ /\ pc' = "flush" /\ unusable' = unusable
                 /\ Len(pending') = Len(pending) - 1
              \/ pc' = "idle" /\ pending' = pending
<1>1. PICK i \in 1..Len(pending) : FlushStale(i) \/ FlushAppend(i)
    BY DEF FlushStep
<1>2. counters \in [CounterNames -> Nat] /\ pending \in Seq(PendingType)
    BY DEF TypeOK
<1>3. {"out_of_order", "retransmissions", "overlapping", "gaps"} = CounterNames
    BY DEF CounterNames
<1>4. Len(pending) >= 1
    BY <1>2
<1>5. ASSUME remove_pending_at(i) PROVE Len(pending') = Len(pending) - 1
    BY <1>2, <1>5, RemoveAtElements DEF remove_pending_at
<1>6. pc = "flush"
    BY DEF FlushStep
<1>7. CASE FlushStale(i)
    <2>1. /\ counters' = Count(counters, "retransmissions")
          /\ remove_pending_at(i) /\ UNCHANGED <<unusable, pc>>
        BY <1>7 DEF FlushStale
    <2> QED BY <1>2, <1>3, <1>4, <1>5, <1>6, <2>1, CountAdds
<1>8. CASE FlushAppend(i)
    <2>1. counters' = counters \/ counters' = Count(counters, "overlapping")
        BY <1>8, Zenon DEF FlushAppend
    <2>2. \A c \in CounterNames : counters'[c] - counters[c] \in {0, 1}
        <3>1. CASE counters' = counters
            BY <1>2, <3>1
        <3>2. CASE counters' = Count(counters, "overlapping")
            BY <1>2, <1>3, <3>2, CountAdds
        <3> QED BY <2>1, <3>1, <3>2
    <2>3. \/ remove_pending_at(i) /\ UNCHANGED <<unusable, pc, result>>
          \/ pc' = "idle" /\ UNCHANGED <<next_sequence, stream, store>>
        BY <1>8, Zenon DEF FlushAppend, Return
    <2>4. UNCHANGED <<next_sequence, stream, store>> => pending' = pending
        BY DEF store
    <2> QED BY <1>4, <1>5, <1>6, <2>2, <2>3, <2>4
<1> QED BY <1>1, <1>7, <1>8

(* A call that returns has the effect of an operation of TcpDirection, and *)
(* the invariant that describes a call in progress is inductive.           *)
LEMMA CallInductive ==
    ASSUME TypeOK, TypeOK', CallInv, CallNext
    PROVE  CallInv' /\ [CallStep]_seen
<1>0. /\ seen \in Interface!DirectionType
      /\ direction' \in Interface!DirectionType
      /\ direction \in Interface!DirectionType
      /\ seen' = IF pc' = "idle" THEN direction' ELSE seen
      /\ pc \in {"idle", "flush"} /\ pc' \in {"idle", "flush"}
      /\ MaxPending \in Nat /\ capacity \in Nat
      /\ Len(pending) \in 0..MaxPending
      /\ counters \in [CounterNames -> Nat] /\ counters' \in [CounterNames -> Nat]
    <2>1. pending \in Seq(PendingType) /\ Len(pending) <= MaxPending
        BY DEF TypeOK
    <2>2. Len(pending) \in 0..MaxPending
        BY <2>1, ConstantsAssumption
    <2> QED BY SMTT(30), <2>2, DirectionTyped, DirectionTypedNext, ConstantsAssumption
            DEF CallInv, CallNext, TypeOK
<1>a. ASSUME pc' = "idle", CallStep \/ direction' = seen
      PROVE  CallInv' /\ [CallStep]_seen
    <2>1. seen' = direction'
        BY <1>0, <1>a
    <2> QED BY <1>0, <1>a, <2>1 DEF CallInv
<1>b. ASSUME pc' = "flush", InCall'
      PROVE  CallInv' /\ [CallStep]_seen
    <2>1. seen' = seen
        BY <1>0, <1>b
    <2> QED BY <1>0, <1>b, <2>1 DEF CallInv
<1>c. ASSUME pc = "idle" PROVE seen = direction
    BY <1>c DEF CallInv
<1>d. ASSUME NEW s \in Segments, direction' \in Interface!process_segment(seen, s),
             pc' = "idle", seen.allocated
      PROVE  CallStep
    BY <1>0, <1>d DEF CallStep
<1>1. ASSUME NEW size \in {0, BufferBytes}, Reset(size), pc = "idle"
      PROVE  pc' = "idle" /\ CallStep
    <2> DEFINE ok == size > 0
               d == Interface!direction_init(ok)
    <2>1. ok \in BOOLEAN /\ size \in Nat
        BY ConstantsAssumption
    <2>2. Interface!Zeroed \in Interface!DirectionType
        BY ZeroedTypes DEF Interface!Zeroed, Interface!DirectionType,
                           Interface!NoCounts, NoCounts
    <2>3. pc' = "idle" /\ capacity' = size /\ fin_seen' = FALSE /\ rst_seen' = FALSE
          /\ unusable' = FALSE /\ counters' = Interface!NoCounts
        BY <1>1 DEF Reset, Interface!NoCounts, NoCounts
    <2>4. d = [Interface!Zeroed EXCEPT !.allocated = ok]
        BY DEF Interface!direction_init
    <2> HIDE DEF ok, d
    <2>5. /\ d \in Interface!DirectionType
          /\ d.allocated = ok
          /\ d.fin_seen = Interface!Zeroed.fin_seen
          /\ d.rst_seen = Interface!Zeroed.rst_seen
          /\ d.unusable = Interface!Zeroed.unusable
          /\ d.counts = Interface!Zeroed.counts
        BY <2>1, <2>2, <2>4 DEF Interface!DirectionType
    <2>6. /\ Interface!Zeroed.fin_seen = FALSE /\ Interface!Zeroed.rst_seen = FALSE
          /\ Interface!Zeroed.unusable = FALSE
          /\ Interface!Zeroed.counts = Interface!NoCounts
        BY DEF Interface!Zeroed
    <2>7. ok = (capacity' > 0)
        BY <2>3 DEF ok
    <2>8. direction' = d
        BY <1>0, <2>3, <2>5, <2>6, <2>7, DirectionFields, SameDirection, Zenon
    <2>9. seen' = Interface!direction_init(ok)
        BY <1>0, <2>3, <2>8 DEF d
    <2> QED BY <2>1, <2>3, <2>9 DEF CallStep
<1>2. CASE DirectionInit \/ DirectionCleanup
    BY <1>1, <1>2, <1>a DEF DirectionInit, DirectionCleanup
<1>3. CASE ReleaseBuffers
    <2>1. /\ pc = "idle" /\ pc' = "idle" /\ capacity' = 0
          /\ UNCHANGED <<fin_seen, rst_seen, unusable, counters>>
        BY <1>3 DEF ReleaseBuffers, flags
    <2> DEFINE d == Interface!release_buffers(seen)
    <2>2. d = [seen EXCEPT !.allocated = FALSE]
        BY DEF Interface!release_buffers
    <2> HIDE DEF d
    <2>3. /\ d \in Interface!DirectionType
          /\ d.fin_seen = seen.fin_seen /\ d.rst_seen = seen.rst_seen
          /\ d.unusable = seen.unusable /\ d.allocated = FALSE
          /\ d.counts = seen.counts
        BY <1>0, <2>2 DEF Interface!DirectionType
    <2>4. (capacity' > 0) = FALSE
        BY <2>1
    <2>a. seen = direction
        BY <1>c, <2>1
    <2>b. /\ d.fin_seen = direction'.fin_seen /\ d.rst_seen = direction'.rst_seen
          /\ d.unusable = direction'.unusable /\ d.allocated = direction'.allocated
          /\ d.counts = direction'.counts
        BY <2>1, <2>3, <2>4, <2>a, DirectionFields, Zenon
    <2>5. direction' = d
        BY <1>0, <2>3, <2>b, SameDirection, Zenon
    <2>6. CallStep
        BY <1>0, <2>1, <2>5 DEF CallStep, d
    <2> QED BY <1>a, <2>1, <2>6
<1>4. CASE DropUnusable
    <2>1. pc = "idle" /\ pc' = "idle" /\ direction' = direction
        BY <1>4 DEF DropUnusable, direction, flags, Return
    <2> QED BY <1>a, <1>c, <2>1
<1>5. ASSUME NEW s \in Segments, TrackFlags(s)
      PROVE  CallInv' /\ [CallStep]_seen
    <2>1. /\ pc = "idle" /\ pc' = "idle" /\ capacity' = capacity
          /\ fin_seen' = (fin_seen \/ s.fin) /\ rst_seen' = (rst_seen \/ s.rst)
          /\ UNCHANGED <<unusable, counters>>
        BY <1>5 DEF TrackFlags
    <2> DEFINE d == Interface!track_flags(seen, s)
    <2>a. /\ d \in Interface!DirectionType
          /\ d.fin_seen = (seen.fin_seen \/ s.fin)
          /\ d.rst_seen = (seen.rst_seen \/ s.rst)
          /\ d.unusable = seen.unusable /\ d.allocated = seen.allocated
          /\ d.counts = seen.counts
        BY <1>0, TrackFields, Zenon
    <2>b. seen = direction
        BY <1>c, <2>1
    <2> HIDE DEF d
    <2>c. /\ d.fin_seen = direction'.fin_seen /\ d.rst_seen = direction'.rst_seen
          /\ d.unusable = direction'.unusable /\ d.allocated = direction'.allocated
          /\ d.counts = direction'.counts
        BY <2>1, <2>a, <2>b, DirectionFields, Zenon
    <2>2. direction' = Interface!track_flags(seen, s)
        BY <1>0, <2>a, <2>c, SameDirection, Zenon DEF d
    <2>3. CallStep
        BY <1>0, <2>1, <2>2 DEF CallStep
    <2> QED BY <1>a, <2>1, <2>3
<1>6. ASSUME NEW s \in Segments, ProcessSegment(s)
      PROVE  CallInv' /\ [CallStep]_seen
    <2>1. /\ pc = "idle" /\ capacity > 0 /\ capacity' = capacity /\ ~unusable
          /\ fin_seen' = (fin_seen \/ s.fin) /\ rst_seen' = (rst_seen \/ s.rst)
        BY <1>6 DEF ProcessSegment
    <2>2. /\ seen = direction /\ ~seen.unusable /\ seen.allocated
          /\ seen.counts = counters /\ seen.fin_seen = fin_seen
          /\ seen.rst_seen = rst_seen
        BY <1>c, <2>1, DirectionFields
    <2>3. /\ \A c \in CounterNames : counters'[c] - counters[c] \in {0, 1}
          /\ pc' = "flush" => ~unusable' /\ pending' = pending
        BY <1>6, ProcessSegmentCounts
    <2>4. CASE pc' = "idle"
        <3>1. \A c \in CounterNames : counters'[c] - seen.counts[c] \in 0..(MaxPending + 1)
            BY <1>0, <2>2, <2>3
        <3>2. direction' \in Interface!process_segment(seen, s)
            BY <1>0, <2>1, <2>2, <3>1, CallEffect
        <3> QED BY <1>a, <1>d, <2>2, <2>4, <3>2
    <2>5. CASE pc' = "flush"
        <3>1. seen' = seen
            BY <1>0, <2>5
        <3>2. \A c \in CounterNames : Counted(c)' \in {0, 1}
            BY <2>2, <2>3, <3>1 DEF Counted
        <3>3. \A c \in CounterNames : /\ Counted(c)' >= 0
                                      /\ Counted(c)' + Len(pending') <= MaxPending + 1
            BY <1>0, <2>3, <2>5, <3>2
        <3>4. InCall'
            BY <2>1, <2>2, <2>3, <2>5, <3>1, <3>3 DEF InCall
        <3> QED BY <1>b, <2>5, <3>4
    <2> QED BY <1>0, <2>4, <2>5
<1>7. CASE FlushStep
    <2>1. InCall /\ UNCHANGED <<fin_seen, rst_seen, capacity>>
        BY <1>7 DEF FlushStep, CallInv, flags
    <2>2. /\ \A c \in CounterNames : counters'[c] - counters[c] \in {0, 1}
          /\ Len(pending) >= 1
          /\ \/ /\ pc' = "flush" /\ unusable' = unusable
                /\ Len(pending') = Len(pending) - 1
             \/ pc' = "idle" /\ pending' = pending
        BY <1>7, FlushStepCounts
    <2>3. \A c \in CounterNames : seen.counts[c] \in Nat
        BY <1>0 DEF Interface!DirectionType
    <2>4. PICK s \in Segments : /\ fin_seen = (seen.fin_seen \/ s.fin)
                                /\ rst_seen = (seen.rst_seen \/ s.rst)
        BY <2>1 DEF InCall
    <2>5. /\ ~seen.unusable /\ seen.allocated /\ ~unusable /\ capacity > 0
          /\ \A c \in CounterNames :
                 /\ counters[c] - seen.counts[c] >= 0
                 /\ counters[c] - seen.counts[c] + Len(pending) <= MaxPending + 1
        BY <2>1 DEF InCall, Counted
    <2>6. CASE pc' = "idle"
        <3>1. \A c \in CounterNames : counters'[c] - seen.counts[c] \in 0..(MaxPending + 1)
            BY SMTT(30), <1>0, <2>2, <2>3, <2>5
        <3>2. direction' \in Interface!process_segment(seen, s)
            BY <1>0, <2>1, <2>4, <2>5, <3>1, CallEffect
        <3> QED BY <1>a, <1>d, <2>5, <2>6, <3>2
    <2>7. CASE pc' = "flush"
        <3>1. seen' = seen
            BY <1>0, <2>7
        <3>2. \A c \in CounterNames :
                  /\ counters'[c] - seen.counts[c] >= 0
                  /\ counters'[c] - seen.counts[c] + Len(pending') <= MaxPending + 1
            <4> TAKE c \in CounterNames
            <4>1. /\ counters'[c] \in Nat /\ counters[c] \in Nat /\ seen.counts[c] \in Nat
                  /\ counters'[c] - counters[c] \in {0, 1}
                  /\ counters[c] - seen.counts[c] >= 0
                  /\ counters[c] - seen.counts[c] + Len(pending) <= MaxPending + 1
                BY <1>0, <2>2, <2>3, <2>5
            <4>2. Len(pending') = Len(pending) - 1 /\ Len(pending) \in Nat /\ MaxPending \in Nat
                BY <1>0, <2>2, <2>7
            <4> QED BY <4>1, <4>2
        <3>3. InCall'
            BY <2>1, <2>2, <2>4, <2>5, <2>7, <3>1, <3>2 DEF InCall, Counted
        <3> QED BY <1>b, <2>7, <3>3
    <2> QED BY <1>0, <2>6, <2>7
<1>8. CASE FlushDone
    <2>1. InCall /\ pc' = "idle" /\ UNCHANGED <<fin_seen, rst_seen, capacity, counters>>
        BY <1>8 DEF FlushDone, CallInv, flags, Return
    <2>2. PICK s \in Segments : /\ fin_seen = (seen.fin_seen \/ s.fin)
                                /\ rst_seen = (seen.rst_seen \/ s.rst)
        BY <2>1 DEF InCall
    <2>3. \A c \in CounterNames : seen.counts[c] \in Nat
        BY <1>0 DEF Interface!DirectionType
    <2>4. \A c \in CounterNames : counters'[c] - seen.counts[c] \in 0..(MaxPending + 1)
        BY <1>0, <2>1, <2>3 DEF InCall, Counted
    <2>5. ~seen.unusable /\ seen.allocated /\ capacity' > 0
        BY <2>1 DEF InCall
    <2>6. direction' \in Interface!process_segment(seen, s)
        BY <1>0, <2>1, <2>2, <2>4, <2>5, CallEffect
    <2> QED BY <1>a, <1>d, <2>1, <2>5, <2>6
<1> QED
    BY <1>2, <1>3, <1>4, <1>5, <1>6, <1>7, <1>8
       DEF CallNext, Next, flush_pending_segments

(* Every call of tcp_reassembly.c, its flush loop included, has an effect  *)
(* that TcpDirection, the model the flow table works with, allows it.      *)
THEOREM CallsKeepInterface == CallSpec => CallsMatchInterface
<1>1. CallInit => TypeOK /\ CallInv
    <2> SUFFICES ASSUME CallInit PROVE TypeOK /\ CallInv
        OBVIOUS
    <2>1. TypeOK
        BY TypeInit DEF CallInit
    <2> QED BY <2>1, DirectionTyped DEF CallInit, CallInv, Init
<1>2. TypeOK /\ CallInv /\ [CallNext]_callVars => (TypeOK /\ CallInv)' /\ [CallStep]_seen
    <2> SUFFICES ASSUME TypeOK, CallInv, [CallNext]_callVars
                 PROVE  (TypeOK /\ CallInv)' /\ [CallStep]_seen
        OBVIOUS
    <2>1. CASE CallNext
        <3>1. TypeOK'
            BY <2>1, TypeStep DEF CallNext
        <3> QED BY <2>1, <3>1, CallInductive
    <2>2. CASE UNCHANGED callVars
        <3>1. UNCHANGED vars /\ seen' = seen
            BY <2>2 DEF callVars
        <3>2. TypeOK'
            BY <3>1, TypeStep
        <3> QED BY <3>1, <3>2 DEF vars, sequencing, flags, store, CallInv, InCall,
                                  Counted, direction
    <2> QED BY <2>1, <2>2
<1> QED
    BY <1>1, <1>2, PTL DEF CallSpec, CallsMatchInterface
============================================================================
