---------------------------- MODULE DecoderProofs ----------------------------
(***************************************************************************)
(* Proofs about the application decoders and about what is written of      *)
(* their metadata. First DnsMessage: the DNS decoder never leaves its      *)
(* buffers, and what it decodes is the name the reference definition of    *)
(* DnsName reads. Then AppStream: verdicts are final, the two sniffing     *)
(* paths agree, a well-formed message is classified as sent, and the text  *)
(* on the terminal, in JSON and in CSV gives back what was captured.       *)
(***************************************************************************)
EXTENDS DnsMessage, AppStream, SequenceLemmas, TLAPS

Octal == data \in Seq(Nat) /\ name \in Seq(Nat)

(* Before parse_dns_name starts, nothing has been read.                    *)
Untouched ==
    pc \in {"frame", "message"} => cursor = 0 /\ offset = 0 /\ name = <<>>

Within ==
    /\ cursor \in Nat /\ cursor <= Len(data)
    /\ offset \in Nat /\ offset <= Len(data)
    /\ Len(name) < OutSize

IInv == Octal /\ Untouched /\ Within
----------------------------------------------------------------------------
(* A read inside the message returns one of its octets.                    *)
LEMMA OctetInside ==
    ASSUME data \in Seq(Nat), NEW i \in Nat, i < Len(data)
    PROVE  Octet(i) \in Nat /\ Octet(i) = data[i + 1]
<1>1. i + 1 \in 1..Len(data)
    OBVIOUS
<1>2. data[i + 1] \in Nat
    BY <1>1
<1> QED
    BY <1>2 DEF Octet

(* The octets of a label that LabelFits has accepted lie in the message.   *)
LEMMA SliceInside ==
    ASSUME data \in Seq(Nat), NEW i \in Nat, NEW n \in Nat, i + n <= Len(data)
    PROVE  Slice(i, n) \in Seq(Nat) /\ Len(Slice(i, n)) = n
<1>1. ASSUME NEW k \in 1..n PROVE Octet(i + k - 1) \in Nat
    <2> DEFINE j == i + k - 1
    <2>1. j \in Nat /\ j < Len(data)
        OBVIOUS
    <2> HIDE DEF j
    <2>2. Octet(j) \in Nat
        BY <2>1, OctetInside
    <2> QED
        BY <2>2 DEF j
<1>2. Slice(i, n) \in [1..n -> Nat]
    BY <1>1 DEF Slice
<1> QED
    BY <1>2

(* Octets are natural numbers, so that the marker of a read beyond a       *)
(* buffer is not one of them.                                              *)
LEMMA NoOutside == IInv => StaysInside
<1> SUFFICES ASSUME IInv PROVE StaysInside
    OBVIOUS
<1>1. name \in Seq(Nat) /\ DOMAIN name = 1..Len(name)
    BY DEF IInv, Octal
<1>2. \A i \in DOMAIN name : name[i] \in Nat
    BY <1>1
<1>3. Outside \notin ToSet(name)
    BY <1>2 DEF ToSet, Outside
<1> QED
    BY <1>3 DEF IInv, Within, StaysInside

(* app_dns_decode starts at the beginning of its buffer.                   *)
LEMMA StartsInside == Init => IInv
<1> SUFFICES ASSUME Init PROVE IInv
    OBVIOUS
<1>1. PICK b \in Buffers : data = b[1]
    BY DEF Init
<1>2. b \in Seq(Octets) \X BOOLEAN
    BY BufferAssumption
<1>3. data \in Seq(Octets) /\ Octets \subseteq Nat
    BY <1>1, <1>2, BufferAssumption
<1>4. data \in Seq(Nat)
    BY <1>3, SeqMonotonic, Zenon
<1>5. name \in Seq(Nat) /\ Len(name) = 0
    BY DEF Init
<1>6. 0 < OutSize /\ 0 <= Len(data)
    BY <1>4, DnsAssumption
<1> QED
    BY <1>4, <1>5, <1>6 DEF Init, IInv, Octal, Untouched, Within

(* Cutting the frame keeps the decoder at the beginning of the message.    *)
LEMMA FrameStep ==
    ASSUME IInv, Frame
    PROVE  IInv'
<1>1. /\ pc = "frame" /\ data \in Seq(Nat) /\ name = <<>> /\ cursor = 0 /\ offset = 0
      /\ UNCHANGED <<cursor, offset, name>>
    BY DEF IInv, Octal, Untouched, Frame
<1>2. data' \in Seq(Nat)
    <2>1. CASE data' = data
        BY <1>1, <2>1
    <2>2. CASE /\ Len(data) >= 2 /\ FrameLength \in 1..(Len(data) - 2)
               /\ data' = SubSeq(data, 3, 2 + FrameLength)
        <3> DEFINE n == FrameLength
        <3> HIDE DEF n
        <3>1. n \in 1..(Len(data) - 2) /\ data' = SubSeq(data, 3, 2 + n)
            BY <2>2 DEF n
        <3> QED
            BY <1>1, <3>1
    <2> QED
        BY <2>1, <2>2 DEF Frame
<1>3. 0 < OutSize /\ Len(name) = 0 /\ 0 <= Len(data')
    BY <1>1, <1>2, DnsAssumption
<1> QED
    BY <1>1, <1>2, <1>3 DEF IInv, Octal, Untouched, Within

(* The name is read from behind a header that is there.                    *)
LEMMA HeaderStep ==
    ASSUME IInv, decode_dns_message
    PROVE  IInv'
<1>1. /\ UNCHANGED <<data, name>>
      /\ \/ UNCHANGED <<cursor, offset>> /\ pc' = "done"
         \/ /\ pc' = "name" /\ Len(data) >= HeaderLen
            /\ cursor' = HeaderLen /\ offset' = HeaderLen
    BY Zenon DEF decode_dns_message, Return
<1>2. HeaderLen \in Nat /\ data \in Seq(Nat)
    BY DnsAssumption DEF IInv, Octal
<1> QED
    BY <1>1, <1>2 DEF IInv, Octal, Untouched, Within

(* The root label ends the name where it was met first.                    *)
LEMMA RootStep ==
    ASSUME IInv, RootLabel
    PROVE  IInv'
<1>1. /\ data' = data /\ cursor' = cursor /\ pc' = "question" /\ cursor < Len(data)
      /\ offset' = offset \/ offset' = cursor + 1
      /\ name' = name \/ name' = <<Dot>>
    BY DEF RootLabel, Reading
<1>2. data \in Seq(Nat) /\ Len(data) \in Nat
    BY DEF IInv, Octal
<1>3. <<Dot>> \in Seq(Nat) /\ Len(<<Dot>>) = 1 /\ 1 < OutSize
    BY DnsAssumption DEF Dot
<1>4. name' \in Seq(Nat) /\ Len(name') < OutSize
    BY <1>1, <1>3 DEF IInv, Octal, Within
<1>5. offset' \in Nat /\ offset' <= Len(data)
    BY <1>1, <1>2 DEF IInv, Within
<1> QED
    BY <1>1, <1>4, <1>5 DEF IInv, Octal, Untouched, Within

(* A pointer is followed only to a place inside the message.               *)
LEMMA PointerStep ==
    ASSUME IInv, Pointer
    PROVE  IInv'
<1>1. /\ data' = data /\ name' = name /\ cursor < Len(data) /\ pc = "name"
      /\ Octet(cursor) >= PointerBase
    BY DEF Pointer, Reading
<1>2. data \in Seq(Nat) /\ Len(data) \in Nat /\ cursor \in Nat /\ PointerBase \in Nat
    BY DnsAssumption DEF IInv, Octal, Within
<1>3. CASE PointerAllowed /\ cursor' = PointerTarget /\ UNCHANGED pc
           /\ offset' = IF jumped THEN offset ELSE cursor + 2
    <2>1. cursor + 1 \in Nat /\ cursor + 1 < Len(data) /\ PointerTarget < Len(data)
        BY <1>2, <1>3 DEF PointerAllowed
    <2>2. Octet(cursor) \in Nat /\ Octet(cursor + 1) \in Nat
        BY <1>1, <1>2, <2>1, OctetInside
    <2>3. PointerTarget \in Nat
        BY SMTT(30), <1>1, <1>2, <2>2 DEF PointerTarget
    <2>4. offset' \in Nat /\ offset' <= Len(data)
        BY <1>2, <1>3, <2>1 DEF IInv, Within
    <2> QED
        BY <1>1, <1>3, <2>1, <2>3, <2>4 DEF IInv, Octal, Untouched, Within
<1>4. CASE UNCHANGED <<offset, cursor>> /\ pc' = "done"
    BY <1>1, <1>4 DEF IInv, Octal, Untouched, Within
<1> QED
    BY <1>3, <1>4 DEF Pointer, Return

(* A label is copied only when it lies in the message and leaves room for  *)
(* the terminator.                                                         *)
LEMMA LabelStep ==
    ASSUME IInv, Label
    PROVE  IInv'
<1> DEFINE n == Octet(cursor)
<1>1. /\ data' = data /\ offset' = offset /\ cursor < Len(data) /\ pc = "name"
      /\ n \in 1..(PointerBase - 1)
    BY DEF Label, Reading
<1>2. /\ data \in Seq(Nat) /\ Len(data) \in Nat /\ cursor \in Nat /\ name \in Seq(Nat)
      /\ n \in Nat /\ OutSize \in Nat
    BY <1>1, DnsAssumption DEF IInv, Octal, Within
<1>3. CASE LabelFits(n) /\ name' = Extended(n) /\ cursor' = cursor + 1 + n /\ UNCHANGED pc
    <2> HIDE DEF n
    <2>1. cursor + 1 + n <= Len(data)
        BY <1>3 DEF LabelFits
    <2>2. (IF name = <<>> THEN 0 ELSE Len(name) + 1) + n < OutSize
        BY <1>3 DEF LabelFits
    <2> DEFINE label == Slice(cursor + 1, n)
               head == IF name = <<>> THEN name ELSE Append(name, Dot)
    <2>3. label \in Seq(Nat) /\ Len(label) = n
        <3> DEFINE i == cursor + 1
        <3>1. i \in Nat /\ i + n <= Len(data)
            BY <1>2, <2>1
        <3> HIDE DEF i
        <3>2. Slice(i, n) \in Seq(Nat) /\ Len(Slice(i, n)) = n
            BY <1>2, <3>1, SliceInside
        <3> QED
            BY <3>2 DEF i
    <2>4. head \in Seq(Nat) /\ Len(head) = IF name = <<>> THEN 0 ELSE Len(name) + 1
        BY <1>2 DEF Dot
    <2>5. name' = head \o label
        BY <1>3 DEF Extended
    <2> HIDE DEF label, head
    <2>6. name' \in Seq(Nat) /\ Len(name') < OutSize
        BY <1>2, <2>2, <2>3, <2>4, <2>5
    <2>7. cursor' \in Nat /\ cursor' <= Len(data)
        BY <1>2, <1>3, <2>1
    <2> QED
        BY <1>1, <1>3, <2>6, <2>7 DEF IInv, Octal, Untouched, Within
<1>4. CASE UNCHANGED <<name, cursor>> /\ pc' = "done"
    BY <1>1, <1>4 DEF IInv, Octal, Untouched, Within
<1> QED
    BY <1>3, <1>4 DEF Label, Return

(* Every step of the decoder keeps it inside its buffers.                  *)
LEMMA Inductive == IInv /\ [Next]_vars => IInv'
<1> SUFFICES ASSUME IInv, [Next]_vars PROVE IInv'
    OBVIOUS
<1>1. ASSUME UNCHANGED <<data, cursor, offset, name>>, pc' = "done" PROVE IInv'
    BY <1>1 DEF IInv, Octal, Untouched, Within
<1>2. CASE NameEnds \/ Question
    BY <1>1, <1>2 DEF NameEnds, Question, Return
<1>3. CASE UNCHANGED vars
    BY <1>3 DEF vars, IInv, Octal, Untouched, Within
<1> QED
    BY <1>2, <1>3, FrameStep, HeaderStep, RootStep, PointerStep, LabelStep
       DEF Next, Step, Finished

(* Whatever lengths, pointers and counts a message contains, parse_dns_name *)
(* reads no octet beyond it, leaves room for the terminator of the name and *)
(* returns an offset inside it.                                             *)
THEOREM NeverLeavesTheMessage == Spec => []StaysInside
BY StartsInside, Inductive, NoOutside, PTL DEF Spec
----------------------------------------------------------------------------
(* The reference definition is recursive: what follows shows that it has   *)
(* a solution, which is how the proofs may unfold it.                      *)

Places(m) == (0..MaxDepth) \X (0..Len(m))

(* A place is read after those with fewer pointers left, and after those   *)
(* further on in the message.                                              *)
Later(e, q, d, p) == e < d \/ (e = d /\ p < q)

Target(m, p) == (m[p + 1] - PointerBase) * 256 + m[p + 2]

(* What the first octet of a name decides.                                 *)
NameCases(m, f, d, p) ==
    LET n == m[p + 1]
    IN  /\ p = Len(m) => NameFrom(m, f, d, p) = Bad
        /\ p < Len(m) /\ n = 0 => NameFrom(m, f, d, p) = <<>>
        /\ p < Len(m) /\ n \in Reserved..(PointerBase - 1) => NameFrom(m, f, d, p) = Bad
        /\ p < Len(m) /\ n \in 1..(Reserved - 1) /\ p + 1 + n > Len(m) =>
              NameFrom(m, f, d, p) = Bad
        /\ p < Len(m) /\ n \in 1..(Reserved - 1) /\ p + 1 + n <= Len(m) =>
              NameFrom(m, f, d, p) = Joined(SubSeq(m, p + 2, p + 1 + n), f[<<d, p + 1 + n>>])
        /\ p < Len(m) /\ n >= PointerBase /\ (d = 0 \/ p + 1 = Len(m) \/ Target(m, p) >= Len(m)) =>
              NameFrom(m, f, d, p) = Bad
        /\ p + 1 < Len(m) /\ n >= PointerBase /\ d # 0 /\ Target(m, p) < Len(m) =>
              NameFrom(m, f, d, p) = f[<<d - 1, Target(m, p)>>]

(* Exactly one case of the reference applies to an octet.                  *)
LEMMA NameFromCases ==
    ASSUME NEW m \in Seq(Nat), NEW f, NEW d \in 0..MaxDepth, NEW p \in 0..Len(m)
    PROVE  NameCases(m, f, d, p)
<1> DEFINE n == m[p + 1]
           t == Target(m, p)
           label == SubSeq(m, p + 2, p + 1 + n)
<1>1. CASE p = Len(m)
    <2>1. NameFrom(m, f, d, p) = Bad
        BY <1>1 DEF NameFrom
    <2>2. ~(p < Len(m)) /\ ~(p + 1 < Len(m))
        BY <1>1
    <2> QED
        BY <1>1, <2>1, <2>2 DEF NameCases
<1>2. CASE p < Len(m)
    <2>1. n \in Nat /\ p # Len(m) /\ p \in Nat /\ Len(m) \in Nat
        BY <1>2
    <2>2. NameFrom(m, f, d, p) =
             CASE n = 0 -> <<>>
               [] n \in 1..(Reserved - 1) ->
                     IF p + 1 + n > Len(m) THEN Bad ELSE Joined(label, f[<<d, p + 1 + n>>])
               [] n \in Reserved..(PointerBase - 1) -> Bad
               [] n >= PointerBase ->
                     IF d = 0 \/ p + 1 = Len(m) THEN Bad
                     ELSE IF t >= Len(m) THEN Bad ELSE f[<<d - 1, t>>]
        BY <2>1, Zenon DEF NameFrom, Target
    <2>3. /\ Reserved \in Nat \ {0} /\ PointerBase \in Nat /\ Reserved < PointerBase
        BY DnsAssumption
    <2> DEFINE j == Joined(label, f[<<d, p + 1 + n>>])
               v == f[<<d - 1, t>>]
    <2>4. m[p + 1] = n /\ Target(m, p) = t
        OBVIOUS
    <2> HIDE DEF n, t, label, j, v
    <2>5. NameFrom(m, f, d, p) =
             CASE n = 0 -> <<>>
               [] n \in 1..(Reserved - 1) -> IF p + 1 + n > Len(m) THEN Bad ELSE j
               [] n \in Reserved..(PointerBase - 1) -> Bad
               [] n >= PointerBase ->
                     IF d = 0 \/ p + 1 = Len(m) THEN Bad ELSE IF t >= Len(m) THEN Bad ELSE v
        BY <2>2 DEF j, v
    <2>6. /\ n = 0 => NameFrom(m, f, d, p) = <<>>
          /\ n \in Reserved..(PointerBase - 1) => NameFrom(m, f, d, p) = Bad
          /\ n \in 1..(Reserved - 1) =>
                NameFrom(m, f, d, p) = IF p + 1 + n > Len(m) THEN Bad ELSE j
          /\ n >= PointerBase =>
                NameFrom(m, f, d, p) =
                    IF d = 0 \/ p + 1 = Len(m) THEN Bad ELSE IF t >= Len(m) THEN Bad ELSE v
        BY <2>1, <2>3, <2>5
    <2>7. p + 1 < Len(m) /\ n >= PointerBase => t \in Int
        <3> SUFFICES ASSUME p + 1 < Len(m), n >= PointerBase PROVE t \in Int
            OBVIOUS
        <3>1. m[p + 2] \in Nat
            BY <2>1
        <3> QED
            BY SMTT(30), <2>1, <2>3, <3>1 DEF n, t, Target
    <2> DEFINE w == NameFrom(m, f, d, p)
    <2>8. /\ n = 0 => w = <<>>
          /\ n \in Reserved..(PointerBase - 1) => w = Bad
          /\ n \in 1..(Reserved - 1) /\ p + 1 + n > Len(m) => w = Bad
          /\ n \in 1..(Reserved - 1) /\ p + 1 + n <= Len(m) => w = j
          /\ n >= PointerBase /\ (d = 0 \/ p + 1 = Len(m) \/ t >= Len(m)) => w = Bad
          /\ p + 1 < Len(m) /\ n >= PointerBase /\ d # 0 /\ t < Len(m) => w = v
        <3> HIDE DEF w
        <3>1. /\ n = 0 => w = <<>>
              /\ n \in Reserved..(PointerBase - 1) => w = Bad
              /\ n \in 1..(Reserved - 1) => w = IF p + 1 + n > Len(m) THEN Bad ELSE j
              /\ n >= PointerBase =>
                     w = IF d = 0 \/ p + 1 = Len(m) THEN Bad ELSE IF t >= Len(m) THEN Bad ELSE v
            BY <2>6 DEF w
        <3> QED
            BY <2>1, <2>3, <2>7, <3>1
    <2> QED
        BY <2>1, <2>8, Zenon DEF NameCases, n, t, label, j, v
<1> QED
    BY <1>1, <1>2

(* A compression pointer whose target is not beyond the message leads to   *)
(* a position inside it.                                                   *)
LEMMA TargetInside ==
    ASSUME NEW m \in Seq(Nat), NEW p \in Nat, p + 1 < Len(m), m[p + 1] >= PointerBase,
           ~(Target(m, p) >= Len(m))
    PROVE  Target(m, p) \in 0..Len(m) /\ Target(m, p) < Len(m)
<1> DEFINE high == m[p + 1] - PointerBase
           low == m[p + 2]
           t == high * 256 + low
<1>1. Target(m, p) = t /\ Len(m) \in Nat
    BY DEF Target
<1>2. low \in Nat /\ m[p + 1] \in Nat
    OBVIOUS
<1>3. high \in Nat
    BY <1>2, DnsAssumption
<1> HIDE DEF high, low
<1>4. t \in Nat
    BY <1>2, <1>3
<1> HIDE DEF t
<1> QED BY <1>1, <1>4

(* The reading of a place uses only later ones.                            *)
LEMMA NameFromLocal ==
    ASSUME NEW m \in Seq(Nat), NEW d \in 0..MaxDepth, NEW p \in 0..Len(m), NEW f, NEW g,
           \A e \in 0..MaxDepth, q \in 0..Len(m) : Later(e, q, d, p) => f[<<e, q>>] = g[<<e, q>>]
    PROVE  NameFrom(m, f, d, p) = NameFrom(m, g, d, p)
<1> DEFINE n == m[p + 1]
           t == Target(m, p)
<1>1. NameCases(m, f, d, p) /\ NameCases(m, g, d, p)
    BY NameFromCases
<1>2. CASE p = Len(m)
    BY <1>1, <1>2 DEF NameCases
<1>3. CASE p < Len(m)
    <2>1. n \in Nat /\ Reserved \in Nat /\ PointerBase \in Nat
        BY <1>3, DnsAssumption
    <2>2. CASE n = 0 \/ n \in Reserved..(PointerBase - 1)
        BY <1>1, <1>3, <2>2, Zenon DEF NameCases
    <2>3. CASE n \in 1..(Reserved - 1)
        <3>1. CASE p + 1 + n > Len(m)
            BY <1>1, <1>3, <2>3, <3>1, Zenon DEF NameCases
        <3>2. CASE p + 1 + n <= Len(m)
            <4>1. p + 1 + n \in 0..Len(m) /\ Later(d, p + 1 + n, d, p)
                BY <2>3, <3>2 DEF Later
            <4>2. f[<<d, p + 1 + n>>] = g[<<d, p + 1 + n>>]
                BY <4>1, Zenon
            <4> QED
                BY <1>1, <1>3, <2>3, <3>2, <4>2, Zenon DEF NameCases
        <3> QED
            BY <2>3, <3>1, <3>2
    <2>4. CASE n >= PointerBase
        <3>1. CASE d = 0 \/ p + 1 = Len(m) \/ t >= Len(m)
            BY <1>1, <1>3, <2>4, <3>1, Zenon DEF NameCases
        <3>2. CASE ~(d = 0 \/ p + 1 = Len(m) \/ t >= Len(m))
            <4>1. p + 1 < Len(m)
                BY <1>3, <3>2
            <4>2. m[p + 2] \in Nat
                BY <4>1
            <4>3. t \in 0..Len(m) /\ t < Len(m)
                BY <2>4, <3>2, <4>1, TargetInside
            <4>4. d - 1 \in 0..MaxDepth /\ Later(d - 1, t, d, p)
                BY <3>2, DnsAssumption DEF Later
            <4> HIDE DEF t
            <4>5. f[<<d - 1, t>>] = g[<<d - 1, t>>]
                BY <4>3, <4>4, Zenon
            <4> QED
                BY <1>1, <2>4, <3>2, <4>1, <4>3, <4>5, Zenon DEF NameCases, t
        <3> QED
            BY <3>1, <3>2
    <2> QED
        BY <2>1, <2>2, <2>3, <2>4
<1> QED
    BY <1>2, <1>3

(* What the reference reads at a place is a sequence of octets, or Bad.    *)
LEMMA JoinedType ==
    ASSUME NEW label \in Seq(Int), NEW rest \in Seq(Int)
    PROVE  Joined(label, rest) \in Seq(Int)
<1>1. Bad \in Seq(Int) /\ <<Dot>> \in Seq(Int)
    BY DEF Bad, Outside, Dot
<1>2. label \o <<Dot>> \o rest \in Seq(Int)
    BY <1>1
<1> DEFINE whole == label \o <<Dot>> \o rest
<1>3. Joined(label, rest) = CASE rest = Bad -> Bad
                              [] rest = <<>> -> label
                              [] rest \notin {Bad, <<>>} -> whole
    BY DEF Joined
<1> HIDE DEF whole
<1>4. Joined(label, rest) \in {Bad, label, whole}
    <2>1. CASE rest = Bad
        <3>1. rest # <<>> /\ ~(rest \notin {Bad, <<>>})
            BY <2>1 DEF Bad
        <3> QED
            BY <1>3, <2>1, <3>1
    <2>2. CASE rest = <<>>
        <3>1. rest # Bad /\ ~(rest \notin {Bad, <<>>})
            BY <2>2 DEF Bad
        <3> QED
            BY <1>3, <2>2, <3>1
    <2>3. CASE rest \notin {Bad, <<>>}
        BY <1>3, <2>3
    <2> QED
        BY <2>1, <2>2, <2>3
<1> QED
    BY <1>1, <1>2, <1>4 DEF whole

(* What is read at a place has the type of what is read at later ones.     *)
LEMMA NameFromType ==
    ASSUME NEW m \in Seq(Nat), NEW d \in 0..MaxDepth, NEW p \in 0..Len(m), NEW f,
           \A e \in 0..MaxDepth, q \in 0..Len(m) : Later(e, q, d, p) => f[<<e, q>>] \in Seq(Int)
    PROVE  NameFrom(m, f, d, p) \in Seq(Int)
<1> DEFINE n == m[p + 1]
           t == Target(m, p)
<1>1. NameCases(m, f, d, p)
    BY NameFromCases
<1>2. Bad \in Seq(Int) /\ <<>> \in Seq(Int)
    BY DEF Bad, Outside
<1>3. CASE p = Len(m)
    BY <1>1, <1>2, <1>3 DEF NameCases
<1>4. CASE p < Len(m)
    <2>1. n \in Nat /\ Reserved \in Nat /\ PointerBase \in Nat
        BY <1>4, DnsAssumption
    <2>2. CASE n = 0 \/ n \in Reserved..(PointerBase - 1)
        BY <1>1, <1>2, <1>4, <2>2, Zenon DEF NameCases
    <2>3. CASE n \in 1..(Reserved - 1)
        <3>1. CASE p + 1 + n > Len(m)
            BY <1>1, <1>2, <1>4, <2>3, <3>1, Zenon DEF NameCases
        <3>2. CASE p + 1 + n <= Len(m)
            <4>1. p + 1 + n \in 0..Len(m) /\ Later(d, p + 1 + n, d, p)
                BY <2>3, <3>2 DEF Later
            <4>2. f[<<d, p + 1 + n>>] \in Seq(Int)
                BY <4>1, Zenon
            <4>3. SubSeq(m, p + 2, p + 1 + n) \in Seq(Int)
                <5> HIDE DEF n
                <5> QED
                    BY <2>1, <2>3, <3>2
            <4> DEFINE label == SubSeq(m, p + 2, p + 1 + n)
                       rest == f[<<d, p + 1 + n>>]
            <4>4. NameFrom(m, f, d, p) = Joined(label, rest)
                BY <1>1, <1>4, <2>3, <3>2, Zenon DEF NameCases
            <4> HIDE DEF label, rest
            <4>5. label \in Seq(Int) /\ rest \in Seq(Int)
                BY <4>2, <4>3 DEF label, rest
            <4> QED
                BY <4>4, <4>5, JoinedType
        <3> QED
            BY <2>3, <3>1, <3>2
    <2>4. CASE n >= PointerBase
        <3>1. CASE d = 0 \/ p + 1 = Len(m) \/ t >= Len(m)
            BY <1>1, <1>2, <1>4, <2>4, <3>1, Zenon DEF NameCases
        <3>2. CASE ~(d = 0 \/ p + 1 = Len(m) \/ t >= Len(m))
            <4>1. p + 1 < Len(m)
                BY <1>4, <3>2
            <4>2. m[p + 2] \in Nat
                BY <4>1
            <4>3. t \in 0..Len(m) /\ t < Len(m)
                BY <2>4, <3>2, <4>1, TargetInside
            <4>4. d - 1 \in 0..MaxDepth /\ Later(d - 1, t, d, p)
                BY <3>2, DnsAssumption DEF Later
            <4> HIDE DEF t
            <4>5. f[<<d - 1, t>>] \in Seq(Int)
                BY <4>3, <4>4, Zenon
            <4> QED
                BY <1>1, <2>4, <3>2, <4>1, <4>3, <4>5, Zenon DEF NameCases, t
        <3> QED
            BY <3>1, <3>2
    <2> QED
        BY <2>1, <2>2, <2>3, <2>4
<1> QED
    BY <1>3, <1>4

(* A number for each place that is smaller for later ones.                 *)
Rank(m) == [x \in Places(m) |-> x[1] * (Len(m) + 1) + (Len(m) - x[2])]

(* Places are ordered by their numbers, of which there are finitely many.  *)
LEMMA RankFacts ==
    ASSUME NEW m \in Seq(Nat)
    PROVE  /\ Rank(m) \in [Places(m) -> Nat]
           /\ \A x \in Places(m) : Rank(m)[x] < (MaxDepth + 1) * (Len(m) + 1)
           /\ \A d, e \in 0..MaxDepth, p, q \in 0..Len(m) :
                 Later(e, q, d, p) => Rank(m)[<<e, q>>] < Rank(m)[<<d, p>>]
<1> DEFINE K == Len(m) + 1
<1>1. K \in Nat /\ K > 0 /\ Len(m) = K - 1 /\ MaxDepth \in Nat
    BY DnsAssumption
<1>2. ASSUME NEW d \in 0..MaxDepth, NEW p \in 0..Len(m)
      PROVE  Rank(m)[<<d, p>>] = d * K + (Len(m) - p)
    BY DEF Rank, Places
<1> HIDE DEF K
<1>3. ASSUME NEW x \in Places(m)
      PROVE  Rank(m)[x] \in Nat /\ Rank(m)[x] < (MaxDepth + 1) * K
    <2>1. PICK d \in 0..MaxDepth, p \in 0..Len(m) : x = <<d, p>>
        BY DEF Places
    <2>2. Rank(m)[x] = d * K + (Len(m) - p)
        BY <1>2, <2>1
    <2>3. d * K \in Nat /\ d * K <= MaxDepth * K /\ (MaxDepth + 1) * K = MaxDepth * K + K
        <3>1. d \in Nat /\ d <= MaxDepth
            BY <1>1
        <3> HIDE <2>1
        <3> QED
            BY <1>1, <3>1, SMTT(30)
    <2>4. (MaxDepth * K) \in Nat
        BY <1>1
    <2> QED
        BY <1>1, <2>2, <2>3, <2>4
<1>4. ASSUME NEW d \in 0..MaxDepth, NEW e \in 0..MaxDepth, NEW p \in 0..Len(m), NEW q \in 0..Len(m),
             Later(e, q, d, p)
      PROVE  Rank(m)[<<e, q>>] < Rank(m)[<<d, p>>]
    <2>1. CASE e < d
        <3>1. e * K \in Nat /\ d * K \in Nat /\ e * K + K <= d * K
            <4>1. d \in Nat /\ e \in Nat /\ e + 1 <= d
                BY <1>1, <2>1
            <4> QED
                BY <1>1, <4>1, SMTT(30)
        <3> DEFINE a == e * K
                   b == d * K
        <3>2. Rank(m)[<<e, q>>] = a + (Len(m) - q) /\ Rank(m)[<<d, p>>] = b + (Len(m) - p)
            BY <1>2
        <3>3. a \in Nat /\ b \in Nat /\ a + K <= b
            BY <3>1
        <3> HIDE DEF a, b
        <3> QED
            BY <1>1, <3>2, <3>3
    <2>2. CASE e = d /\ p < q
        <3>1. d * K \in Nat
            BY <1>1
        <3> QED
            BY SMTT(30), <1>1, <1>2, <2>2, <3>1
    <2> QED
        BY <1>4, <2>1, <2>2 DEF Later
<1>5. Rank(m) \in [Places(m) -> Nat]
    <2>1. Rank(m) = [x \in Places(m) |-> Rank(m)[x]]
        BY DEF Rank
    <2> QED
        BY <1>3, <2>1
<1> QED
    BY <1>3, <1>4, <1>5 DEF K

(* The reference can be unfolded at every place.                           *)
LEMMA NamesUnfold ==
    ASSUME NEW m \in Seq(Nat)
    PROVE  \A d \in 0..MaxDepth, p \in 0..Len(m) :
               /\ Names(m)[<<d, p>>] = NameFrom(m, Names(m), d, p)
               /\ Names(m)[<<d, p>>] \in Seq(Int)
<1> DEFINE D == Places(m)
           V == Seq(Int)
           body(f) == [x \in D |-> NameFrom(m, f, x[1], x[2])]
           rank == Rank(m)
           R == (MaxDepth + 1) * (Len(m) + 1)
           F == [f \in [D -> V] |-> body(f)]
<1>1. \A x \in D : x[1] \in 0..MaxDepth /\ x[2] \in 0..Len(m) /\ x = <<x[1], x[2]>>
    BY DEF Places
<1>2. \A d \in 0..MaxDepth, p \in 0..Len(m) : <<d, p>> \in D
    BY DEF Places
<1>3. /\ rank \in [D -> Nat] /\ \A x \in D : rank[x] < R
      /\ \A d, e \in 0..MaxDepth, p, q \in 0..Len(m) :
            Later(e, q, d, p) => rank[<<e, q>>] < rank[<<d, p>>]
    BY RankFacts
<1>4. R \in Nat
    BY DnsAssumption
<1>5. V # {}
    OBVIOUS
<1>6. ASSUME NEW f \in [D -> V] PROVE body(f) \in [D -> V]
    <2> SUFFICES ASSUME NEW x \in D PROVE NameFrom(m, f, x[1], x[2]) \in V
        OBVIOUS
    <2>1. \A e \in 0..MaxDepth, q \in 0..Len(m) : f[<<e, q>>] \in V
        BY <1>2, <1>6
    <2>2. x[1] \in 0..MaxDepth /\ x[2] \in 0..Len(m)
        BY <1>1
    <2> QED
        BY <2>1, <2>2, NameFromType
<1>7. F \in [[D -> V] -> [D -> V]] /\ \A f \in [D -> V] : F[f] = body(f)
    BY <1>6
<1>8. ASSUME NEW f \in [D -> V], NEW g \in [D -> V], NEW x \in D,
             \A y \in D : rank[y] < rank[x] => f[y] = g[y]
      PROVE  F[f][x] = F[g][x]
    <2>1. x[1] \in 0..MaxDepth /\ x[2] \in 0..Len(m) /\ x = <<x[1], x[2]>>
        BY <1>1
    <2> DEFINE d == x[1]
               p == x[2]
    <2>2. d \in 0..MaxDepth /\ p \in 0..Len(m) /\ x = <<d, p>>
        BY <2>1
    <2>3. F[f][x] = NameFrom(m, f, d, p) /\ F[g][x] = NameFrom(m, g, d, p)
        BY <1>7
    <2> HIDE DEF d, p, F, rank, D
    <2>4. \A e \in 0..MaxDepth, q \in 0..Len(m) : Later(e, q, d, p) => f[<<e, q>>] = g[<<e, q>>]
        BY <1>2, <1>3, <1>8, <2>2
    <2>5. NameFrom(m, f, d, p) = NameFrom(m, g, d, p)
        BY <2>2, <2>4, NameFromLocal
    <2> QED
        BY <2>3, <2>5
<1>9. \E f : f = body(f)
    <2>1. \E f \in [D -> V] : f = F[f]
        <3>1. \A f, g \in [D -> V], x \in D :
                 (\A y \in D : rank[y] < rank[x] => f[y] = g[y]) => F[f][x] = F[g][x]
            BY <1>8
        <3>2. /\ V # {} /\ R \in Nat /\ F \in [[D -> V] -> [D -> V]]
              /\ rank \in [D -> Nat] /\ \A x \in D : rank[x] < R
            BY <1>3, <1>4, <1>5, <1>7
        <3> HIDE DEF D, V, F, rank, R
        <3>3. Defines(D, V, F, rank, R)
            BY <3>1, <3>2, Zenon DEF Defines
        <3> QED
            BY <3>3, SolutionExists
    <2> HIDE DEF D, V, F, body
    <2> QED
        BY <1>7, <2>1
<1>10. Names(m) = CHOOSE f : f = body(f)
    BY DEF Names, Places
<1> DEFINE N == Names(m)
<1>11. N = body(N)
    <2> HIDE DEF body
    <2> QED
        BY <1>9, <1>10, Zenon
<1> HIDE DEF N
<1>12. \A x \in D : N[x] = NameFrom(m, N, x[1], x[2])
    BY <1>11
<1>13. \A x \in D : N[x] \in V
    <2> DEFINE T == {rank[x] : x \in {y \in D : N[y] \notin V}}
    <2> HIDE DEF D, V, rank
    <2> SUFFICES ASSUME T # {} PROVE FALSE
        OBVIOUS
    <2>1. T \in SUBSET Nat
        BY <1>3
    <2>2. PICK k \in T : \A j \in T : k <= j
        <3> HIDE DEF T
        <3> QED
            BY <2>1, LeastNumber
    <2>3. PICK x \in D : rank[x] = k /\ N[x] \notin V
        OBVIOUS
    <2>4. ASSUME NEW y \in D, rank[y] < rank[x] PROVE N[y] \in V
        <3>1. rank[y] \in Nat /\ rank[x] \in Nat
            BY <1>3
        <3>2. ~(k <= rank[y])
            BY <2>3, <2>4, <3>1
        <3>3. rank[y] \notin T
            BY <2>2, <3>2, Zenon
        <3> QED
            BY <3>3, Zenon
    <2> DEFINE d == x[1]
               p == x[2]
    <2>5. d \in 0..MaxDepth /\ p \in 0..Len(m) /\ x = <<d, p>> /\ N[x] = NameFrom(m, N, d, p)
        BY <1>1, <1>12
    <2> HIDE DEF d, p
    <2>6. \A e \in 0..MaxDepth, q \in 0..Len(m) : Later(e, q, d, p) => N[<<e, q>>] \in V
        BY <1>2, <1>3, <2>4, <2>5
    <2>7. NameFrom(m, N, d, p) \in V
        BY <2>5, <2>6, NameFromType DEF V
    <2> QED
        BY <2>3, <2>5, <2>7
<1> QED
    <2> SUFFICES ASSUME NEW d \in 0..MaxDepth, NEW p \in 0..Len(m)
                 PROVE  N[<<d, p>>] = NameFrom(m, N, d, p) /\ N[<<d, p>>] \in Seq(Int)
        BY DEF N
    <2>1. <<d, p>> \in D /\ <<d, p>>[1] = d /\ <<d, p>>[2] = p
        BY <1>2
    <2> QED
        BY <1>12, <1>13, <2>1

(* Where the name ends in place depends only on what comes behind.         *)
LEMMA EndsUnfold ==
    ASSUME NEW m \in Seq(Nat)
    PROVE  \A p \in 0..Len(m) : Ends(m)[p] = EndFrom(m, Ends(m), p)
<1> DEFINE L == Len(m)
           D == 0..L
           body(f) == [p \in D |-> EndFrom(m, f, p)]
           rank == [p \in D |-> L - p]
           F == [f \in [D -> Nat] |-> body(f)]
<1>0. L \in Nat /\ PointerBase \in Nat
    BY DnsAssumption
<1>1. ASSUME NEW p \in D, p < L PROVE m[p + 1] \in Nat
    BY <1>1
<1>2. ASSUME NEW f \in [D -> Nat], NEW p \in D PROVE EndFrom(m, f, p) \in Nat
    <2>1. CASE p = L
        BY <1>0, <2>1 DEF EndFrom
    <2>2. CASE p # L
        <3> DEFINE n == m[p + 1]
        <3>1. n \in Nat
            BY <1>1, <2>2
        <3>2. EndFrom(m, f, p) = IF n = 0 THEN p + 1
                                 ELSE IF n >= PointerBase THEN p + 2
                                 ELSE IF p + 1 + n > L THEN L + 1 ELSE f[p + 1 + n]
            BY <2>2 DEF EndFrom
        <3> HIDE DEF n
        <3> QED
            BY <1>0, <3>1, <3>2
    <2> QED
        BY <2>1, <2>2
<1>3. ASSUME NEW f, NEW g, NEW p \in D, \A q \in D : p < q => f[q] = g[q]
      PROVE  EndFrom(m, f, p) = EndFrom(m, g, p)
    <2>1. CASE p = L
        BY <2>1 DEF EndFrom
    <2>2. CASE p # L
        <3> DEFINE n == m[p + 1]
        <3>1. n \in Nat
            BY <1>1, <2>2
        <3>2. /\ EndFrom(m, f, p) = IF n = 0 THEN p + 1
                                    ELSE IF n >= PointerBase THEN p + 2
                                    ELSE IF p + 1 + n > L THEN L + 1 ELSE f[p + 1 + n]
              /\ EndFrom(m, g, p) = IF n = 0 THEN p + 1
                                    ELSE IF n >= PointerBase THEN p + 2
                                    ELSE IF p + 1 + n > L THEN L + 1 ELSE g[p + 1 + n]
            BY <2>2 DEF EndFrom
        <3> HIDE DEF n
        <3> QED
            BY <1>0, <1>3, <3>1, <3>2
    <2> QED
        BY <2>1, <2>2
<1>4. \A f \in [D -> Nat] : body(f) \in [D -> Nat]
    BY <1>2
<1>5. F \in [[D -> Nat] -> [D -> Nat]] /\ \A f \in [D -> Nat] : F[f] = body(f)
    BY <1>4
<1>6. /\ rank \in [D -> Nat] /\ L + 1 \in Nat /\ \A p \in D : rank[p] = L - p /\ rank[p] < L + 1
    BY <1>0
<1>7. \A f, g \in [D -> Nat], p \in D :
         (\A q \in D : rank[q] < rank[p] => f[q] = g[q]) => F[f][p] = F[g][p]
    <2> SUFFICES ASSUME NEW f \in [D -> Nat], NEW g \in [D -> Nat], NEW p \in D,
                        \A q \in D : rank[q] < rank[p] => f[q] = g[q]
                 PROVE  F[f][p] = F[g][p]
        OBVIOUS
    <2>1. F[f][p] = EndFrom(m, f, p) /\ F[g][p] = EndFrom(m, g, p)
        BY <1>5
    <2>2. \A q \in D : p < q => f[q] = g[q]
        BY <1>0, <1>6
    <2> QED
        BY <1>3, <2>1, <2>2
<1>8. \E f : f = body(f)
    <2> DEFINE V == Nat
               R == L + 1
    <2>1. V # {} /\ R \in Nat /\ F \in [[D -> V] -> [D -> V]] /\ rank \in [D -> Nat]
        BY <1>5, <1>6
    <2>2. /\ \A p \in D : rank[p] < R
          /\ \A f, g \in [D -> V], p \in D :
                (\A q \in D : rank[q] < rank[p] => f[q] = g[q]) => F[f][p] = F[g][p]
        BY <1>6, <1>7
    <2>3. \A f \in [D -> V] : F[f] = body(f)
        BY <1>5
    <2> HIDE DEF D, V, F, rank, R, body
    <2>4. Defines(D, V, F, rank, R)
        BY <2>1, <2>2, Zenon DEF Defines
    <2>5. \E f \in [D -> V] : f = F[f]
        BY <2>4, SolutionExists
    <2> QED
        BY <2>3, <2>5
<1>9. Ends(m) = CHOOSE f : f = body(f)
    BY DEF Ends
<1> DEFINE E == Ends(m)
<1>10. E = body(E)
    <2> HIDE DEF body
    <2> QED
        BY <1>8, <1>9, Zenon
<1> HIDE DEF E
<1>11. \A p \in D : E[p] = EndFrom(m, E, p)
    BY <1>10
<1> QED
    BY <1>11 DEF E
----------------------------------------------------------------------------
(* The name read so far, continued by what is read at the cursor.          *)
Glued(sofar, rest) == IF sofar = <<>> THEN rest ELSE Joined(sofar, rest)

(* The name with one more label behind it.                                 *)
With(sofar, label) == (IF sofar = <<>> THEN sofar ELSE Append(sofar, Dot)) \o label

(* The cases of Joined.                                                    *)
LEMMA JoinedCases ==
    ASSUME NEW label, NEW rest
    PROVE  /\ rest = Bad => Joined(label, rest) = Bad
           /\ rest = <<>> => Joined(label, rest) = label
           /\ rest # Bad /\ rest # <<>> => Joined(label, rest) = label \o <<Dot>> \o rest
<1>1. Bad # <<>>
    BY DEF Bad
<1> DEFINE whole == label \o <<Dot>> \o rest
<1>2. Joined(label, rest) = CASE rest = Bad -> Bad
                              [] rest = <<>> -> label
                              [] rest \notin {Bad, <<>>} -> whole
    BY DEF Joined
<1> HIDE DEF whole
<1>3. CASE rest = Bad
    BY <1>1, <1>2, <1>3
<1>4. CASE rest = <<>>
    BY <1>1, <1>2, <1>4
<1>5. CASE rest # Bad /\ rest # <<>>
    <2>1. Joined(label, rest) = whole
        BY <1>2, <1>5
    <2> QED
        BY <1>5, <2>1 DEF whole
<1> QED
    BY <1>3, <1>4, <1>5

(* A name made of octets is not Bad.                                       *)
LEMMA OctetsAreGood == \A s \in Seq(Nat) : s # Bad
<1> SUFFICES ASSUME NEW s \in Seq(Nat) PROVE s # Bad
    OBVIOUS
<1>1. \A i \in 1..Len(s) : s[i] \in Nat
    OBVIOUS
<1>2. Len(Bad) = 1 /\ Bad[1] = -1
    BY DEF Bad, Outside
<1>3. CASE Len(s) = 1
    <2>1. s[1] \in Nat
        BY <1>1, <1>3
    <2> QED
        BY <1>2, <2>1
<1> QED
    BY <1>2, <1>3

(* Concatenation of octet sequences.                                       *)
LEMMA Concatenated ==
    /\ \A s, t \in Seq(Int) : s \o t \in Seq(Int) /\ Len(s \o t) = Len(s) + Len(t)
    /\ \A s, t, u \in Seq(Int) : (s \o t) \o u = s \o (t \o u)
OBVIOUS

(* Labels may be joined from the left, as the loop does, or from the       *)
(* right, as the reference does.                                           *)
LEMMA JoinLabel ==
    ASSUME NEW sofar \in Seq(Nat), NEW label \in Seq(Nat), label # <<>>, NEW rest \in Seq(Int)
    PROVE  /\ Glued(sofar, Joined(label, rest)) = Glued(With(sofar, label), rest)
           /\ With(sofar, label) \in Seq(Nat) /\ With(sofar, label) # <<>>
<1> DEFINE w == With(sofar, label)
           dot == <<Dot>>
           j == Joined(label, rest)
<1>0. /\ dot \in Seq(Int) /\ Len(dot) = 1 /\ dot \in Seq(Nat)
      /\ sofar \in Seq(Int) /\ label \in Seq(Int) /\ Len(label) > 0
    <2>1. Nat \subseteq Int
        OBVIOUS
    <2>2. sofar \in Seq(Int) /\ label \in Seq(Int)
        BY <2>1, SeqMonotonic, Zenon
    <2>3. Len(label) > 0
        OBVIOUS
    <2> QED
        BY <2>2, <2>3 DEF Dot
<1>1. label # Bad
    BY OctetsAreGood
<1>2. CASE sofar = <<>>
    <2>1. w = label
        BY <1>2 DEF With
    <2> QED
        BY <1>2, <2>1 DEF Glued
<1>3. CASE sofar # <<>>
    <2>1. w = (sofar \o dot) \o label
        <3>1. Append(sofar, Dot) = sofar \o dot
            BY DEF Dot
        <3> QED
            BY <1>3, <3>1 DEF With
    <2>2. w \in Seq(Nat) /\ w \in Seq(Int) /\ Len(w) > 0
        BY <1>0, <2>1
    <2>3. w # <<>>
        BY <2>2
    <2>4. Glued(sofar, j) = Joined(sofar, j) /\ Glued(w, rest) = Joined(w, rest)
        BY <1>3, <2>3 DEF Glued
    <2>5. ASSUME rest = Bad PROVE Joined(sofar, j) = Joined(w, rest)
        <3>1. j = Bad /\ Joined(w, rest) = Bad
            BY <2>5, JoinedCases
        <3> HIDE DEF j
        <3>2. Joined(sofar, j) = Bad
            BY <3>1, JoinedCases
        <3> QED
            BY <3>1, <3>2
    <2>6. ASSUME rest = <<>> PROVE Joined(sofar, j) = Joined(w, rest)
        <3>1. j = label /\ Joined(w, rest) = w
            BY <2>6, JoinedCases
        <3>2. Joined(sofar, label) = sofar \o dot \o label
            BY <1>1, JoinedCases
        <3> HIDE DEF w, j, dot
        <3> QED
            BY <2>1, <3>1, <3>2
    <2>7. ASSUME rest # Bad, rest # <<>> PROVE Joined(sofar, j) = Joined(w, rest)
        <3>1. j = (label \o dot) \o rest
            BY <2>7, JoinedCases
        <3>2. j # Bad /\ j # <<>>
            <4> HIDE DEF j, dot
            <4> DEFINE a == label \o dot
            <4>a. a \in Seq(Int) /\ Len(a) = Len(label) + Len(dot)
                BY <1>0, Concatenated, Zenon
            <4>b. j = a \o rest
                BY <3>1
            <4> HIDE DEF a
            <4>c. Len(j) = Len(a) + Len(rest)
                BY <4>a, <4>b, Concatenated, Zenon
            <4>1. Len(j) = Len(label) + 1 + Len(rest) /\ Len(label) \in Nat
                BY <1>0, <4>a, <4>c
            <4>2. Len(rest) \in Nat /\ Len(rest) # 0
                BY <2>7
            <4>3. Len(Bad) = 1 /\ Len(<<>>) = 0
                BY DEF Bad
            <4>4. Len(j) >= 2
                BY <1>0, <4>1, <4>2
            <4> DEFINE k == Len(j)
            <4>5. k # Len(Bad) /\ k # Len(<<>>)
                <5>1. k >= 2
                    BY <4>4
                <5> HIDE DEF k
                <5> QED
                    BY <4>3, <5>1
            <4> QED
                BY <4>5, Zenon
        <3>3. Joined(w, rest) = (w \o dot) \o rest
            BY <2>7, JoinedCases
        <3> HIDE DEF w, j
        <3>4. Joined(sofar, j) = (sofar \o dot) \o j
            BY <3>2, JoinedCases
        <3> DEFINE a == sofar \o dot
                   b == label \o dot
        <3> HIDE DEF dot
        <3>5. a \in Seq(Int) /\ b \in Seq(Int)
            BY <1>0
        <3>6. w = a \o label /\ j = b \o rest /\ Joined(sofar, j) = a \o j
            BY <2>1, <3>1, <3>4
        <3>7. (a \o label) \o dot = a \o b
            <4> HIDE DEF a
            <4> QED
                BY <1>0, <3>5, Concatenated, ZenonT(40) DEF b
        <3> HIDE DEF a, b
        <3>8. (a \o b) \o rest = a \o (b \o rest)
            BY <3>5, Concatenated, Zenon
        <3> QED
            BY <3>3, <3>6, <3>7, <3>8, Zenon
    <2>8. Joined(sofar, j) = Joined(w, rest)
        BY <2>5, <2>6, <2>7
    <2> QED
        BY <2>2, <2>3, <2>4, <2>8, Zenon
<1> QED
    BY <1>2, <1>3
----------------------------------------------------------------------------
(* The octets copied for a label are those of the message.                 *)
LEMMA SliceIsLabel ==
    ASSUME data \in Seq(Nat), NEW c \in Nat, NEW n \in Nat, n > 0, c + 1 + n <= Len(data)
    PROVE  /\ Slice(c + 1, n) = SubSeq(data, c + 2, c + 1 + n)
           /\ Slice(c + 1, n) \in Seq(Nat) /\ Slice(c + 1, n) # <<>> /\ Len(Slice(c + 1, n)) = n
<1> DEFINE s == Slice(c + 1, n)
           t == SubSeq(data, c + 2, c + 1 + n)
<1>1. t \in Seq(Nat) /\ Len(t) = n /\ \A k \in 1..n : t[k] = data[c + 1 + k]
    <2> DEFINE a == c + 2
               b == c + 1 + n
    <2>1. a \in 1..(Len(data) + 1) /\ b \in (a - 1)..Len(data) /\ b - a + 1 = n
        OBVIOUS
    <2>2. \A k \in 1..n : a + k - 1 = c + 1 + k
        OBVIOUS
    <2>3. t = SubSeq(data, a, b)
        OBVIOUS
    <2> HIDE DEF a, b, t
    <2>a. a \in Int /\ b \in Int /\ a <= b /\ \A k \in a..b : data[k] \in Nat
        BY <2>1
    <2>4. t \in Seq(Nat) /\ Len(t) = b - a + 1 /\ \A k \in 1..(b - a + 1) : t[k] = data[a + k - 1]
        BY <2>3, <2>a, SubSeqProperties
    <2> QED
        BY <2>1, <2>2, <2>4
<1>2. s = [k \in 1..n |-> Octet(c + 1 + k - 1)]
    BY DEF Slice
<1>3. \A k \in 1..n : s[k] = data[c + 1 + k] /\ data[c + 1 + k] \in Nat
    <2> SUFFICES ASSUME NEW k \in 1..n PROVE s[k] = data[c + 1 + k] /\ data[c + 1 + k] \in Nat
        OBVIOUS
    <2>1. s[k] = Octet(c + 1 + k - 1) /\ c + 1 + k - 1 = c + k
        BY <1>2
    <2>2. c + k \in Nat /\ c + k < Len(data) /\ (c + k) + 1 = c + 1 + k
        OBVIOUS
    <2>3. Octet(c + k) \in Nat /\ Octet(c + k) = data[(c + k) + 1]
        <3> DEFINE i == c + k
        <3> HIDE DEF i
        <3> QED
            BY <2>2, OctetInside DEF i
    <2> HIDE DEF s
    <2> QED
        BY <2>1, <2>2, <2>3
<1>4. s \in [1..n -> Nat]
    BY <1>2, <1>3
<1> HIDE DEF s, t
<1>5. s \in Seq(Nat) /\ Len(s) = n
    BY <1>4
<1>6. s = t
    BY <1>1, <1>3, <1>5, SeqEqual
<1>7. s # <<>>
    BY <1>5
<1> QED
    BY <1>5, <1>6, <1>7 DEF s, t

(* A name only grows: no continuation makes one that is too long fit.      *)
LEMMA GluedGrows ==
    ASSUME NEW w \in Seq(Nat), w # <<>>, NEW rest \in Seq(Int)
    PROVE  \/ Glued(w, rest) = Bad
           \/ Glued(w, rest) # <<>> /\ Len(Glued(w, rest)) \in Nat /\ Len(Glued(w, rest)) >= Len(w)
<1>1. Glued(w, rest) = Joined(w, rest)
    BY DEF Glued
<1>2. Len(w) \in Nat /\ Len(w) > 0 /\ w \in Seq(Int)
    BY SeqMonotonic
<1>3. CASE rest = Bad
    BY <1>1, <1>3, JoinedCases
<1>4. CASE rest = <<>>
    BY <1>1, <1>2, <1>4, JoinedCases
<1>5. CASE rest # Bad /\ rest # <<>>
    <2> DEFINE dot == <<Dot>>
               a == w \o dot
    <2>1. dot \in Seq(Int) /\ Len(dot) = 1
        BY DEF Dot
    <2> HIDE DEF dot
    <2>2. a \in Seq(Int) /\ Len(a) = Len(w) + Len(dot)
        BY <1>2, <2>1, Concatenated, Zenon
    <2>3. Joined(w, rest) = a \o rest
        BY <1>5, JoinedCases DEF dot
    <2> HIDE DEF a
    <2> DEFINE whole == a \o rest
    <2>4. whole \in Seq(Int) /\ Len(whole) = Len(a) + Len(rest)
        BY <2>2, Concatenated, Zenon
    <2>5. Joined(w, rest) = whole
        BY <2>3
    <2> HIDE DEF whole
    <2>6. Len(whole) \in Nat /\ Len(whole) > Len(w)
        BY <1>2, <2>1, <2>2, <2>4
    <2>7. whole # <<>>
        BY <1>2, <2>6
    <2> QED
        BY <1>1, <1>2, <2>5, <2>6, <2>7
<1> QED
    BY <1>3, <1>4, <1>5

(* The cases of the reference's verdict.                                   *)
LEMMA Verdicts ==
    ASSUME NEW m \in Seq(Nat)
    PROVE  /\ m = <<>> => DnsVerdict(m) = [result |-> "NO_MATCH", name |-> <<>>]
           /\ m # <<>> /\ Len(m) < HeaderLen =>
                 DnsVerdict(m) = [result |-> "NEED_MORE", name |-> <<>>]
           /\ Len(m) >= HeaderLen /\ m[CountAt] > MaxCount =>
                 DnsVerdict(m) = [result |-> "NO_MATCH", name |-> <<>>]
           /\ Len(m) >= HeaderLen /\ m[CountAt] = 0 =>
                 DnsVerdict(m) = [result |-> "OK", name |-> <<>>]
           /\ Len(m) >= HeaderLen /\ m[CountAt] \in 1..MaxCount /\ GoodQuestion(m) =>
                 DnsVerdict(m) = [result |-> "OK", name |-> WholeName(m)]
           /\ Len(m) >= HeaderLen /\ m[CountAt] \in 1..MaxCount /\ ~GoodQuestion(m) =>
                 DnsVerdict(m) = [result |-> "MALFORMED", name |-> <<>>]
<1> DEFINE none(r) == [result |-> r, name |-> <<>>]
           good == IF GoodQuestion(m) THEN [result |-> "OK", name |-> WholeName(m)]
                   ELSE none("MALFORMED")
           nomatch == none("NO_MATCH")
           more == none("NEED_MORE")
           ok == none("OK")
<1>1. /\ HeaderLen \in Nat \ {0} /\ CountAt \in 1..HeaderLen /\ MaxCount \in Nat
      /\ Len(m) \in Nat /\ (m = <<>> => Len(m) = 0)
    BY DnsAssumption
<1>2. Len(m) >= HeaderLen => m[CountAt] \in Nat
    BY <1>1
<1>3. DnsVerdict(m) = CASE m = <<>> -> nomatch
          [] m # <<>> /\ Len(m) < HeaderLen -> more
          [] Len(m) >= HeaderLen /\ m[CountAt] > MaxCount -> nomatch
          [] Len(m) >= HeaderLen /\ m[CountAt] = 0 -> ok
          [] Len(m) >= HeaderLen /\ m[CountAt] \in 1..MaxCount -> good
    BY Zenon DEF DnsVerdict
<1> DEFINE v == DnsVerdict(m)
<1> HIDE DEF nomatch, more, ok, good
<1>4. /\ m = <<>> => v = nomatch
      /\ m # <<>> /\ Len(m) < HeaderLen => v = more
      /\ Len(m) >= HeaderLen /\ m[CountAt] > MaxCount => v = nomatch
      /\ Len(m) >= HeaderLen /\ m[CountAt] = 0 => v = ok
      /\ Len(m) >= HeaderLen /\ m[CountAt] \in 1..MaxCount => v = good
    BY <1>1, <1>2, <1>3
<1> QED
    BY <1>4, Zenon DEF nomatch, more, ok, good
----------------------------------------------------------------------------
Fits(s) == Len(s) < OutSize /\ Len(s) <= MaxName

HeaderAccepted == Len(data) >= HeaderLen /\ data[CountAt] \in 1..MaxCount

(* In the loop, the name of the message is what was copied so far followed *)
(* by what the reference reads at the cursor with the pointers that are    *)
(* left; and offset is where it ends, or it still ends further on.         *)
InLoop ==
    pc = "name" =>
        /\ HeaderAccepted /\ Fits(name) /\ depth \in 0..MaxDepth
        /\ NameAt(data) = Glued(name, Names(data)[<<MaxDepth - depth, cursor>>])
        /\ InlineEnd(data) = IF jumped THEN offset ELSE Ends(data)[cursor]

(* Behind the loop all of the name has been copied.                        *)
BehindLoop ==
    pc = "question" =>
        /\ HeaderAccepted /\ NameAt(data) # Bad /\ WholeName(data) = name
        /\ NameAt(data) = <<>> \/ Fits(NameAt(data))
        /\ InlineEnd(data) = offset

BeforeLoop == pc \in {"frame", "message"} => depth = 0 /\ jumped = FALSE

Agrees == InLoop /\ BehindLoop /\ BeforeLoop /\ DecodesTheName

(* A verdict without a name.                                               *)
LEMMA NoName ==
    ASSUME NEW r \in {"NO_MATCH", "NEED_MORE", "MALFORMED"},
           data' = data, pc' = "done", result' = r, decoded' = Cleared,
           DnsVerdict(data) = [result |-> r, name |-> <<>>]
    PROVE  Agrees'
<1>1. DnsVerdict(data') = [result |-> r, name |-> <<>>]
    OBVIOUS
<1>2. DnsVerdict(data').result = r /\ r # "OK"
    BY <1>1
<1>3. DecodesTheName'
    BY <1>2 DEF DecodesTheName
<1> QED
    BY <1>3 DEF Agrees, InLoop, BehindLoop, BeforeLoop

(* Giving up is right when the message holds no good question.             *)
LEMMA GivesUp ==
    ASSUME data \in Seq(Nat), HeaderAccepted, ~GoodQuestion(data),
           data' = data, pc' = "done", result' = "MALFORMED", decoded' = Cleared
    PROVE  Agrees'
BY Verdicts, NoName DEF HeaderAccepted

(* The decoder starts with nothing read and nothing decoded.               *)
LEMMA StartAgrees == Init => Agrees
BY DEF Init, Agrees, InLoop, BehindLoop, BeforeLoop, DecodesTheName

(* A buffer given up because of its frame is still framed.                 *)
LEMMA FrameAgrees ==
    ASSUME Agrees, Frame
    PROVE  Agrees'
<1>1. /\ pc = "frame" /\ UNCHANGED <<depth, jumped>>
      /\ pc' = "message" \/ (pc' = "done" /\ framed')
    BY DEF Frame, Return
<1> QED
    BY <1>1 DEF Agrees, InLoop, BehindLoop, BeforeLoop, DecodesTheName

(* The checks of the header, and the beginning of the name.                *)
LEMMA HeaderAgrees ==
    ASSUME IInv, Agrees, decode_dns_message
    PROVE  Agrees'
<1>0. /\ data \in Seq(Nat) /\ data' = data /\ pc = "message"
      /\ depth' = depth /\ jumped' = jumped /\ name' = name
      /\ depth = 0 /\ jumped = FALSE /\ name = <<>>
    BY DEF IInv, Octal, Untouched, Agrees, BeforeLoop, decode_dns_message
<1>1. CASE data = <<>> /\ Return("NO_MATCH", Cleared)
    BY <1>0, <1>1, Verdicts, NoName DEF Return
<1>2. CASE data # <<>> /\ Len(data) < HeaderLen /\ Return("NEED_MORE", Cleared)
    BY <1>0, <1>2, Verdicts, NoName DEF Return
<1>3. CASE Len(data) >= HeaderLen /\ data[CountAt] > MaxCount /\ Return("NO_MATCH", Cleared)
    BY <1>0, <1>3, Verdicts, NoName DEF Return
<1>4. CASE /\ Len(data) >= HeaderLen /\ data[CountAt] = 0
           /\ Return("OK", [protocol |-> "DNS", name |-> <<>>])
    <2>1. DnsVerdict(data') = [result |-> "OK", name |-> <<>>]
        BY <1>0, <1>4, Verdicts
    <2>2. DnsVerdict(data').result = "OK" /\ DnsVerdict(data').name = <<>>
        BY <2>1
    <2>3. result' = "OK" /\ decoded' = [protocol |-> "DNS", name |-> <<>>] /\ pc' = "done"
        BY <1>4 DEF Return
    <2>4. DecodesTheName'
        BY <2>2, <2>3 DEF DecodesTheName
    <2> QED
        BY <2>3, <2>4 DEF Agrees, InLoop, BehindLoop, BeforeLoop
<1>5. CASE /\ Len(data) >= HeaderLen /\ data[CountAt] \in 1..MaxCount
           /\ cursor' = HeaderLen /\ offset' = HeaderLen /\ pc' = "name"
    <2>1. HeaderAccepted'
        BY <1>0, <1>5 DEF HeaderAccepted
    <2>2. Fits(name')
        BY <1>0, DnsAssumption DEF Fits
    <2>3. depth' \in 0..MaxDepth /\ MaxDepth - depth' = MaxDepth
        BY <1>0, DnsAssumption
    <2>4. NameAt(data') = Glued(name', Names(data')[<<MaxDepth - depth', cursor'>>])
        BY <1>0, <1>5, <2>3 DEF NameAt, Glued
    <2>5. InlineEnd(data') = IF jumped' THEN offset' ELSE Ends(data')[cursor']
        BY <1>0, <1>5 DEF InlineEnd
    <2> QED
        BY <1>5, <2>1, <2>2, <2>3, <2>4, <2>5
           DEF Agrees, InLoop, BehindLoop, BeforeLoop, DecodesTheName
<1> QED
    BY <1>1, <1>2, <1>3, <1>4, <1>5 DEF decode_dns_message

(* What the steps of the loop know.                                        *)
LoopFacts(n, d) ==
    /\ data \in Seq(Nat) /\ name \in Seq(Nat) /\ Len(data) \in Nat
    /\ HeaderAccepted /\ Fits(name)
    /\ depth \in 0..MaxDepth /\ d \in 0..MaxDepth /\ d = MaxDepth - depth
    /\ cursor \in 0..Len(data)
    /\ NameAt(data) = Glued(name, NameFrom(data, Names(data), d, cursor))
    /\ NameCases(data, Names(data), d, cursor)
    /\ InlineEnd(data) = IF jumped THEN offset ELSE EndFrom(data, Ends(data), cursor)
    /\ cursor < Len(data) => Octet(cursor) = n /\ n = data[cursor + 1] /\ n \in Nat

(* At every iteration of parse_dns_name the invariant and the unfolded     *)
(* reference give all of it.                                               *)
LEMMA LoopUnfold ==
    ASSUME IInv, Agrees, pc = "name"
    PROVE  LoopFacts(data[cursor + 1], MaxDepth - depth)
<1> DEFINE d == MaxDepth - depth
           n == data[cursor + 1]
<1>1. data \in Seq(Nat) /\ name \in Seq(Nat) /\ Len(data) \in Nat /\ cursor \in 0..Len(data)
    BY DEF IInv, Octal, Within
<1>2. /\ HeaderAccepted /\ Fits(name) /\ depth \in 0..MaxDepth
      /\ NameAt(data) = Glued(name, Names(data)[<<d, cursor>>])
      /\ InlineEnd(data) = IF jumped THEN offset ELSE Ends(data)[cursor]
    BY DEF Agrees, InLoop
<1>3. d \in 0..MaxDepth
    BY <1>2, DnsAssumption
<1>4. cursor < Len(data) => Octet(cursor) = n /\ n \in Nat
    BY <1>1, OctetInside
<1> HIDE DEF d, n
<1>5. Names(data)[<<d, cursor>>] = NameFrom(data, Names(data), d, cursor)
    BY <1>1, <1>3, NamesUnfold
<1>6. NameCases(data, Names(data), d, cursor)
    BY <1>1, <1>3, NameFromCases
<1>7. Ends(data)[cursor] = EndFrom(data, Ends(data), cursor)
    BY <1>1, EndsUnfold
<1>8. LoopFacts(n, d)
    BY <1>1, <1>2, <1>3, <1>4, <1>5, <1>6, <1>7, Zenon DEF LoopFacts, d, n
<1> QED
    BY <1>8 DEF d, n

(* A name that is Bad is in no good question.                              *)
LEMMA BadIsNotGood ==
    ASSUME NEW s, NameAt(data) = Glued(s, Bad)
    PROVE  ~GoodQuestion(data)
<1>1. Glued(s, Bad) = Bad
    BY JoinedCases DEF Glued
<1> QED
    BY <1>1 DEF GoodQuestion

(* The message ends inside its name.                                       *)
LEMMA EndAgrees ==
    ASSUME IInv, Agrees, NameEnds
    PROVE  Agrees'
<1> DEFINE n == data[cursor + 1]
           d == MaxDepth - depth
<1>1. pc = "name" /\ cursor >= Len(data) /\ Return("MALFORMED", Cleared) /\ data' = data
    BY DEF NameEnds
<1>2. LoopFacts(n, d)
    BY <1>1, LoopUnfold
<1> HIDE DEF n, d
<1>3. cursor = Len(data)
    BY <1>1, <1>2 DEF LoopFacts
<1>4. NameFrom(data, Names(data), d, cursor) = Bad
    BY <1>2, <1>3, Zenon DEF LoopFacts, NameCases
<1>5. ~GoodQuestion(data)
    BY <1>2, <1>4, BadIsNotGood DEF LoopFacts
<1> QED
    BY <1>1, <1>2, <1>5, GivesUp DEF LoopFacts, Return

(* A root label completes the name.                                        *)
LEMMA RootAgrees ==
    ASSUME IInv, Agrees, RootLabel
    PROVE  Agrees'
<1> DEFINE n == data[cursor + 1]
           d == MaxDepth - depth
<1>1. /\ pc = "name" /\ cursor < Len(data) /\ Octet(cursor) = 0
      /\ data' = data /\ pc' = "question"
      /\ offset' = IF jumped THEN offset ELSE cursor + 1
      /\ name' = IF name = <<>> THEN <<Dot>> ELSE name
    BY DEF RootLabel, Reading
<1>2. LoopFacts(n, d)
    BY <1>1, LoopUnfold
<1> HIDE DEF n, d
<1>3. n = 0 /\ data[cursor + 1] = 0 /\ data \in Seq(Nat) /\ name \in Seq(Nat)
    BY <1>1, <1>2 DEF LoopFacts
<1>4. NameFrom(data, Names(data), d, cursor) = <<>>
    BY <1>1, <1>2, <1>3, Zenon DEF LoopFacts, NameCases
<1>5. NameAt(data) = name
    <2>1. NameAt(data) = Glued(name, <<>>)
        BY <1>2, <1>4 DEF LoopFacts
    <2>2. Joined(name, <<>>) = name
        BY JoinedCases
    <2> QED
        BY <2>1, <2>2 DEF Glued
<1>6. name # Bad
    BY <1>3, OctetsAreGood
<1>7. WholeName(data) = name'
    BY <1>1, <1>5 DEF WholeName
<1>8. InlineEnd(data) = offset'
    <2>1. EndFrom(data, Ends(data), cursor) = cursor + 1
        <3>1. cursor # Len(data)
            BY <1>1, <1>2 DEF LoopFacts
        <3> QED
            BY <1>3, <3>1, Zenon DEF EndFrom
    <2> QED
        BY <1>1, <1>2, <2>1 DEF LoopFacts
<1>9. HeaderAccepted' /\ Fits(NameAt(data))
    BY <1>1, <1>2, <1>5 DEF LoopFacts, HeaderAccepted
<1>10. BehindLoop'
    <2>1. /\ NameAt(data') # Bad /\ WholeName(data') = name' /\ Fits(NameAt(data'))
          /\ InlineEnd(data') = offset'
        BY <1>1, <1>5, <1>6, <1>7, <1>8, <1>9
    <2> QED
        BY <1>9, <2>1 DEF BehindLoop
<1> QED
    BY <1>1, <1>10 DEF Agrees, InLoop, BeforeLoop, DecodesTheName

(* Following a pointer costs one of the pointers that are left.            *)
LEMMA PointerAgrees ==
    ASSUME IInv, Agrees, Pointer
    PROVE  Agrees'
<1> DEFINE n == data[cursor + 1]
           d == MaxDepth - depth
           t == Target(data, cursor)
<1>1. /\ pc = "name" /\ cursor < Len(data) /\ Octet(cursor) >= PointerBase
      /\ data' = data /\ name' = name
    BY DEF Pointer, Reading
<1>2. LoopFacts(n, d)
    BY <1>1, LoopUnfold
<1>3. /\ n >= PointerBase /\ n \in Nat /\ Octet(cursor) = n /\ PointerBase \in Nat /\ MaxDepth \in Nat
      /\ data \in Seq(Nat) /\ cursor \in Nat /\ cursor # Len(data) /\ Len(data) \in Nat
      /\ depth \in Nat /\ depth <= MaxDepth
    BY <1>1, <1>2, DnsAssumption DEF LoopFacts
<1>4. cursor + 1 < Len(data) => PointerTarget = t /\ t \in Nat
    <2> SUFFICES ASSUME cursor + 1 < Len(data) PROVE PointerTarget = t /\ t \in Nat
        OBVIOUS
    <2> DEFINE c == cursor + 1
    <2>1. c \in Nat /\ c < Len(data) /\ c + 1 = cursor + 2
        BY <1>3
    <2> HIDE DEF c
    <2>2. Octet(c) \in Nat /\ Octet(c) = data[c + 1]
        BY <1>3, <2>1, OctetInside
    <2>3. PointerTarget = (n - PointerBase) * 256 + data[cursor + 2]
        BY <1>3, <2>1, <2>2 DEF PointerTarget, c
    <2>4. t = (n - PointerBase) * 256 + data[cursor + 2] /\ data[cursor + 2] \in Nat
        BY <2>1, <2>2 DEF Target
    <2> HIDE DEF n, t
    <2> QED
        BY SMTT(30), <1>3, <2>3, <2>4
<1>5. EndFrom(data, Ends(data), cursor) = cursor + 2
    <2>1. n # 0
        BY <1>3, DnsAssumption
    <2> QED
        BY <1>3, <2>1, Zenon DEF EndFrom
<1>6. CASE /\ PointerAllowed /\ offset' = IF jumped THEN offset ELSE cursor + 2
           /\ cursor' = PointerTarget /\ jumped' = TRUE /\ depth' = depth + 1
           /\ UNCHANGED <<pc, result, decoded>>
    <2>1. cursor + 1 < Len(data) /\ depth < MaxDepth /\ PointerTarget = t /\ t \in Nat /\ t < Len(data)
        BY <1>4, <1>6 DEF PointerAllowed
    <2>2. d # 0 /\ depth' \in 0..MaxDepth /\ MaxDepth - depth' = d - 1
        BY <1>3, <1>6, <2>1
    <2> HIDE DEF n, d, t
    <2>3. NameFrom(data, Names(data), d, cursor) = Names(data)[<<d - 1, t>>]
        BY <1>2, <1>3, <2>1, <2>2, Zenon DEF LoopFacts, NameCases, n, t
    <2>4. NameAt(data') = Glued(name', Names(data')[<<MaxDepth - depth', cursor'>>])
        BY <1>1, <1>2, <1>6, <2>1, <2>2, <2>3 DEF LoopFacts
    <2>5. InlineEnd(data') = offset'
        BY <1>1, <1>2, <1>5, <1>6 DEF LoopFacts
    <2>6. HeaderAccepted' /\ Fits(name') /\ pc' = "name"
        BY <1>1, <1>2, <1>6 DEF LoopFacts, HeaderAccepted
    <2>7. InLoop'
        <3>1. InlineEnd(data') = IF jumped' THEN offset' ELSE Ends(data')[cursor']
            BY <1>6, <2>5
        <3> QED
            BY <2>2, <2>4, <2>6, <3>1 DEF InLoop
    <2> QED
        BY <2>6, <2>7 DEF Agrees, BehindLoop, BeforeLoop, DecodesTheName
<1>7. CASE ~PointerAllowed /\ Return("MALFORMED", Cleared)
    <2>1. d = 0 \/ cursor + 1 = Len(data) \/ t >= Len(data)
        <3>1. ~(cursor + 1 < Len(data)) \/ ~(depth < MaxDepth) \/ ~(PointerTarget < Len(data))
            BY <1>7 DEF PointerAllowed
        <3>2. CASE ~(cursor + 1 < Len(data))
            BY <1>1, <1>3, <3>2
        <3>3. CASE ~(depth < MaxDepth)
            BY <1>3, <3>3
        <3>4. CASE cursor + 1 < Len(data) /\ ~(PointerTarget < Len(data))
            <4> HIDE DEF t
            <4> QED
                BY <1>3, <1>4, <3>4
        <3> QED
            BY <3>1, <3>2, <3>3, <3>4
    <2> HIDE DEF n, d, t
    <2>2. NameFrom(data, Names(data), d, cursor) = Bad
        BY <1>1, <1>2, <1>3, <2>1, Zenon DEF LoopFacts, NameCases, n, t
    <2>3. ~GoodQuestion(data)
        BY <1>2, <2>2, BadIsNotGood DEF LoopFacts
    <2> QED
        BY <1>1, <1>2, <1>7, <2>3, GivesUp DEF LoopFacts, Return
<1> QED
    BY <1>6, <1>7 DEF Pointer

(* The length of a name with one more label.                               *)
LEMMA WithLength ==
    ASSUME NEW s \in Seq(Nat), NEW label \in Seq(Nat)
    PROVE  Len(With(s, label)) = (IF s = <<>> THEN 0 ELSE Len(s) + 1) + Len(label)
<1> DEFINE h == IF s = <<>> THEN s ELSE Append(s, Dot)
<1>1. h \in Seq(Nat) /\ Len(h) = IF s = <<>> THEN 0 ELSE Len(s) + 1
    BY DEF Dot
<1>2. With(s, label) = h \o label
    BY DEF With
<1> HIDE DEF h
<1>3. h \in Seq(Int) /\ label \in Seq(Int)
    <2>1. Nat \subseteq Int
        OBVIOUS
    <2> QED
        BY <1>1, <2>1, SeqMonotonic, Zenon
<1>4. Len(h \o label) = Len(h) + Len(label)
    BY <1>3, Concatenated, Zenon
<1> QED
    BY <1>1, <1>2, <1>4, Zenon

(* A label is copied when the name still fits with it; if it does not, no  *)
(* continuation of the name fits.                                          *)
LEMMA LabelAgrees ==
    ASSUME IInv, Agrees, Label
    PROVE  Agrees'
<1> DEFINE n == data[cursor + 1]
           d == MaxDepth - depth
           next == cursor + 1 + n
           label == SubSeq(data, cursor + 2, next)
           rest == Names(data)[<<d, next>>]
           w == With(name, label)
<1>1. /\ pc = "name" /\ cursor < Len(data) /\ Octet(cursor) \in 1..(PointerBase - 1)
      /\ data' = data /\ offset' = offset /\ jumped' = jumped /\ depth' = depth
    BY DEF Label, Reading
<1>2. LoopFacts(n, d)
    BY <1>1, LoopUnfold
<1>3. /\ n \in Nat /\ n \in 1..(PointerBase - 1) /\ Octet(cursor) = n /\ data[cursor + 1] = n
      /\ data \in Seq(Nat) /\ name \in Seq(Nat) /\ cursor \in Nat /\ cursor # Len(data)
      /\ Len(data) \in Nat
    BY <1>1, <1>2 DEF LoopFacts
<1>4. Reserved \in Nat \ {0} /\ PointerBase \in Nat /\ OutSize \in Nat /\ MaxName \in Nat
    BY DnsAssumption
<1>5. ASSUME n < Reserved, next <= Len(data)
      PROVE  /\ NameAt(data) = Glued(w, rest) /\ Slice(cursor + 1, n) = label
             /\ w \in Seq(Nat) /\ w # <<>> /\ rest \in Seq(Int)
             /\ Len(w) = (IF name = <<>> THEN 0 ELSE Len(name) + 1) + n
             /\ EndFrom(data, Ends(data), cursor) = Ends(data)[next]
    <2>1. n \in 1..(Reserved - 1) /\ n > 0 /\ next \in 0..Len(data) /\ d \in 0..MaxDepth
        BY SMTT(30), <1>2, <1>3, <1>4, <1>5 DEF LoopFacts
    <2>2. Slice(cursor + 1, n) = label /\ label \in Seq(Nat) /\ label # <<>> /\ Len(label) = n
        <3> DEFINE s == Slice(cursor + 1, n)
        <3> HIDE DEF n
        <3>1. s = label /\ s \in Seq(Nat) /\ s # <<>> /\ Len(s) = n
            BY <1>3, <1>5, <2>1, SliceIsLabel
        <3> HIDE DEF s, label
        <3>2. label \in Seq(Nat) /\ label # <<>> /\ Len(label) = n
            BY <3>1
        <3> QED
            BY <3>1, <3>2 DEF s
    <2>3. rest \in Seq(Int)
        <3> HIDE DEF next, d
        <3> QED
            BY <1>3, <2>1, NamesUnfold
    <2>4. NameFrom(data, Names(data), d, cursor) = Joined(label, rest)
        <3> HIDE DEF d
        <3> QED
            BY <1>1, <1>2, <1>5, <2>1, Zenon DEF LoopFacts, NameCases
    <2>5. EndFrom(data, Ends(data), cursor) = Ends(data)[next]
        <3>1. n # 0 /\ ~(n >= PointerBase) /\ ~(next > Len(data))
            BY SMTT(30), <1>3, <1>4, <1>5, <2>1
        <3> QED
            BY <1>3, <3>1, Zenon DEF EndFrom
    <2> HIDE DEF n, d, next, label, rest
    <2>6. NameAt(data) = Glued(name, Joined(label, rest))
        BY <1>2, <2>4 DEF LoopFacts
    <2>7. Glued(name, Joined(label, rest)) = Glued(w, rest) /\ w \in Seq(Nat) /\ w # <<>>
        BY <1>3, <2>2, <2>3, JoinLabel
    <2>8. Len(w) = (IF name = <<>> THEN 0 ELSE Len(name) + 1) + n
        BY <1>3, <2>2, WithLength
    <2> QED
        BY <2>2, <2>3, <2>5, <2>6, <2>7, <2>8, Zenon
<1>6. CASE /\ n < Reserved /\ LabelFits(n) /\ name' = Extended(n) /\ cursor' = next
           /\ UNCHANGED <<pc, result, decoded>>
    <2>1. next <= Len(data)
        BY <1>6 DEF LabelFits
    <2>2. /\ NameAt(data) = Glued(w, rest) /\ Slice(cursor + 1, n) = label
          /\ Len(w) = (IF name = <<>> THEN 0 ELSE Len(name) + 1) + n
          /\ EndFrom(data, Ends(data), cursor) = Ends(data)[next]
        BY <1>5, <1>6, <2>1
    <2>3. Fits(w)
        <3>1. /\ (IF name = <<>> THEN 0 ELSE Len(name) + 1) + n < OutSize
              /\ (IF name = <<>> THEN 0 ELSE Len(name) + 1) + n <= MaxName
            BY <1>6 DEF LabelFits
        <3> HIDE DEF w, n
        <3> QED
            BY <2>2, <3>1 DEF Fits
    <2>4. name' = w
        BY <1>6, <2>2 DEF Extended, With
    <2> HIDE DEF n, d, next, label, rest, w
    <2>5. NameAt(data') = Glued(name', Names(data')[<<MaxDepth - depth', cursor'>>])
        BY <1>1, <1>6, <2>2, <2>4 DEF rest, d
    <2>6. InlineEnd(data') = IF jumped' THEN offset' ELSE Ends(data')[cursor']
        BY <1>1, <1>2, <1>6, <2>2 DEF LoopFacts
    <2>7. HeaderAccepted' /\ Fits(name') /\ pc' = "name" /\ depth' \in 0..MaxDepth
        BY <1>1, <1>2, <1>6, <2>3, <2>4 DEF LoopFacts, HeaderAccepted
    <2>8. InLoop'
        BY <2>5, <2>6, <2>7 DEF InLoop
    <2> QED
        BY <2>7, <2>8 DEF Agrees, BehindLoop, BeforeLoop, DecodesTheName
<1>7. CASE (n >= Reserved \/ ~LabelFits(n)) /\ Return("MALFORMED", Cleared)
    <2>1. CASE n >= Reserved
        <3>1. n \in Reserved..(PointerBase - 1)
            BY <1>3, <1>4, <2>1
        <3>2. NameFrom(data, Names(data), d, cursor) = Bad
            <4> HIDE DEF d
            <4> QED
                BY <1>1, <1>2, <3>1, Zenon DEF LoopFacts, NameCases
        <3>3. ~GoodQuestion(data)
            BY <1>2, <3>2, BadIsNotGood DEF LoopFacts
        <3> QED
            BY <1>1, <1>2, <1>7, <3>3, GivesUp DEF LoopFacts, Return
    <2>2. CASE n < Reserved /\ next > Len(data)
        <3>1. n \in 1..(Reserved - 1)
            BY <1>3, <1>4, <2>2
        <3>2. NameFrom(data, Names(data), d, cursor) = Bad
            <4> HIDE DEF d
            <4> QED
                BY <1>1, <1>2, <2>2, <3>1, Zenon DEF LoopFacts, NameCases
        <3>3. ~GoodQuestion(data)
            BY <1>2, <3>2, BadIsNotGood DEF LoopFacts
        <3> QED
            BY <1>1, <1>2, <1>7, <3>3, GivesUp DEF LoopFacts, Return
    <2>3. CASE n < Reserved /\ next <= Len(data) /\ ~LabelFits(n)
        <3>1. /\ NameAt(data) = Glued(w, rest) /\ w \in Seq(Nat) /\ w # <<>> /\ rest \in Seq(Int)
              /\ Len(w) = (IF name = <<>> THEN 0 ELSE Len(name) + 1) + n
            BY <1>5, <2>3
        <3>2. ~Fits(w)
            <4>1. \/ ~((IF name = <<>> THEN 0 ELSE Len(name) + 1) + n < OutSize)
                  \/ ~((IF name = <<>> THEN 0 ELSE Len(name) + 1) + n <= MaxName)
                <5>1. n > 0 /\ Len(name) \in Nat
                    BY <1>3
                <5> HIDE DEF n
                <5> QED
                    BY <1>3, <1>4, <2>3, <5>1 DEF LabelFits
            <4> HIDE DEF w, n
            <4> QED
                BY <3>1, <4>1 DEF Fits
        <3> HIDE DEF w, n, rest, next
        <3>3. \/ NameAt(data) = Bad
              \/ /\ NameAt(data) # <<>> /\ Len(NameAt(data)) \in Nat
                 /\ Len(NameAt(data)) >= Len(w)
            BY <3>1, GluedGrows
        <3>4. Len(w) \in Nat
            BY <3>1
        <3>5. ~GoodQuestion(data)
            BY <1>4, <3>2, <3>3, <3>4 DEF GoodQuestion, Fits
        <3> QED
            BY <1>1, <1>2, <1>7, <3>5, GivesUp DEF LoopFacts, Return
    <2> QED
        BY <1>3, <1>4, <1>7, <2>1, <2>2, <2>3
<1> QED
    BY <1>3, <1>6, <1>7, Zenon DEF Label

(* Type and class must follow the name where it ends in place.             *)
LEMMA QuestionAgrees ==
    ASSUME IInv, Agrees, Question
    PROVE  Agrees'
<1>1. pc = "question" /\ data' = data /\ name' = name /\ data \in Seq(Nat)
    BY DEF Question, IInv, Octal
<1>2. /\ HeaderAccepted /\ NameAt(data) # Bad /\ WholeName(data) = name
      /\ NameAt(data) = <<>> \/ Fits(NameAt(data))
      /\ InlineEnd(data) = offset
    BY <1>1 DEF Agrees, BehindLoop
<1>3. offset \in Nat /\ Len(data) \in Nat /\ TailLen \in Nat
    BY <1>1, DnsAssumption DEF IInv, Within
<1>4. CASE TailLen <= Len(data) - offset /\ Return("OK", [protocol |-> "DNS", name |-> name])
    <2>1. GoodQuestion(data)
        BY <1>2, <1>3, <1>4 DEF GoodQuestion, Fits
    <2>2. DnsVerdict(data') = [result |-> "OK", name |-> name]
        BY <1>1, <1>2, <2>1, Verdicts DEF HeaderAccepted
    <2>3. DnsVerdict(data').result = "OK" /\ DnsVerdict(data').name = name
        BY <2>2
    <2>4. result' = "OK" /\ decoded' = [protocol |-> "DNS", name |-> name] /\ pc' = "done"
        BY <1>4 DEF Return
    <2>5. DecodesTheName'
        BY <2>3, <2>4 DEF DecodesTheName
    <2> QED
        BY <2>4, <2>5 DEF Agrees, InLoop, BehindLoop, BeforeLoop
<1>5. CASE TailLen > Len(data) - offset /\ Return("MALFORMED", Cleared)
    <2>1. ~GoodQuestion(data)
        BY <1>2, <1>3, <1>5 DEF GoodQuestion
    <2> QED
        BY <1>1, <1>2, <1>5, <2>1, GivesUp DEF Return
<1> QED
    BY <1>4, <1>5 DEF Question

(* The one-pass loop of parse_dns_name, with its jumped flag, its pointer  *)
(* count and its incremental length tests, decodes a question exactly when *)
(* the message holds a name that fits, followed in place by type and       *)
(* class, and reports that name: for every message and every limit.        *)
THEOREM DecoderIsRight == Spec => []DecodesTheName
<1>1. Init => Agrees
    BY StartAgrees
<1>2. IInv /\ Agrees /\ [Next]_vars => Agrees'
    <2> SUFFICES ASSUME IInv, Agrees, [Next]_vars PROVE Agrees'
        OBVIOUS
    <2>1. CASE UNCHANGED vars
        <3>1. UNCHANGED <<data, framed, pc, cursor, offset, name, jumped, depth, result, decoded>>
            BY <2>1 DEF vars
        <3>2. Agrees' = Agrees
            BY <3>1 DEF Agrees, InLoop, BehindLoop, BeforeLoop, DecodesTheName, HeaderAccepted
        <3> QED
            BY <3>2
    <2> QED
        BY <2>1, FrameAgrees, HeaderAgrees, EndAgrees, RootAgrees, PointerAgrees, LabelAgrees,
           QuestionAgrees DEF Next, Step, Finished
<1>3. Agrees => DecodesTheName
    BY DEF Agrees
<1> QED
    BY <1>1, <1>2, <1>3, StartsInside, Inductive, PTL DEF Spec

----------------------------------------------------------------------------
(* Verdicts on growing streams: what is decoded stays decoded.             *)

----------------------------------------------------------------------------
(* Buffers that agree where both have octets.                              *)

\* e begins with the octets of d.
Extends(e, d) == Len(d) <= Len(e) /\ \A i \in 1..Len(d) : e[i] = d[i]

(* The octets a reader takes from inside a buffer.                         *)
LEMMA BytesAre ==
    ASSUME NEW S, NEW d \in Seq(S), NEW i \in Nat, NEW n \in Nat, i + n <= Len(d)
    PROVE  /\ Bytes(d, i, n) \in Seq(S) /\ Len(Bytes(d, i, n)) = n
           /\ \A k \in 1..n : Bytes(d, i, n)[k] = d[i + k]
BY DEF Bytes

(* What is read inside a buffer is read from any longer one as well.       *)
LEMMA BytesKept ==
    ASSUME NEW d \in Seq(Nat), NEW e \in Seq(Nat), Extends(e, d),
           NEW i \in Nat, NEW n \in Int, i + n <= Len(d)
    PROVE  Bytes(e, i, n) = Bytes(d, i, n)
<1>0. Len(d) \in Nat /\ Len(e) \in Nat /\ Len(d) <= Len(e) /\ \A k \in 1..Len(d) : e[k] = d[k]
    BY DEF Extends
<1>1. CASE n >= 0
    <2>1. n \in Nat /\ i + n <= Len(e)
        BY <1>0, <1>1
    <2>2. /\ Bytes(d, i, n) \in Seq(Nat) /\ Len(Bytes(d, i, n)) = n
          /\ \A k \in 1..n : Bytes(d, i, n)[k] = d[i + k]
        BY <2>1, BytesAre
    <2>3. /\ Bytes(e, i, n) \in Seq(Nat) /\ Len(Bytes(e, i, n)) = n
          /\ \A k \in 1..n : Bytes(e, i, n)[k] = e[i + k]
        BY <2>1, BytesAre
    <2> DEFINE b == Bytes(d, i, n)
               c == Bytes(e, i, n)
    <2>4. \A k \in 1..n : e[i + k] = d[i + k]
        BY <1>0, <2>1
    <2> HIDE DEF b, c
    <2>5. \A k \in 1..n : c[k] = b[k]
        BY <2>2, <2>3, <2>4 DEF b, c
    <2>6. b \in Seq(Nat) /\ c \in Seq(Nat) /\ Len(b) = n /\ Len(c) = n
        BY <2>2, <2>3 DEF b, c
    <2>7. c = b
        BY <2>5, <2>6
    <2> QED BY <2>7 DEF b, c
<1>2. CASE n < 0
    <2>1. SubSeq(d, i + 1, i + n) = <<>> /\ SubSeq(e, i + 1, i + n) = <<>>
        BY <1>2
    <2> QED BY <2>1 DEF Bytes
<1> QED BY <1>1, <1>2

(* One buffer is a prefix of another exactly when the other extends it.    *)
LEMMA PrefixIs ==
    ASSUME NEW s \in Seq(Int), NEW t \in Seq(Int)
    PROVE  IsPrefix(s, t) <=> Extends(t, s)
<1>1. SubSeq(s, 1, Len(s)) = s
    OBVIOUS
<1>2. ASSUME Len(s) <= Len(t)
      PROVE  /\ SubSeq(t, 1, Len(s)) \in Seq(Int) /\ Len(SubSeq(t, 1, Len(s))) = Len(s)
             /\ \A i \in 1..Len(s) : SubSeq(t, 1, Len(s))[i] = t[i]
    BY <1>2
<1>3. ASSUME Len(s) <= Len(t)
      PROVE  s = SubSeq(t, 1, Len(s)) <=> \A i \in 1..Len(s) : t[i] = s[i]
    <2> DEFINE u == SubSeq(t, 1, Len(s))
    <2>1. u \in Seq(Int) /\ Len(u) = Len(s) /\ \A i \in 1..Len(s) : u[i] = t[i]
        BY <1>2, <1>3
    <2> HIDE DEF u
    <2>2. ASSUME \A i \in 1..Len(s) : t[i] = s[i] PROVE s = u
        <3>1. \A i \in 1..Len(s) : u[i] = s[i]
            BY <2>1, <2>2
        <3> HIDE <2>2
        <3> QED BY <2>1, <3>1, SeqEqual
    <2>3. ASSUME s = u PROVE \A i \in 1..Len(s) : t[i] = s[i]
        BY <2>1, <2>3
    <2> QED BY <2>2, <2>3 DEF u
<1> QED BY <1>1, <1>3 DEF IsPrefix, Extends

(* Where a pattern is found, and that it is nowhere before.                *)
LEMMA FindIs ==
    ASSUME NEW d \in Seq(Nat), NEW p \in Seq(Nat)
    PROVE  /\ Find(d, p) = -1 \/ Find(d, p) \in Nat
           /\ Find(d, p) # -1 =>
                 /\ Find(d, p) + Len(p) <= Len(d)
                 /\ Bytes(d, Find(d, p), Len(p)) = p
           /\ \A i \in Nat : i + Len(p) <= Len(d) /\ Bytes(d, i, Len(p)) = p =>
                 Find(d, p) # -1 /\ Find(d, p) <= i
<1> DEFINE at == {i \in 0..(Len(d) - Len(p)) : Bytes(d, i, Len(p)) = p}
<1>1. at \in SUBSET Nat
    OBVIOUS
<1>2. Find(d, p) = IF at = {} THEN -1 ELSE Min(at)
    BY DEF Find
<1>3. \A i \in at : i \in Nat /\ i + Len(p) <= Len(d) /\ Bytes(d, i, Len(p)) = p
    OBVIOUS
<1>4. \A i \in Nat : i + Len(p) <= Len(d) /\ Bytes(d, i, Len(p)) = p => i \in at
    OBVIOUS
<1> HIDE DEF at
<1>5. at # {} => Min(at) \in at /\ \A k \in at : Min(at) <= k
    BY <1>1, MinIs
<1>6. CASE at = {}
    <2>1. Find(d, p) = -1
        BY <1>2, <1>6
    <2> QED BY <1>4, <1>6, <2>1, Zenon
<1>7. CASE at # {}
    <2>1. Find(d, p) = Min(at) /\ Find(d, p) \in at
        BY <1>2, <1>5, <1>7
    <2>2. Find(d, p) \in Nat /\ Find(d, p) # -1
        <3>1. Find(d, p) \in Nat
            BY <1>1, <2>1, Zenon
        <3> QED BY <3>1
    <2> QED BY <1>3, <1>4, <1>5, <1>7, <2>1, <2>2
<1> QED BY <1>6, <1>7

(* What is found in a buffer is found at the same place in a longer one.   *)
LEMMA FindKept ==
    ASSUME NEW d \in Seq(Nat), NEW e \in Seq(Nat), Extends(e, d),
           NEW p \in Seq(Nat), Find(d, p) # -1
    PROVE  Find(e, p) = Find(d, p)
<1> DEFINE f == Find(d, p)
           g == Find(e, p)
<1>1. /\ f \in Nat /\ f + Len(p) <= Len(d) /\ Bytes(d, f, Len(p)) = p
      /\ \A i \in Nat : i + Len(p) <= Len(d) /\ Bytes(d, i, Len(p)) = p => f <= i
    BY FindIs
<1>2. /\ g = -1 \/ g \in Nat
      /\ g # -1 => Bytes(e, g, Len(p)) = p
      /\ \A i \in Nat : i + Len(p) <= Len(e) /\ Bytes(e, i, Len(p)) = p => g # -1 /\ g <= i
    BY FindIs
<1> HIDE DEF f, g
<1>3. Len(d) \in Nat /\ Len(e) \in Nat /\ Len(d) <= Len(e) /\ Len(p) \in Nat
    BY DEF Extends
<1>4. f + Len(p) <= Len(e) /\ Bytes(e, f, Len(p)) = p
    BY <1>1, <1>3, BytesKept
<1>5. g \in Nat /\ g <= f
    BY <1>1, <1>2, <1>4
<1>6. g + Len(p) <= Len(d)
    BY <1>1, <1>3, <1>5
<1>7. Bytes(d, g, Len(p)) = p
    BY <1>2, <1>3, <1>5, <1>6, BytesKept
<1>8. f <= g
    BY <1>1, <1>5, <1>6, <1>7
<1> QED BY <1>1, <1>5, <1>8 DEF f, g

----------------------------------------------------------------------------
(* HTTP on a growing stream.                                               *)

BlankLine == CRLF \o CRLF

(* The patterns the HTTP decoder looks for.                                *)
LEMMA Patterns ==
    /\ CRLF \in Seq(Nat) /\ Len(CRLF) = 2
    /\ BlankLine \in Seq(Nat) /\ Len(BlankLine) = 4
    /\ BlankLine[1] = 13 /\ BlankLine[2] = 10
    /\ CRLF[1] = 13 /\ CRLF[2] = 10
BY DEF CRLF, BlankLine

(* Methods and the status mark as sequences of octets.                     *)
LEMMA Words ==
    /\ \A m \in Methods : /\ m \in Seq(Nat) /\ m \in Seq(Int) /\ Len(m) \in 1..(HeaderLen - 1)
                          /\ \A i \in 1..Len(m) : m[i] \in Letters
    /\ StatusMark \in Seq(Nat) /\ StatusMark \in Seq(Int)
    /\ Len(StatusMark) \in 1..HeaderLen /\ StatusMark[1] \in Letters
    /\ HeaderLen \in Nat
<1>1. \A S, T : S \subseteq T => Seq(S) \subseteq Seq(T)
    BY SeqMonotonic, Zenon
<1>2. Letters \subseteq Nat /\ Letters \subseteq Int /\ Nat \subseteq Int
    BY DEF Letters
<1>3. HeaderLen \in Nat
    BY DnsAssumption
<1>4. ASSUME NEW m \in Methods
      PROVE  /\ m \in Seq(Nat) /\ m \in Seq(Int) /\ Len(m) \in 1..(HeaderLen - 1)
             /\ \A i \in 1..Len(m) : m[i] \in Letters
    <2>1. m \in Seq(Letters) /\ m # <<>> /\ Len(m) < HeaderLen
        BY DecoderAssumption
    <2>2. m \in Seq(Nat) /\ m \in Seq(Int)
        BY <1>1, <1>2, <2>1, Zenon
    <2>3. Len(m) \in Nat /\ Len(m) # 0 /\ \A i \in 1..Len(m) : m[i] \in Letters
        BY <2>1
    <2> QED BY <1>3, <2>1, <2>2, <2>3
<1>5. /\ StatusMark \in Seq(Nat) /\ StatusMark # <<>> /\ Len(StatusMark) <= HeaderLen
      /\ StatusMark[1] \in Letters
    BY DecoderAssumption
<1>6. StatusMark \in Seq(Int)
    BY <1>1, <1>2, <1>5, Zenon
<1>7. Len(StatusMark) \in Nat /\ Len(StatusMark) # 0
    BY <1>5
<1> QED BY <1>3, <1>4, <1>5, <1>6, <1>7

(* No letter is a control octet.                                           *)
LEMMA LettersAre == \A o \in Letters : o \in Nat /\ o # 13 /\ o # 22
BY DEF Letters

(* An octet buffer as a sequence of integers, and its first octet.         *)
LEMMA OctetsAreInts ==
    ASSUME NEW d \in Seq(Nat)
    PROVE  d \in Seq(Int) /\ Len(d) \in Nat
BY SeqMonotonic

(* A buffer starts like HTTP when it starts with a word, or, as long as it *)
(* is shorter, when a method starts with it.                               *)
LEMMA HttpStarts ==
    ASSUME NEW d \in Seq(Nat)
    PROVE  /\ looks_like_http(d) <=> Extends(d, StatusMark) \/ maybe_http_request_prefix(d)
           /\ maybe_http_request_prefix(d) <=>
                  \E m \in Methods : Extends(d, m) \/ Extends(m, d)
<1>1. d \in Seq(Int)
    BY OctetsAreInts
<1>2. IsPrefix(StatusMark, d) <=> Extends(d, StatusMark)
    BY <1>1, Words, PrefixIs
<1>3. \A m \in Methods : /\ IsPrefix(m, d) <=> Extends(d, m)
                         /\ IsPrefix(d, m) <=> Extends(m, d)
    <2> TAKE m \in Methods
    <2>1. m \in Seq(Int)
        BY Words
    <2> QED BY <1>1, <2>1, PrefixIs, Zenon
<1>4. maybe_http_request_prefix(d) <=> \E m \in Methods : Extends(d, m) \/ Extends(m, d)
    <2>1. ASSUME maybe_http_request_prefix(d)
          PROVE  \E m \in Methods : Extends(d, m) \/ Extends(m, d)
        BY <1>3, <2>1, Zenon DEF maybe_http_request_prefix
    <2>2. ASSUME NEW m \in Methods, Extends(d, m) \/ Extends(m, d)
          PROVE  maybe_http_request_prefix(d)
        BY <1>3, <2>2, Zenon DEF maybe_http_request_prefix
    <2> QED BY <2>1, <2>2, Zenon
<1> QED BY <1>2, <1>4, Zenon DEF looks_like_http

(* A start stays a start when the buffer grows, unless it was a part of a  *)
(* method; and no new word appears at the start of a buffer of HeaderLen   *)
(* octets.                                                                 *)
LEMMA WordKept ==
    ASSUME NEW d \in Seq(Nat), NEW e \in Seq(Nat), Extends(e, d), NEW w \in Seq(Nat)
    PROVE  /\ Extends(d, w) => Extends(e, w)
           /\ Len(w) <= Len(d) /\ Extends(e, w) => Extends(d, w)
<1>1. Len(d) \in Nat /\ Len(e) \in Nat /\ Len(w) \in Nat
    OBVIOUS
<1>2. Len(d) <= Len(e) /\ \A i \in 1..Len(d) : e[i] = d[i]
    BY DEF Extends
<1>3. Len(w) <= Len(d) => \A i \in 1..Len(w) : e[i] = d[i] /\ i \in 1..Len(d)
    BY SMTT(30), <1>1, <1>2
<1>4. ASSUME Extends(d, w) PROVE Extends(e, w)
    <2>1. Len(w) <= Len(d) /\ \A i \in 1..Len(w) : d[i] = w[i]
        BY <1>4, Zenon DEF Extends
    <2>2. Len(w) <= Len(e) /\ \A i \in 1..Len(w) : e[i] = w[i]
        BY <1>1, <1>2, <1>3, <2>1
    <2> QED BY <2>2, Zenon DEF Extends
<1>5. ASSUME Len(w) <= Len(d), Extends(e, w) PROVE Extends(d, w)
    <2>1. \A i \in 1..Len(w) : e[i] = w[i]
        BY <1>5, Zenon DEF Extends
    <2>2. \A i \in 1..Len(w) : d[i] = w[i]
        BY <1>3, <1>5, <2>1
    <2> QED BY <1>5, <2>2, Zenon DEF Extends
<1> QED BY <1>4, <1>5

(* The cases of app_http_decode.                                           *)
LEMMA HttpCases ==
    ASSUME NEW d \in Seq(Nat)
    PROVE  LET v == app_http_decode(d)
               found == Find(d, BlankLine)
               head == DecodeHead(Bytes(d, 0, found + 4), Find(d, CRLF))
           IN  /\ d = <<>> \/ ~looks_like_http(d) => v = Verdict("NO_MATCH")
               /\ d # <<>> /\ looks_like_http(d) /\ found = -1 => v = Verdict("NEED_MORE")
               /\ d # <<>> /\ looks_like_http(d) /\ found # -1 => v = head
<1> DEFINE found == Find(d, BlankLine)
<1>1. found \in Int
    BY FindIs, Patterns
<1>2. found + 4 = 3 <=> found = -1
    <2> HIDE DEF found
    <2> QED BY <1>1
<1> QED BY <1>2, Zenon DEF app_http_decode, BlankLine

(* What a complete head is decoded to.                                     *)
LEMMA HeadResults == \A h, n : DecodeHead(h, n).result \in {"OK", "MALFORMED"}
<1> TAKE h, n
<1> DEFINE first == FirstLine(Bytes(h, 0, n))
           block == Rest(h, n + 2)
<1>1. DecodeHead(h, n) = HttpVerdict(first, block)
    BY Zenon DEF DecodeHead
<1> HIDE DEF first, block
<1>2. HttpVerdict(first, block) = Verdict("MALFORMED") \/
      HttpVerdict(first, block) = Decoded("HTTP", Both(first.fields, parse_headers(block)))
    BY Zenon DEF HttpVerdict
<1>3. Verdict("MALFORMED").result = "MALFORMED"
    BY DEF Verdict
<1>4. \A f : Decoded("HTTP", f).result = "OK"
    BY DEF Decoded
<1> QED BY <1>1, <1>2, <1>3, <1>4, Zenon

(* The results of verdicts without metadata.                               *)
LEMMA VerdictResult == \A r : Verdict(r).result = r /\ Verdict(r).app = Unknown
BY DEF Verdict

(* Once the blank line has arrived the verdict on a stream that looks like *)
(* HTTP is final.                                                          *)
LEMMA HttpFinal ==
    ASSUME NEW d \in Seq(Nat), NEW e \in Seq(Nat), Extends(e, d),
           app_http_decode(d).result \in {"OK", "MALFORMED"}
    PROVE  app_http_decode(e) = app_http_decode(d)
<1> DEFINE found == Find(d, BlankLine)
<1>1. d # <<>> /\ looks_like_http(d) /\ found # -1
    <2>1. app_http_decode(d) # Verdict("NO_MATCH") /\ app_http_decode(d) # Verdict("NEED_MORE")
        BY VerdictResult
    <2> QED BY <2>1, HttpCases, Zenon
<1>2. found \in Nat /\ found + 4 <= Len(d) /\ Bytes(d, found, 4) = BlankLine
    BY <1>1, FindIs, Patterns
<1>a. \A k \in 1..4 : BlankLine[k] = d[found + k]
    <2> HIDE DEF found
    <2>1. found \in Nat /\ 4 \in Nat /\ found + 4 <= Len(d)
        BY <1>2
    <2>2. \A k \in 1..4 : Bytes(d, found, 4)[k] = d[found + k]
        BY <2>1, BytesAre, Zenon
    <2> QED BY <1>2, <2>2
<1>b. d[found + 1] = 13 /\ d[found + 2] = 10
    BY SMTT(30), <1>a, Patterns
<1>3. Find(e, BlankLine) = found
    BY <1>1, FindKept, Patterns
<1>4. Len(d) \in Nat /\ Len(e) \in Nat /\ Len(d) <= Len(e)
    BY DEF Extends
<1> HIDE DEF found
<1>5. Bytes(e, 0, found + 4) = Bytes(d, 0, found + 4)
    BY <1>2, BytesKept
<1>6. Find(e, CRLF) = Find(d, CRLF)
    <2>1. Bytes(d, found, 2) = CRLF
        <3> DEFINE b == Bytes(d, found, 2)
        <3>1. found + 2 <= Len(d)
            BY <1>2, <1>4
        <3>2. b \in Seq(Nat) /\ Len(b) = 2 /\ \A k \in 1..2 : b[k] = d[found + k]
            <4>1. found \in Nat /\ 2 \in Nat
                BY <1>2
            <4> QED BY <3>1, <4>1, BytesAre, ZenonT(40)
        <3>3. b[1] = 13 /\ b[2] = 10
            BY <1>b, <3>2
        <3> HIDE DEF b
        <3>4. b = <<13, 10>>
            <4>1. <<13, 10>> \in Seq(Nat) /\ Len(<<13, 10>>) = 2
                OBVIOUS
            <4>2. \A k \in 1..2 : b[k] = <<13, 10>>[k]
                BY <3>3
            <4> QED BY <3>2, <4>1, <4>2, SeqEqual
        <3> QED BY <3>4 DEF b, CRLF
    <2>2. found + 2 <= Len(d)
        BY <1>2, <1>4
    <2>3. Find(d, CRLF) # -1
        BY <1>2, <2>1, <2>2, FindIs, Patterns
    <2> QED BY <2>3, FindKept, Patterns
<1>7. looks_like_http(e)
    <2>1. CASE Extends(d, StatusMark)
        BY <2>1, WordKept, Words, HttpStarts
    <2>2. ASSUME NEW m \in Methods, Extends(d, m) PROVE looks_like_http(e)
        BY <2>2, WordKept, Words, HttpStarts
    <2>3. ASSUME NEW m \in Methods, Extends(m, d) PROVE FALSE
        <3>1. found + 1 \in 1..Len(d) /\ d[found + 1] = 13
            BY <1>2, <1>4, <1>b
        <3>2. Len(d) <= Len(m) /\ m[found + 1] = d[found + 1]
            BY <2>3, <3>1 DEF Extends
        <3>3. m[found + 1] \in Letters
            BY SMTT(30), <3>1, <3>2, Words
        <3> QED BY <3>1, <3>2, <3>3 DEF Letters
    <2> QED BY <1>1, <2>1, <2>2, <2>3, HttpStarts
<1>8. e # <<>>
    BY <1>1, <1>4
<1>9. Find(e, BlankLine) # -1 /\ Bytes(e, 0, Find(e, BlankLine) + 4) = Bytes(d, 0, found + 4)
    BY <1>2, <1>3, <1>5
<1> QED
    BY <1>1, <1>6, <1>7, <1>8, <1>9, HttpCases, Zenon DEF found

(* A stream as long as a DNS header that does not look like HTTP never     *)
(* will.                                                                   *)
LEMMA NeverHttp ==
    ASSUME NEW d \in Seq(Nat), NEW e \in Seq(Nat), Extends(e, d), Len(d) >= HeaderLen,
           ~looks_like_http(d)
    PROVE  ~looks_like_http(e) /\ ~maybe_http_request_prefix(e)
<1>1. Len(d) \in Nat /\ Len(e) \in Nat /\ Len(d) <= Len(e) /\ HeaderLen \in Nat
    BY SMTT(30), Words DEF Extends
<1>2. ~Extends(e, StatusMark)
    <2>1. Len(StatusMark) <= Len(d)
        BY <1>1, Words
    <2> QED BY <2>1, WordKept, Words, HttpStarts
<1>3. ASSUME NEW m \in Methods PROVE ~Extends(e, m) /\ ~Extends(m, e)
    <2>1. Len(m) < Len(d)
        BY <1>1, Words
    <2>2. ~Extends(e, m)
        BY <1>1, <2>1, WordKept, Words, HttpStarts
    <2>3. ~(Len(e) <= Len(m))
        BY <1>1, <2>1, Words
    <2> QED BY <2>2, <2>3 DEF Extends
<1> QED BY <1>2, <1>3, HttpStarts

----------------------------------------------------------------------------
(* TLS on a growing stream.                                                *)

(* A number read inside a buffer.                                          *)
LEMMA NumberIs ==
    ASSUME NEW d \in Seq(Nat), NEW i \in Nat, NEW w \in 1..3, i + w <= Len(d)
    PROVE  Number(d, i, w) \in Nat
<1>1. \A k \in 1..w : d[i + k] \in Nat
    OBVIOUS
<1>2. CASE w = 1
    <2>1. Number(d, i, w) = d[i + 1]
        BY <1>2 DEF Number
    <2> QED BY <1>1, <1>2, <2>1
<1>3. CASE w = 2
    <2>1. Number(d, i, w) = d[i + 1] * 256 + d[i + 2]
        BY <1>3 DEF Number
    <2>2. d[i + 1] \in Nat /\ d[i + 2] \in Nat
        BY <1>1, <1>3
    <2> QED BY SMTT(30), <2>1, <2>2
<1>4. CASE w = 3
    <2>1. Number(d, i, w) = (d[i + 1] * 256 + d[i + 2]) * 256 + d[i + 3]
        BY <1>4 DEF Number
    <2>2. d[i + 1] \in Nat /\ d[i + 2] \in Nat /\ d[i + 3] \in Nat
        BY <1>1, <1>4
    <2> DEFINE a == d[i + 1] * 256 + d[i + 2]
    <2>3. a \in Nat
        BY SMTT(30), <2>2
    <2> HIDE DEF a
    <2>4. a * 256 + d[i + 3] \in Nat
        BY <2>2, <2>3
    <2> QED BY <2>1, <2>4 DEF a
<1> QED BY <1>2, <1>3, <1>4

(* It is the same in a longer buffer.                                      *)
LEMMA NumberKept ==
    ASSUME NEW d \in Seq(Nat), NEW e \in Seq(Nat), Extends(e, d),
           NEW i \in Nat, NEW w \in 1..3, i + w <= Len(d)
    PROVE  Number(e, i, w) = Number(d, i, w)
<1>1. \A k \in 1..w : e[i + k] = d[i + k]
    BY DEF Extends
<1>2. CASE w = 1
    BY <1>1, <1>2 DEF Number
<1>3. CASE w = 2
    BY <1>1, <1>3 DEF Number
<1>4. CASE w = 3
    <2>1. e[i + 1] = d[i + 1] /\ e[i + 2] = d[i + 2] /\ e[i + 3] = d[i + 3]
        BY <1>1, <1>4
    <2>2. \A c : Number(c, i, w) = (c[i + 1] * 256 + c[i + 2]) * 256 + c[i + 3]
        BY <1>4 DEF Number
    <2> QED BY <2>1, <2>2, ZenonT(40)
<1> QED BY <1>2, <1>3, <1>4

(* Whether a field fits, and that it still does in a longer buffer.        *)
LEMMA HasKept ==
    ASSUME NEW d \in Seq(Nat), NEW e \in Seq(Nat), Extends(e, d), NEW i \in Nat, NEW n \in Nat
    PROVE  /\ Has(d, i, n) <=> i + n <= Len(d)
           /\ Has(d, i, n) => Has(e, i, n)
BY DEF Has, Extends

(* The sizes of the TLS headers.                                           *)
LEMMA TlsSizes ==
    RecordHeader = 5 /\ HandshakeHeader = 4 /\ Handshake = 22 /\ ClientHello = 1
BY DEF RecordHeader, HandshakeHeader, Handshake, ClientHello

(* The cases of app_tls_decode_client_hello.                               *)
TlsCasesHold(d) ==
    LET v == app_tls_decode_client_hello(d)
        r == Number(d, 3, 2)
        h == Number(d, 6, 3)
    IN  /\ d = <<>> \/ d[1] # 22 => v = Verdict("NO_MATCH")
        /\ d # <<>> /\ d[1] = 22 =>
              /\ Len(d) < 5 => v = Verdict("NEED_MORE")
              /\ ~(Len(d) < 5) =>
                    /\ d[2] # 3 => v = Verdict("NO_MATCH")
                    /\ d[2] = 3 =>
                          /\ ~Has(d, 5, r) => v = Verdict("NEED_MORE")
                          /\ Has(d, 5, r) =>
                                /\ r < 4 => v = Verdict("MALFORMED")
                                /\ ~(r < 4) =>
                                      /\ d[6] # 1 => v = Verdict("NO_MATCH")
                                      /\ d[6] = 1 =>
                                            /\ h > r - 4 => v = Verdict("NEED_MORE")
                                            /\ ~(h > r - 4) =>
                                                  v = parse_client_hello_body(Bytes(d, 9, h),
                                                                              Bytes(d, 1, 2))

(* They are the cases.                                                     *)
LEMMA TlsCases ==
    ASSUME NEW d
    PROVE  TlsCasesHold(d)
<1>1. 5 + 1 = 6 /\ 5 + 4 = 9
    OBVIOUS
<1> QED BY <1>1, TlsSizes, Zenon DEF TlsCasesHold, app_tls_decode_client_hello

(* A record that is complete is decoded for good: what follows it changes  *)
(* no verdict but NEED_MORE.                                               *)
LEMMA TlsFinal ==
    ASSUME NEW d \in Seq(Nat), NEW e \in Seq(Nat), Extends(e, d), d # <<>>,
           app_tls_decode_client_hello(d).result # "NEED_MORE"
    PROVE  app_tls_decode_client_hello(e) = app_tls_decode_client_hello(d)
<1> DEFINE v == app_tls_decode_client_hello(d)
           u == app_tls_decode_client_hello(e)
<1>0. v # Verdict("NEED_MORE")
    BY VerdictResult
<1>1. TlsCasesHold(d) /\ TlsCasesHold(e)
    BY TlsCases
<1>2. /\ Len(d) \in Nat /\ Len(e) \in Nat /\ Len(d) <= Len(e) /\ Len(d) # 0
      /\ \A k \in 1..Len(d) : e[k] = d[k]
    BY DEF Extends
<1>3. e # <<>> /\ e[1] = d[1]
    BY <1>2
<1>4. CASE d[1] # 22
    BY <1>1, <1>3, <1>4, Zenon DEF TlsCasesHold
<1>5. CASE d[1] = 22
    <2>1. ~(Len(d) < 5)
        BY <1>0, <1>1, <1>5, Zenon DEF TlsCasesHold
    <2>2. ~(Len(e) < 5) /\ e[2] = d[2]
        BY <1>2, <2>1
    <2>3. CASE d[2] # 3
        BY <1>1, <1>3, <1>5, <2>1, <2>2, <2>3, Zenon DEF TlsCasesHold
    <2>4. CASE d[2] = 3
        <3> DEFINE r == Number(d, 3, 2)
                   h == Number(d, 6, 3)
        <3>0. 3 \in Nat /\ 2 \in 1..3 /\ 3 + 2 <= Len(d) /\ 5 \in Nat
            BY <1>2, <2>1
        <3>1. r \in Nat /\ Number(e, 3, 2) = r
            BY <3>0, NumberIs, NumberKept, Zenon
        <3>2. Has(d, 5, r)
            BY <1>0, <1>1, <1>5, <2>1, <2>4, Zenon DEF TlsCasesHold
        <3>3. Has(e, 5, r) /\ 5 + r <= Len(d)
            BY <3>0, <3>1, <3>2, HasKept
        <3>4. CASE r < 4
            BY <1>1, <1>3, <1>5, <2>1, <2>2, <2>4, <3>1, <3>2, <3>3, <3>4, Zenon
               DEF TlsCasesHold
        <3>5. CASE ~(r < 4)
            <4>0. 6 \in Nat /\ 3 \in 1..3 /\ 6 + 3 <= Len(d) /\ 6 \in 1..Len(d) /\ 9 \in Nat
                <5>1. r \in Nat /\ 5 + r <= Len(d) /\ ~(r < 4)
                    BY <3>1, <3>3, <3>5
                <5> HIDE DEF r
                <5>2. 9 <= Len(d)
                    BY <1>2, <5>1
                <5> QED BY <1>2, <5>2
            <4>1. e[6] = d[6]
                BY <1>2, <4>0
            <4>2. CASE d[6] # 1
                BY <1>1, <1>3, <1>5, <2>1, <2>2, <2>4, <3>1, <3>2, <3>3, <3>5, <4>1, <4>2, Zenon
                   DEF TlsCasesHold
            <4>3. CASE d[6] = 1
                <5>1. h \in Nat /\ Number(e, 6, 3) = h
                    BY <4>0, NumberIs, NumberKept, Zenon
                <5>2. ~(h > r - 4)
                    BY <1>0, <1>1, <1>5, <2>1, <2>4, <3>2, <3>5, <4>3, Zenon DEF TlsCasesHold
                <5>3. 9 + h <= Len(d) /\ 1 + 2 <= Len(d) /\ 1 \in Nat /\ 2 \in Int /\ h \in Int
                    <6>1. r \in Nat /\ h \in Nat /\ 5 + r <= Len(d) /\ ~(h > r - 4) /\ 6 + 3 <= Len(d)
                        BY <3>1, <3>3, <4>0, <5>1, <5>2
                    <6> HIDE DEF r, h
                    <6> QED BY <1>2, <6>1
                <5>4. Bytes(e, 9, h) = Bytes(d, 9, h) /\ Bytes(e, 1, 2) = Bytes(d, 1, 2)
                    <6> HIDE DEF h
                    <6> QED BY <4>0, <5>3, BytesKept, Zenon
                <5>5. v = parse_client_hello_body(Bytes(d, 9, h), Bytes(d, 1, 2))
                    BY <1>1, <1>5, <2>1, <2>4, <3>2, <3>5, <4>3, <5>2, Zenon DEF TlsCasesHold
                <5>6. u = parse_client_hello_body(Bytes(e, 9, h), Bytes(e, 1, 2))
                    BY <1>1, <1>3, <1>5, <2>2, <2>4, <3>1, <3>3, <3>5, <4>1, <4>3, <5>1, <5>2,
                       Zenon DEF TlsCasesHold
                <5> QED BY <5>4, <5>5, <5>6, Zenon
            <4> QED BY <4>2, <4>3
        <3> QED BY <3>4, <3>5
    <2> QED BY <2>3, <2>4
<1> QED BY <1>4, <1>5

(* A stream that starts with a TLS record does not look like HTTP.         *)
LEMMA HandshakeIsNotHttp ==
    ASSUME NEW d \in Seq(Nat), d # <<>>, d[1] = 22
    PROVE  ~looks_like_http(d) /\ ~maybe_http_request_prefix(d)
<1>1. Len(d) \in Nat /\ Len(d) # 0
    OBVIOUS
<1>2. ~Extends(d, StatusMark)
    <2>1. StatusMark[1] # 22 /\ 1 \in 1..Len(StatusMark)
        BY Words, LettersAre
    <2> QED BY <2>1 DEF Extends
<1>3. ASSUME NEW m \in Methods PROVE ~Extends(d, m) /\ ~Extends(m, d)
    <2>1. 1 \in 1..Len(m) /\ 1 \in 1..Len(d) /\ m[1] \in Letters
        BY <1>1, Words
    <2>2. m[1] # 22
        BY <2>1, LettersAre
    <2> QED BY <2>1, <2>2 DEF Extends
<1> QED BY <1>2, <1>3, HttpStarts

----------------------------------------------------------------------------
(* DNS on a growing stream.                                                *)

\* What is read at the places behind <<k, p>> of d is also read in e.
LaterKept(d, f, g, k, p) ==
    \A j \in 0..MaxDepth, q \in 0..Len(d) :
        Later(j, q, k, p) /\ f[<<j, q>>] # Bad => g[<<j, q>>] = f[<<j, q>>]

(* A name that ends inside a message is read from a longer one as well,    *)
(* if this holds of the rest of the name.                                  *)
LEMMA NameStepKept ==
    ASSUME NEW d \in Seq(Nat), NEW e \in Seq(Nat), Extends(e, d), NEW f, NEW g,
           NEW k \in 0..MaxDepth, NEW p \in 0..Len(d),
           LaterKept(d, f, g, k, p), NameFrom(d, f, k, p) # Bad
    PROVE  NameFrom(e, g, k, p) = NameFrom(d, f, k, p)
<1> DEFINE n == d[p + 1]
           t == Target(d, p)
<1>0. /\ Len(d) \in Nat /\ Len(e) \in Nat /\ Len(d) <= Len(e)
      /\ \A i \in 1..Len(d) : e[i] = d[i] /\ d[i] \in Nat
      /\ p \in 0..Len(e) /\ MaxDepth \in Nat
      /\ Reserved \in Nat \ {0} /\ PointerBase \in Nat /\ Reserved < PointerBase
    BY DnsAssumption DEF Extends
<1>1. NameCases(d, f, k, p) /\ NameCases(e, g, k, p)
    BY <1>0, NameFromCases
<1>2. p # Len(d)
    BY <1>1 DEF NameCases
<1>3. p < Len(d) /\ p < Len(e) /\ p + 1 \in 1..Len(d)
    BY <1>0, <1>2
<1>4. n \in Nat /\ e[p + 1] = n
    BY <1>0, <1>3
<1> HIDE DEF n, t
<1>5. CASE n = 0
    BY <1>1, <1>3, <1>4, <1>5, Zenon DEF NameCases, n
<1>6. CASE n \in Reserved..(PointerBase - 1)
    BY <1>1, <1>3, <1>6, Zenon DEF NameCases, n
<1>7. CASE n \in 1..(Reserved - 1)
    <2>0. ~(p + 1 + n > Len(d))
        BY <1>1, <1>3, <1>7, Zenon DEF NameCases, n
    <2>1. p + 1 + n <= Len(d) /\ p + 1 + n <= Len(e) /\ p + 1 + n \in 0..Len(d)
        BY SMTT(30), <1>0, <1>4, <2>0
    <2> DEFINE label == SubSeq(d, p + 2, p + 1 + n)
               rest == f[<<k, p + 1 + n>>]
    <2>2. SubSeq(e, p + 2, p + 1 + n) = label
        <3>1. (p + 1) + 1 = p + 2 /\ (p + 1) + n = p + 1 + n /\ p + 1 \in Nat /\ n \in Int
            BY <1>4
        <3>2. Bytes(e, p + 1, n) = Bytes(d, p + 1, n)
            BY <2>1, <3>1, BytesKept
        <3> QED BY <3>1, <3>2 DEF Bytes
    <2>3. NameFrom(d, f, k, p) = Joined(label, rest)
        BY <1>1, <1>3, <1>7, <2>1, Zenon DEF NameCases, n
    <2>4. NameFrom(e, g, k, p) = Joined(SubSeq(e, p + 2, p + 1 + n), g[<<k, p + 1 + n>>])
        BY <1>1, <1>3, <1>4, <1>7, <2>1, Zenon DEF NameCases, n
    <2>5. rest # Bad
        BY <2>3, JoinedCases
    <2>6. Later(k, p + 1 + n, k, p)
        BY <1>0, <1>7 DEF Later
    <2>7. g[<<k, p + 1 + n>>] = rest
        BY <2>1, <2>5, <2>6, Zenon DEF LaterKept
    <2> QED BY <2>2, <2>3, <2>4, <2>7, Zenon
<1>8. CASE n >= PointerBase
    <2>1. ~(k = 0) /\ ~(p + 1 = Len(d)) /\ ~(t >= Len(d))
        BY <1>1, <1>3, <1>8, Zenon DEF NameCases, n, t
    <2>2. p + 1 < Len(d) /\ p + 1 < Len(e) /\ p + 2 \in 1..Len(d)
        BY <1>0, <1>3, <2>1
    <2>3. Target(e, p) = t
        BY <1>0, <1>4, <2>2 DEF Target, t, n
    <2>4. t \in Nat
        <3>1. d[p + 2] \in Nat
            BY <1>0, <2>2
        <3>2. t = (n - PointerBase) * 256 + d[p + 2] /\ n - PointerBase \in Nat
            BY SMTT(30), <1>0, <1>4, <1>8 DEF Target, t, n
        <3> DEFINE a == n - PointerBase
        <3> HIDE DEF a
        <3>3. a * 256 + d[p + 2] \in Nat
            BY SMTT(30), <3>1, <3>2 DEF a
        <3> QED BY <3>2, <3>3 DEF a
    <2>5. t < Len(d) /\ t < Len(e) /\ t \in 0..Len(d) /\ k - 1 \in 0..MaxDepth
        BY <1>0, <2>1, <2>4
    <2>6. NameFrom(d, f, k, p) = f[<<k - 1, t>>]
        BY <1>1, <1>8, <2>1, <2>2, <2>5, Zenon DEF NameCases, n, t
    <2>7. NameFrom(e, g, k, p) = g[<<k - 1, t>>]
        BY <1>1, <1>4, <1>8, <2>1, <2>2, <2>3, <2>5, Zenon DEF NameCases, n
    <2>8. Later(k - 1, t, k, p)
        BY DEF Later
    <2>9. g[<<k - 1, t>>] = f[<<k - 1, t>>]
        BY <2>5, <2>6, <2>8, Zenon DEF LaterKept
    <2> QED BY <2>6, <2>7, <2>9, Zenon
<1>9. \/ n = 0 \/ n \in Reserved..(PointerBase - 1) \/ n \in 1..(Reserved - 1) \/ n >= PointerBase
    BY <1>0, <1>4
<1> QED BY <1>5, <1>6, <1>7, <1>8, <1>9

(* A name that ends inside a message is the same in a longer one.          *)
LEMMA NamesKept ==
    ASSUME NEW d \in Seq(Nat), NEW e \in Seq(Nat), Extends(e, d)
    PROVE  \A k \in 0..MaxDepth, p \in 0..Len(d) :
               Names(d)[<<k, p>>] # Bad => Names(e)[<<k, p>>] = Names(d)[<<k, p>>]
<1> DEFINE f == Names(d)
           g == Names(e)
           rank == Rank(d)
           Wrong == {x \in Places(d) : f[x] # Bad /\ g[x] # f[x]}
           T == {rank[x] : x \in Wrong}
<1>0. Len(d) \in Nat /\ Len(e) \in Nat /\ Len(d) <= Len(e)
    BY DEF Extends
<1>1. \A k \in 0..MaxDepth, p \in 0..Len(d) : f[<<k, p>>] = NameFrom(d, f, k, p)
    BY NamesUnfold
<1>2. \A k \in 0..MaxDepth, p \in 0..Len(e) : g[<<k, p>>] = NameFrom(e, g, k, p)
    BY NamesUnfold
<1>3. /\ rank \in [Places(d) -> Nat]
      /\ \A k, j \in 0..MaxDepth, p, q \in 0..Len(d) :
            Later(j, q, k, p) => rank[<<j, q>>] < rank[<<k, p>>]
    BY RankFacts
<1>4. \A k \in 0..MaxDepth, p \in 0..Len(d) : <<k, p>> \in Places(d)
    BY DEF Places
<1>5. \A x \in Places(d) : \E k \in 0..MaxDepth, p \in 0..Len(d) : x = <<k, p>>
    BY DEF Places
<1> HIDE DEF f, g, rank
<1>6. Wrong = {}
    <2> SUFFICES ASSUME Wrong # {} PROVE FALSE
        OBVIOUS
    <2>1. T \in SUBSET Nat /\ T # {}
        BY <1>3
    <2>2. PICK r \in T : \A s \in T : r <= s
        <3> HIDE DEF T
        <3> QED BY <2>1, LeastNumber
    <2>3. PICK x \in Wrong : rank[x] = r
        OBVIOUS
    <2>4. PICK k \in 0..MaxDepth, p \in 0..Len(d) : x = <<k, p>>
        BY <1>5
    <2>5. LaterKept(d, f, g, k, p)
        <3> SUFFICES ASSUME NEW j \in 0..MaxDepth, NEW q \in 0..Len(d),
                            Later(j, q, k, p), f[<<j, q>>] # Bad, g[<<j, q>>] # f[<<j, q>>]
                     PROVE  FALSE
            BY DEF LaterKept
        <3>1. <<j, q>> \in Wrong
            BY <1>4
        <3>2. rank[<<j, q>>] < rank[<<k, p>>]
            BY <1>3
        <3>3. rank[<<j, q>>] \in T /\ rank[<<j, q>>] \in Nat /\ rank[<<k, p>>] \in Nat
            BY <1>3, <1>4, <3>1
        <3>4. rank[<<k, p>>] <= rank[<<j, q>>]
            <4> HIDE DEF T
            <4> QED BY <2>2, <2>3, <2>4, <3>3
        <3> QED BY <3>2, <3>3, <3>4
    <2>6. f[x] = NameFrom(d, f, k, p) /\ g[x] = NameFrom(e, g, k, p)
        <3>1. p \in 0..Len(e)
            BY <1>0
        <3> QED BY <1>1, <1>2, <2>4, <3>1
    <2>7. NameFrom(d, f, k, p) # Bad /\ g[x] # f[x]
        BY <2>6
    <2> QED BY <2>5, <2>6, <2>7, NameStepKept
<1> QED
    BY <1>4, <1>6 DEF f, g

(* Nor does the place where it ends in the message change.                 *)
LEMMA EndsKept ==
    ASSUME NEW d \in Seq(Nat), NEW e \in Seq(Nat), Extends(e, d)
    PROVE  \A p \in 0..Len(d) :
               /\ Ends(d)[p] \in Nat
               /\ Ends(d)[p] = Len(d) + 1 \/ Ends(e)[p] = Ends(d)[p]
<1> DEFINE f == Ends(d)
           g == Ends(e)
           L == Len(d)
           Good(p) == f[p] \in Nat /\ (f[p] = L + 1 \/ g[p] = f[p])
           T == {k \in 0..L : ~Good(L - k)}
<1>0. /\ Len(d) \in Nat /\ Len(e) \in Nat /\ Len(d) <= Len(e) /\ PointerBase \in Nat
      /\ \A i \in 1..Len(d) : e[i] = d[i] /\ d[i] \in Nat
    BY DnsAssumption DEF Extends
<1>1. \A p \in 0..Len(d) : f[p] = EndFrom(d, f, p)
    BY EndsUnfold
<1>2. \A p \in 0..Len(e) : g[p] = EndFrom(e, g, p)
    BY EndsUnfold
<1> HIDE DEF f, g
<1>3. T = {}
    <2> SUFFICES ASSUME T # {} PROVE FALSE
        OBVIOUS
    <2>1. T \in SUBSET Nat
        OBVIOUS
    <2>2. PICK k \in T : \A j \in T : k <= j
        <3> HIDE DEF T
        <3> QED BY <2>1, LeastNumber
    <2> DEFINE p == L - k
               n == d[p + 1]
    <2>3. p \in 0..Len(d) /\ p \in 0..Len(e) /\ ~Good(p) /\ k \in 0..L
        BY <1>0
    <2>4. \A q \in 0..Len(d) : q > p => Good(q)
        <3> SUFFICES ASSUME NEW q \in 0..Len(d), q > p PROVE Good(q)
            OBVIOUS
        <3>1. L - q \in 0..L /\ ~(k <= L - q) /\ L - (L - q) = q
            <4>1. L \in Nat /\ q \in 0..L /\ q > L - k /\ k \in 0..L
                BY <1>0, <2>3
            <4> HIDE DEF L, Good, T
            <4> QED BY <4>1
        <3>2. L - q \notin T
            <4> HIDE DEF T
            <4> QED BY <2>2, <3>1
        <3> HIDE DEF Good
        <3> QED BY <3>1, <3>2
    <2>5. /\ f[p] = EndFrom(d, f, p) /\ g[p] = EndFrom(e, g, p)
        BY <1>1, <1>2, <2>3
    <2> HIDE DEF p, T
    <2>6. CASE p = Len(d)
        <3>1. f[p] = Len(d) + 1
            BY <2>5, <2>6 DEF EndFrom
        <3> QED BY <1>0, <2>3, <3>1
    <2>7. CASE p # Len(d)
        <3>1. p + 1 \in 1..Len(d) /\ n \in Nat /\ e[p + 1] = n /\ p # Len(e)
            BY <1>0, <2>3, <2>7
        <3> HIDE DEF n
        <3>2. /\ f[p] = IF n = 0 THEN p + 1 ELSE IF n >= PointerBase THEN p + 2
                        ELSE IF p + 1 + n > Len(d) THEN Len(d) + 1 ELSE f[p + 1 + n]
              /\ g[p] = IF n = 0 THEN p + 1 ELSE IF n >= PointerBase THEN p + 2
                        ELSE IF p + 1 + n > Len(e) THEN Len(e) + 1 ELSE g[p + 1 + n]
            BY <2>5, <2>7, <3>1, Zenon DEF EndFrom, n
        <3>3. CASE n = 0 \/ n >= PointerBase
            <4>1. f[p] = g[p] /\ f[p] \in Nat
                BY <2>3, <3>2, <3>3
            <4> QED BY <2>3, <4>1
        <3>4. CASE ~(n = 0 \/ n >= PointerBase) /\ p + 1 + n > Len(d)
            <4>1. f[p] = Len(d) + 1
                BY <3>2, <3>4
            <4> QED BY <1>0, <2>3, <4>1
        <3>5. CASE ~(n = 0 \/ n >= PointerBase) /\ ~(p + 1 + n > Len(d))
            <4> DEFINE q == p + 1 + n
            <4>0. /\ Len(d) \in Nat /\ Len(e) \in Nat /\ Len(d) <= Len(e)
                  /\ p \in Nat /\ n \in Nat /\ ~(p + 1 + n > Len(d))
                BY <1>0, <2>3, <3>1, <3>5
            <4>1. q \in 0..Len(d) /\ q > p /\ ~(q > Len(e)) /\ ~(q > Len(d))
                <5> HIDE DEF L, Good
                <5> QED BY <4>0
            <4>2. f[p] = f[q] /\ g[p] = g[q]
                BY <3>2, <3>5, <4>1
            <4> HIDE DEF q, Good
            <4>3. Good(q)
                BY <2>4, <4>1
            <4> QED BY <2>3, <4>2, <4>3 DEF Good
        <3> QED BY <3>3, <3>4, <3>5
    <2> QED BY <2>6, <2>7
<1>4. ASSUME NEW p \in 0..Len(d) PROVE Good(p)
    <2>1. L - p \in 0..L /\ L - (L - p) = p
        BY <1>0
    <2> HIDE DEF Good
    <2> QED BY <1>3, <2>1
<1> QED BY <1>4 DEF f, g

(* A question is decoded for good, and so is a message without one.        *)
LEMMA DnsFinal ==
    ASSUME NEW d \in Seq(Nat), NEW e \in Seq(Nat), Extends(e, d), DnsVerdict(d).result = "OK"
    PROVE  DnsVerdict(e) = DnsVerdict(d) /\ Len(d) >= HeaderLen
<1>0. /\ Len(d) \in Nat /\ Len(e) \in Nat /\ Len(d) <= Len(e)
      /\ HeaderLen \in Nat \ {0} /\ CountAt \in 1..HeaderLen /\ MaxCount \in Nat
      /\ TailLen \in Nat /\ MaxDepth \in Nat
      /\ \A i \in 1..Len(d) : e[i] = d[i] /\ d[i] \in Nat
    BY DnsAssumption DEF Extends
<1>1. d # <<>> /\ ~(Len(d) < HeaderLen)
    BY Verdicts
<1>2. Len(d) >= HeaderLen /\ Len(e) >= HeaderLen /\ CountAt \in 1..Len(d)
    BY <1>0, <1>1
<1>3. e[CountAt] = d[CountAt] /\ d[CountAt] \in Nat
    BY <1>0, <1>2
<1>4. ~(d[CountAt] > MaxCount)
    BY <1>2, Verdicts
<1>5. CASE d[CountAt] = 0
    BY <1>2, <1>3, <1>5, Verdicts
<1>6. CASE d[CountAt] # 0
    <2>1. d[CountAt] \in 1..MaxCount
        BY <1>0, <1>3, <1>4, <1>6
    <2>2. GoodQuestion(d)
        BY <1>2, <2>1, Verdicts
    <2>3. HeaderLen \in 0..Len(d) /\ MaxDepth \in 0..MaxDepth
        BY <1>0, <1>2
    <2>4. NameAt(e) = NameAt(d)
        BY <2>2, <2>3, NamesKept DEF NameAt, GoodQuestion
    <2>5. InlineEnd(d) \in Nat /\ (InlineEnd(d) = Len(d) + 1 \/ InlineEnd(e) = InlineEnd(d))
        BY <2>3, EndsKept DEF InlineEnd
    <2>6. InlineEnd(d) + TailLen <= Len(d)
        BY <2>2 DEF GoodQuestion
    <2>7. InlineEnd(e) = InlineEnd(d) /\ InlineEnd(d) + TailLen <= Len(e)
        BY <1>0, <2>5, <2>6
    <2>8. GoodQuestion(e) /\ WholeName(e) = WholeName(d)
        BY <2>2, <2>4, <2>7 DEF GoodQuestion, WholeName
    <2> QED BY <1>2, <1>3, <2>1, <2>2, <2>8, Verdicts
<1> QED BY <1>5, <1>6

(* The same for what the dispatch makes of a message.                      *)
LEMMA DnsAsFinal ==
    ASSUME NEW d \in Seq(Nat), NEW e \in Seq(Nat), Extends(e, d), NEW protocol,
           decode_dns_message_as(d, protocol).result = "OK"
    PROVE  decode_dns_message_as(e, protocol) = decode_dns_message_as(d, protocol)
           /\ Len(d) >= HeaderLen
<1>1. \A m : decode_dns_message_as(m, protocol) =
                 IF DnsVerdict(m).result # "OK" THEN Verdict(DnsVerdict(m).result)
                 ELSE Decoded(protocol, [query |-> Text(DnsVerdict(m).name)])
    BY DEF decode_dns_message_as
<1>2. DnsVerdict(d).result = "OK"
    BY <1>1, VerdictResult, Zenon
<1>3. DnsVerdict(e) = DnsVerdict(d) /\ Len(d) >= HeaderLen
    BY <1>2, DnsFinal
<1> QED BY <1>1, <1>3, Zenon

(* An unframed message with a question is recognised for good.             *)
LEMMA StrongDnsFinal ==
    ASSUME NEW d \in Seq(Nat), NEW e \in Seq(Nat), Extends(e, d), StrongDns(d).result = "OK"
    PROVE  StrongDns(e) = StrongDns(d) /\ Len(d) >= HeaderLen
<1>1. \A m : LET v == decode_dns_message_as(m, "DNS")
             IN  StrongDns(m) = IF v.result = "OK" /\ "query" \in DOMAIN v.app.fields THEN v
                                ELSE Verdict("NO_MATCH")
    BY DEF StrongDns
<1>2. Verdict("NO_MATCH").result # "OK"
    BY VerdictResult
<1>3. decode_dns_message_as(d, "DNS").result = "OK"
    BY <1>1, <1>2, Zenon
<1>4. decode_dns_message_as(e, "DNS") = decode_dns_message_as(d, "DNS") /\ Len(d) >= HeaderLen
    BY <1>3, DnsAsFinal
<1> QED BY <1>1, <1>4, Zenon

(* A complete frame is decoded for good.                                   *)
LEMMA FrameFinal ==
    ASSUME NEW d \in Seq(Nat), NEW e \in Seq(Nat), Extends(e, d), d # <<>>,
           app_dns_decode_tcp_frame(d).result # "NEED_MORE"
    PROVE  app_dns_decode_tcp_frame(e) = app_dns_decode_tcp_frame(d)
<1> DEFINE n == Number(d, 0, 2)
           v == app_dns_decode_tcp_frame(d)
<1>0. v # Verdict("NEED_MORE")
    BY VerdictResult
<1>1. Len(d) \in Nat /\ Len(e) \in Nat /\ Len(d) <= Len(e) /\ Len(d) # 0 /\ e # <<>>
    BY DEF Extends
<1>2. ~(Len(d) < 2)
    BY <1>0, Zenon DEF app_dns_decode_tcp_frame
<1>3. ~(Len(e) < 2) /\ 0 \in Nat /\ 2 \in 1..3 /\ 0 + 2 <= Len(d) /\ 2 \in Nat
    BY <1>1, <1>2
<1>4. n \in Nat /\ Number(e, 0, 2) = n
    BY <1>3, NumberIs, NumberKept, Zenon
<1>5. CASE n = 0
    BY <1>1, <1>2, <1>3, <1>4, <1>5, Zenon DEF app_dns_decode_tcp_frame
<1>6. CASE n # 0
    <2>1. Has(d, 2, n)
        BY <1>0, <1>2, <1>6, Zenon DEF app_dns_decode_tcp_frame
    <2> HIDE DEF n
    <2>2. Has(e, 2, n) /\ 2 + n <= Len(d) /\ n \in Int
        BY <1>3, <1>4, <2>1, HasKept
    <2>3. Bytes(e, 2, n) = Bytes(d, 2, n)
        <3> HIDE DEF n
        <3> QED BY <1>3, <2>2, BytesKept, Zenon
    <2>4. v = decode_dns_message_as(Bytes(d, 2, n), "DNS")
        BY <1>2, <1>6, <2>1, Zenon DEF app_dns_decode_tcp_frame, n
    <2>5. app_dns_decode_tcp_frame(e) = decode_dns_message_as(Bytes(e, 2, n), "DNS")
        BY <1>1, <1>3, <1>4, <1>6, <2>2, Zenon DEF app_dns_decode_tcp_frame
    <2> QED BY <2>3, <2>4, <2>5, Zenon
<1> QED BY <1>5, <1>6

----------------------------------------------------------------------------
(* The dispatch on a growing stream.                                       *)

(* The cases of app_decode_buffer.                                         *)
LEMMA BufferCases ==
    ASSUME NEW d, d # <<>>
    PROVE  LET http == app_http_decode(d)
               tls == app_tls_decode_client_hello(d)
           IN  /\ http.result \in {"OK", "NEED_MORE"} => app_decode_buffer(d) = http
               /\ http.result \notin {"OK", "NEED_MORE"} /\ tls.result \in {"OK", "NEED_MORE"}
                     => app_decode_buffer(d) = tls
               /\ http.result \notin {"OK", "NEED_MORE"} /\ tls.result \notin {"OK", "NEED_MORE"}
                     => app_decode_buffer(d) = StrongDns(d)
BY Zenon DEF app_decode_buffer

(* What a TLS record is not: anything but a buffer that starts with 22.    *)
LEMMA TlsStart ==
    ASSUME NEW d, d # <<>>, app_tls_decode_client_hello(d).result # "NO_MATCH"
    PROVE  d[1] = 22
<1>1. app_tls_decode_client_hello(d) # Verdict("NO_MATCH")
    BY VerdictResult
<1> QED BY <1>1, TlsCases, Zenon DEF TlsCasesHold

(* What the sniffer recognises in a stream it recognises for good.         *)
LEMMA BufferFinal ==
    ASSUME NEW d \in Seq(Nat), NEW e \in Seq(Nat), Extends(e, d), d # <<>>,
           app_decode_buffer(d).result = "OK"
    PROVE  app_decode_buffer(e) = app_decode_buffer(d)
<1> DEFINE http == app_http_decode(d)
           tls == app_tls_decode_client_hello(d)
           v == app_decode_buffer(d)
<1>1. Len(d) \in Nat /\ Len(e) \in Nat /\ Len(d) <= Len(e) /\ e # <<>> /\ e[1] = d[1]
    BY DEF Extends
<1>2. CASE http.result \in {"OK", "NEED_MORE"}
    <2>1. v = http
        BY <1>2, BufferCases, Zenon
    <2>2. http.result = "OK"
        BY <2>1
    <2>3. app_http_decode(e) = http
        BY <2>2, HttpFinal
    <2> QED BY <1>1, <1>2, <2>1, <2>3, BufferCases, Zenon
<1>3. CASE http.result \notin {"OK", "NEED_MORE"} /\ tls.result \in {"OK", "NEED_MORE"}
    <2>1. v = tls
        BY <1>3, BufferCases, Zenon
    <2>2. tls.result = "OK"
        BY <2>1
    <2>3. app_tls_decode_client_hello(e) = tls
        BY <2>2, TlsFinal
    <2>4. d[1] = 22
        BY <2>2, TlsStart
    <2>5. app_http_decode(e) = Verdict("NO_MATCH")
        BY <1>1, <2>4, HandshakeIsNotHttp, HttpCases
    <2>6. app_http_decode(e).result \notin {"OK", "NEED_MORE"}
        BY <2>5, VerdictResult
    <2> QED BY <1>1, <1>3, <2>1, <2>3, <2>6, BufferCases, Zenon
<1>4. CASE http.result \notin {"OK", "NEED_MORE"} /\ tls.result \notin {"OK", "NEED_MORE"}
    <2>1. v = StrongDns(d)
        BY <1>4, BufferCases, Zenon
    <2>2. StrongDns(e) = StrongDns(d) /\ Len(d) >= HeaderLen
        BY <2>1, StrongDnsFinal
    <2>3. app_tls_decode_client_hello(e) = tls
        BY <1>4, TlsFinal
    <2>4. app_http_decode(e).result \notin {"OK", "NEED_MORE"}
        <3>1. CASE looks_like_http(d)
            <4>1. Find(d, BlankLine) # -1
                BY <1>4, <3>1, HttpCases, VerdictResult
            <4>2. http.result \in {"OK", "MALFORMED"}
                BY <3>1, <4>1, HttpCases, HeadResults, Zenon
            <4>3. app_http_decode(e) = http
                BY <4>2, HttpFinal
            <4> QED BY <1>4, <4>3
        <3>2. CASE ~looks_like_http(d)
            <4>1. app_http_decode(e) = Verdict("NO_MATCH")
                BY <2>2, <3>2, NeverHttp, HttpCases
            <4> QED BY <4>1, VerdictResult
        <3> QED BY <3>1, <3>2
    <2> QED BY <1>1, <1>4, <2>1, <2>2, <2>3, <2>4, BufferCases, Zenon
<1> QED BY <1>2, <1>3, <1>4

(* The verdict OK on a stream is final.                                    *)
LEMMA StreamFinal ==
    ASSUME NEW d \in Seq(Nat), NEW e \in Seq(Nat), Extends(e, d), NEW ports,
           app_decode_stream(ports, d).result = "OK"
    PROVE  app_decode_stream(ports, e) = app_decode_stream(ports, d)
<1>1. d # <<>>
    <2>1. d = <<>> => app_decode_stream(ports, d) = Verdict("NO_MATCH")
        BY DEF app_decode_stream
    <2> QED BY <2>1, VerdictResult
<1>2. e # <<>>
    BY <1>1 DEF Extends
<1>3. \A v : Preferred(v).result = "OK" => v.result = "OK"
    BY VerdictResult, Zenon DEF Preferred
<1>4. CASE "http" \in ports
    <2>1. /\ app_decode_stream(ports, d) = Preferred(app_http_decode(d))
          /\ app_decode_stream(ports, e) = Preferred(app_http_decode(e))
        BY <1>1, <1>2, <1>4, Zenon DEF app_decode_stream
    <2>2. app_http_decode(d).result = "OK"
        BY <1>3, <2>1
    <2> QED BY <2>1, <2>2, HttpFinal
<1>5. CASE "http" \notin ports /\ "tls" \in ports
    <2>1. /\ app_decode_stream(ports, d) = Preferred(app_tls_decode_client_hello(d))
          /\ app_decode_stream(ports, e) = Preferred(app_tls_decode_client_hello(e))
        BY <1>1, <1>2, <1>5, Zenon DEF app_decode_stream
    <2>2. app_tls_decode_client_hello(d).result = "OK"
        BY <1>3, <2>1
    <2> QED BY <1>1, <2>1, <2>2, TlsFinal
<1>6. CASE "http" \notin ports /\ "tls" \notin ports /\ "dns" \in ports
    <2>1. /\ app_decode_stream(ports, d) = Preferred(app_dns_decode_tcp_frame(d))
          /\ app_decode_stream(ports, e) = Preferred(app_dns_decode_tcp_frame(e))
        BY <1>1, <1>2, <1>6, Zenon DEF app_decode_stream
    <2>2. app_dns_decode_tcp_frame(d).result = "OK"
        BY <1>3, <2>1
    <2> QED BY <1>1, <2>1, <2>2, FrameFinal
<1>7. CASE "http" \notin ports /\ "tls" \notin ports /\ "dns" \notin ports
    <2>1. /\ app_decode_stream(ports, d) = app_decode_buffer(d)
          /\ app_decode_stream(ports, e) = app_decode_buffer(e)
        BY <1>1, <1>2, <1>7, Zenon DEF app_decode_stream
    <2> QED BY <1>1, <2>1, BufferFinal
<1> QED BY <1>4, <1>5, <1>6, <1>7

----------------------------------------------------------------------------
(* Packets and streams agree.                                              *)

(* The dispatch on a growing packet.                                       *)

(* What the packet sniffer takes for HTTP.                                 *)
LEMMA SniffedStarts ==
    ASSUME NEW d \in Seq(Nat)
    PROVE  /\ payload_starts_with_http(d) <=>
                  \/ Extends(d, StatusMark)
                  \/ \E m \in Methods : Extends(d, Append(m, SP))
           /\ payload_starts_with_http(d) => looks_like_http(d)
<1>1. d \in Seq(Int)
    BY OctetsAreInts
<1>2. \A m \in Methods : /\ Append(m, SP) \in Seq(Int) /\ Len(Append(m, SP)) = Len(m) + 1
                         /\ \A i \in 1..Len(m) : Append(m, SP)[i] = m[i]
    BY Words DEF SP
<1>3. \A m \in Methods : IsPrefix(Append(m, SP), d) <=> Extends(d, Append(m, SP))
    BY <1>1, <1>2, PrefixIs, Zenon
<1>4. IsPrefix(StatusMark, d) <=> Extends(d, StatusMark)
    BY <1>1, Words, PrefixIs, Zenon
<1>5. \A m \in Methods : Extends(d, Append(m, SP)) => Extends(d, m)
    <2> SUFFICES ASSUME NEW m \in Methods, Extends(d, Append(m, SP))
                 PROVE  Extends(d, m)
        OBVIOUS
    <2> DEFINE w == Append(m, SP)
    <2>1. Len(m) \in Nat /\ Len(d) \in Nat /\ Len(w) = Len(m) + 1 /\ \A i \in 1..Len(m) : w[i] = m[i]
        BY <1>2, Words
    <2> HIDE DEF w
    <2>2. Len(w) <= Len(d) /\ \A i \in 1..Len(w) : d[i] = w[i]
        BY DEF w, Extends
    <2> QED BY <2>1, <2>2 DEF Extends
<1> QED BY <1>3, <1>4, <1>5, HttpStarts, Zenon DEF payload_starts_with_http

(* What starts like HTTP goes on so, and a longer start tells no more than *)
(* one as long as a DNS header.                                            *)
LEMMA StartKept ==
    ASSUME NEW d \in Seq(Nat), NEW e \in Seq(Nat), Extends(e, d)
    PROVE  /\ payload_starts_with_http(d) => payload_starts_with_http(e)
           /\ Len(d) >= HeaderLen /\ payload_starts_with_http(e) => payload_starts_with_http(d)
<1>1. \A m \in Methods : Append(m, SP) \in Seq(Nat) /\ Len(Append(m, SP)) = Len(m) + 1
    BY Words DEF SP
<1>2. \A m \in Methods : Append(m, SP) \in Seq(Nat) /\ Len(Append(m, SP)) <= HeaderLen
    BY <1>1, Words
<1>3. Len(d) >= HeaderLen => Len(StatusMark) <= Len(d)
                             /\ \A m \in Methods : Len(Append(m, SP)) <= Len(d)
    <2> SUFFICES ASSUME Len(d) >= HeaderLen, NEW m \in Methods
                 PROVE  Len(StatusMark) <= Len(d) /\ Len(Append(m, SP)) <= Len(d)
        BY Words
    <2>1. Len(Append(m, SP)) \in Nat /\ Len(Append(m, SP)) <= HeaderLen
        BY <1>1, <1>2, Words
    <2> QED BY SMTT(30), <2>1, Words
<1>4. StatusMark \in Seq(Nat)
    BY Words
<1> QED BY <1>2, <1>3, <1>4, SniffedStarts, WordKept, Zenon

(* The cases of the packet sniffer.                                        *)
LEMMA SniffCases ==
    ASSUME NEW d \in Seq(Nat), d # <<>>
    PROVE  LET tls == app_tls_decode_client_hello(d)
           IN  /\ payload_starts_with_http(d) => SniffPacket(d) = app_http_decode(d)
               /\ ~payload_starts_with_http(d) =>
                     /\ tls.result # "NO_MATCH" => SniffPacket(d) = tls
                     /\ tls.result = "NO_MATCH" => SniffPacket(d) = StrongDns(d)
<1>1. payload_starts_with_http(d) => app_http_decode(d).result # "NO_MATCH"
    BY SniffedStarts, HttpCases, VerdictResult, HeadResults, Zenon
<1>2. app_tls_decode_client_hello(d).result # "NO_MATCH" => d[1] = Handshake
    BY TlsStart, TlsSizes, Zenon
<1> QED BY <1>1, <1>2, Zenon DEF SniffPacket, SniffElse

(* What the packet sniffer recognises it recognises for good.              *)
LEMMA SniffFinal ==
    ASSUME NEW d \in Seq(Nat), NEW e \in Seq(Nat), Extends(e, d), d # <<>>,
           SniffPacket(d).result = "OK"
    PROVE  SniffPacket(e) = SniffPacket(d)
<1> DEFINE tls == app_tls_decode_client_hello(d)
<1>1. e # <<>> /\ e[1] = d[1]
    BY DEF Extends
<1>2. CASE payload_starts_with_http(d)
    <2>1. SniffPacket(d) = app_http_decode(d) /\ SniffPacket(e) = app_http_decode(e)
        BY <1>1, <1>2, SniffCases, StartKept, Zenon
    <2> QED BY <2>1, HttpFinal
<1>3. CASE ~payload_starts_with_http(d) /\ tls.result # "NO_MATCH"
    <2>1. SniffPacket(d) = tls
        BY <1>3, SniffCases, Zenon
    <2>2. app_tls_decode_client_hello(e) = tls
        BY <2>1, TlsFinal
    <2>3. d[1] = 22
        BY <1>3, TlsStart
    <2>4. ~payload_starts_with_http(e)
        BY <1>1, <2>3, HandshakeIsNotHttp, SniffedStarts
    <2> QED BY <1>1, <1>3, <2>1, <2>2, <2>4, SniffCases, Zenon
<1>4. CASE ~payload_starts_with_http(d) /\ tls.result = "NO_MATCH"
    <2>1. SniffPacket(d) = StrongDns(d)
        BY <1>4, SniffCases, Zenon
    <2>2. StrongDns(e) = StrongDns(d) /\ Len(d) >= HeaderLen
        BY <2>1, StrongDnsFinal
    <2>3. app_tls_decode_client_hello(e) = tls
        BY <1>4, TlsFinal
    <2>4. ~payload_starts_with_http(e)
        BY <1>4, <2>2, StartKept
    <2> QED BY <1>1, <1>4, <2>1, <2>2, <2>3, <2>4, SniffCases, Zenon
<1> QED BY <1>2, <1>3, <1>4

(* The two sniffing paths.                                                 *)
SameVerdict(v, p) == v.result = "NEED_MORE" \/ (v.result = "OK" /\ v.app = p.app)

(* What the packet path accepts, the stream path accepts with the same     *)
(* metadata, or is still waiting for: a method without its space is the    *)
(* exception.                                                              *)
LEMMA SniffersAgree ==
    ASSUME NEW d \in Seq(Nat), d # <<>>, SniffPacket(d).result = "OK",
           maybe_http_request_prefix(d) => payload_starts_with_http(d)
    PROVE  SameVerdict(app_decode_buffer(d), SniffPacket(d))
<1> DEFINE http == app_http_decode(d)
           tls == app_tls_decode_client_hello(d)
<1>1. CASE payload_starts_with_http(d)
    <2>1. SniffPacket(d) = http
        BY <1>1, SniffCases, Zenon
    <2>2. app_decode_buffer(d) = http
        BY <2>1, BufferCases, Zenon
    <2> QED BY <2>1, <2>2 DEF SameVerdict
<1>2. CASE ~payload_starts_with_http(d)
    <2>1. ~looks_like_http(d)
        BY <1>2, SniffedStarts, HttpStarts, Zenon
    <2>2. http.result = "NO_MATCH"
        BY <2>1, HttpCases, VerdictResult
    <2>3. CASE tls.result # "NO_MATCH"
        <3>1. SniffPacket(d) = tls
            BY <1>2, <2>3, SniffCases, Zenon
        <3>2. app_decode_buffer(d) = tls
            BY <2>2, <3>1, BufferCases
        <3> QED BY <3>1, <3>2 DEF SameVerdict
    <2>4. CASE tls.result = "NO_MATCH"
        <3>1. SniffPacket(d) = StrongDns(d)
            BY <1>2, <2>4, SniffCases, Zenon
        <3>2. app_decode_buffer(d) = StrongDns(d)
            BY <2>2, <2>4, BufferCases
        <3> QED BY <3>1, <3>2 DEF SameVerdict
    <2> QED BY <2>3, <2>4
<1> QED BY <1>1, <1>2

(* A packet and a stream of the same octets are decoded alike.             *)
LEMMA PacketAgrees ==
    ASSUME NEW d \in Seq(Nat), NEW ports, app_decode_packet("tcp", ports, d).result = "OK",
           maybe_http_request_prefix(d) => payload_starts_with_http(d)
    PROVE  SameVerdict(app_decode_stream(ports, d), app_decode_packet("tcp", ports, d))
<1>1. d # <<>>
    BY VerdictResult DEF app_decode_packet
<1>2. CASE ports \cap {"http", "tls", "dns"} # {}
    <2>1. app_decode_packet("tcp", ports, d) = app_decode_stream(ports, d)
        BY <1>1, <1>2, Zenon DEF app_decode_packet
    <2> QED BY <2>1 DEF SameVerdict
<1>3. CASE ports \cap {"http", "tls", "dns"} = {}
    <2>1. app_decode_packet("tcp", ports, d) = SniffPacket(d)
        <3>1. "tcp" # "udp"
            OBVIOUS
        <3> QED BY <1>1, <1>3, <3>1, Zenon DEF app_decode_packet
    <2>2. "http" \notin ports /\ "tls" \notin ports /\ "dns" \notin ports
        BY <1>3
    <2>3. app_decode_stream(ports, d) = app_decode_buffer(d)
        BY <1>1, <2>2, Zenon DEF app_decode_stream
    <2> QED BY <1>1, <2>1, <2>3, SniffersAgree
<1> QED BY <1>2, <1>3

----------------------------------------------------------------------------
(* Datagrams.                                                              *)

(* A connection id that is there stays.                                    *)
LEMMA IdKept ==
    ASSUME NEW d \in Seq(Nat), NEW e \in Seq(Nat), Extends(e, d), NEW i \in Nat,
           IdVerdict(d, i) = "OK"
    PROVE  /\ IdVerdict(e, i) = "OK" /\ e[i + 1] = d[i + 1] /\ d[i + 1] \in Nat
           /\ i + 1 + d[i + 1] <= Len(d)
<1>1. /\ "NEED_MORE" # "OK" /\ "MALFORMED" # "OK" /\ 1 \in Nat /\ Len(d) \in Nat
      /\ i + 1 \in Nat
    OBVIOUS
<1>2. Has(d, i, 1) /\ ~(d[i + 1] > CidMax) /\ Has(d, i + 1, d[i + 1])
    BY <1>1, Zenon DEF IdVerdict
<1>3. i + 1 <= Len(d) /\ Has(e, i, 1)
    BY <1>1, <1>2, HasKept
<1>4. i + 1 \in 1..Len(d)
    BY <1>3
<1>5. e[i + 1] = d[i + 1] /\ d[i + 1] \in Nat
    BY <1>4 DEF Extends
<1>6. Has(e, i + 1, d[i + 1]) /\ i + 1 + d[i + 1] <= Len(d)
    BY <1>1, <1>2, <1>5, HasKept
<1>7. IdVerdict(e, i) = "OK"
    BY <1>2, <1>3, <1>5, <1>6, Zenon DEF IdVerdict
<1> QED BY <1>5, <1>6, <1>7

(* The visible part of an Initial packet is decoded for good.              *)
LEMMA QuicFinal ==
    ASSUME NEW d \in Seq(Nat), NEW e \in Seq(Nat), Extends(e, d),
           app_quic_decode_initial(d).result = "OK"
    PROVE  app_quic_decode_initial(e) = app_quic_decode_initial(d)
<1> DEFINE v == app_quic_decode_initial(d)
           s == 5 + 1 + d[5 + 1]
           t == 5 + 1 + e[5 + 1]
<1>1. \A r : v = Verdict(r) => r = "OK"
    BY VerdictResult
<1>2. "NO_MATCH" # "OK" /\ "NEED_MORE" # "OK" /\ 5 \in Nat /\ 1 \in Nat /\ 4 \in Nat
    OBVIOUS
<1>3. d # <<>> /\ d[1] \in 192..207 /\ Has(d, 1, 4) /\ Bytes(d, 1, 4) # <<0, 0, 0, 0>>
    BY <1>1, <1>2, Zenon DEF app_quic_decode_initial
<1>4. IdVerdict(d, 5) = "OK"
    BY <1>1, <1>3, Zenon DEF app_quic_decode_initial
<1>5. IdVerdict(d, s) = "OK"
    BY <1>1, <1>3, <1>4, Zenon DEF app_quic_decode_initial
<1>6. /\ IdVerdict(e, 5) = "OK" /\ e[5 + 1] = d[5 + 1] /\ d[5 + 1] \in Nat
      /\ 5 + 1 + d[5 + 1] <= Len(d)
    BY <1>2, <1>4, IdKept, Zenon
<1>7. s \in Nat /\ t = s /\ s <= Len(d) /\ 5 + 1 \in Nat
    BY <1>6
<1>8. v = Decoded("QUIC", [version |-> Bytes(d, 1, 4), dcid |-> Bytes(d, 5 + 1, d[5 + 1]),
                           scid |-> Bytes(d, s + 1, d[s + 1])])
    BY <1>3, <1>4, <1>5, Zenon DEF app_quic_decode_initial
<1>9. e # <<>> /\ e[1] = d[1] /\ 1 + 4 <= Len(d) /\ Has(e, 1, 4)
    BY SMTT(30), <1>2, <1>3, HasKept DEF Extends
<1>10. Bytes(e, 1, 4) = Bytes(d, 1, 4)
    BY <1>9, BytesKept
<1>11. Bytes(e, 5 + 1, d[5 + 1]) = Bytes(d, 5 + 1, d[5 + 1])
    BY <1>6, <1>7, BytesKept
<1>12. IdVerdict(e, t) = "OK" /\ e[t + 1] = d[s + 1] /\ Bytes(e, t + 1, e[t + 1]) = Bytes(d, s + 1, d[s + 1])
    <2> HIDE DEF s, t
    <2>1. /\ IdVerdict(e, s) = "OK" /\ e[s + 1] = d[s + 1] /\ d[s + 1] \in Nat
          /\ s + 1 + d[s + 1] <= Len(d)
        BY <1>5, <1>7, IdKept
    <2>2. Bytes(e, s + 1, d[s + 1]) = Bytes(d, s + 1, d[s + 1])
        BY <1>7, <2>1, BytesKept
    <2> QED BY <1>7, <2>1, <2>2
<1>13. app_quic_decode_initial(e) =
          Decoded("QUIC", [version |-> Bytes(e, 1, 4), dcid |-> Bytes(e, 5 + 1, e[5 + 1]),
                           scid |-> Bytes(e, t + 1, e[t + 1])])
    BY <1>3, <1>6, <1>9, <1>10, <1>12, Zenon DEF app_quic_decode_initial
<1> QED BY <1>6, <1>8, <1>10, <1>11, <1>12, <1>13, Zenon

----------------------------------------------------------------------------
(* DHCP options.                                                           *)

(* A vector that fits, and one that goes on.                               *)
LEMMA VectorEndIs ==
    ASSUME NEW d \in Seq(Nat), NEW i \in Nat, NEW w \in 1..3
    PROVE  /\ VectorEnd(d, i, w) \in Nat
           /\ VectorEnd(d, i, w) <= Len(d) =>
                 /\ i + w <= VectorEnd(d, i, w)
                 /\ VectorEnd(d, i, w) = i + w + Number(d, i, w)
                 /\ Has(d, i, w) /\ Has(d, i + w, Number(d, i, w))
<1> DEFINE n == Number(d, i, w)
<1>1. Len(d) \in Nat /\ w \in Nat
    OBVIOUS
<1>2. CASE Has(d, i, w) /\ Has(d, i + w, n)
    <2>1. VectorEnd(d, i, w) = i + w + n
        BY <1>2 DEF VectorEnd
    <2>2. n \in Nat
        BY <1>2, NumberIs DEF Has
    <2> HIDE DEF n
    <2>3. i + w + n \in Nat /\ i + w <= i + w + n
        BY <1>1, <2>2
    <2> QED BY <1>2, <2>1, <2>3 DEF n
<1>3. CASE ~(Has(d, i, w) /\ Has(d, i + w, n))
    <2>1. VectorEnd(d, i, w) = Len(d) + 1
        BY <1>3 DEF VectorEnd
    <2> QED BY <1>1, <2>1
<1> QED BY <1>2, <1>3

(* A vector that ends inside a buffer ends at the same place in a longer   *)
(* one.                                                                    *)
LEMMA VectorEndKept ==
    ASSUME NEW d \in Seq(Nat), NEW e \in Seq(Nat), Extends(e, d), NEW i \in Nat, NEW w \in 1..3,
           VectorEnd(d, i, w) <= Len(d)
    PROVE  VectorEnd(e, i, w) = VectorEnd(d, i, w)
<1> DEFINE n == Number(d, i, w)
<1>1. VectorEnd(d, i, w) = i + w + n /\ Has(d, i, w) /\ Has(d, i + w, n)
    BY VectorEndIs
<1>2. w \in Nat /\ i + w \in Nat
    OBVIOUS
<1>3. i + w <= Len(d) /\ Has(e, i, w)
    BY <1>1, <1>2, HasKept
<1>4. n \in Nat /\ Number(e, i, w) = n
    BY <1>3, NumberIs, NumberKept
<1>5. Has(e, i + w, n)
    <2> HIDE DEF n
    <2> QED BY <1>1, <1>2, <1>4, HasKept
<1> QED BY <1>1, <1>3, <1>4, <1>5, Zenon DEF VectorEnd

----------------------------------------------------------------------------
(* DHCP options.                                                           *)

Option == [tag : Nat, value : Seq(Nat)]

\* A step of the scan as the three things it can be.
OptionCases(d, from, p, options) ==
    \/ options = <<>>
    \/ p + 1 <= Len(d) /\ d[p + 1] = OptionPad /\ options = from[p + 1]
    \/ /\ p + 1 <= Len(d) /\ d[p + 1] \notin {OptionPad, OptionEnd}
       /\ VectorEnd(d, p + 1, 1) <= Len(d)
       /\ options = <<[tag |-> d[p + 1], value |-> Bytes(d, p + 2, VectorEnd(d, p + 1, 1) - p - 2)]>>
                    \o from[VectorEnd(d, p + 1, 1)]

(* Reading one DHCP option takes one of four forms: the end, a pad octet,  *)
(* an option, or one that does not fit.                                    *)
LEMMA OptionsStep ==
    ASSUME NEW d \in Seq(Nat), NEW f, NEW p \in 0..Len(d)
    PROVE  OptionCases(d, f, p, OptionsFrom(d, f, p))
<1> DEFINE E == VectorEnd(d, p + 1, 1)
<1>0. Len(d) \in Nat /\ p \in Nat
    OBVIOUS
<1>1. CASE p = Len(d) \/ d[p + 1] = OptionEnd
    <2>1. /\ ~(p < Len(d) /\ d[p + 1] = OptionPad)
          /\ ~(p < Len(d) /\ d[p + 1] \notin {OptionPad, OptionEnd})
        BY <1>0, <1>1 DEF OptionPad, OptionEnd
    <2>2. OptionsFrom(d, f, p) = <<>>
        BY <1>1, <2>1, Zenon DEF OptionsFrom
    <2> QED BY <2>2, Zenon DEF OptionCases
<1>2. CASE ~(p = Len(d) \/ d[p + 1] = OptionEnd)
    <2>1. p < Len(d) /\ p + 1 <= Len(d)
        BY <1>0, <1>2
    <2>2. OptionPad # OptionEnd
        BY DEF OptionPad, OptionEnd
    <2>3. CASE d[p + 1] = OptionPad
        <3>1. OptionsFrom(d, f, p) = f[p + 1]
            BY <1>2, <2>1, <2>3, Zenon DEF OptionsFrom
        <3> QED BY <2>1, <2>3, <3>1, Zenon DEF OptionCases
    <2>4. CASE d[p + 1] # OptionPad
        <3>1. d[p + 1] \notin {OptionPad, OptionEnd}
            BY <1>2, <2>4
        <3>2. OptionsFrom(d, f, p) =
                 IF E > Len(d) THEN <<>>
                 ELSE <<[tag |-> d[p + 1], value |-> Bytes(d, p + 2, E - p - 2)]>> \o f[E]
            BY <1>2, <2>1, <2>4, <3>1, Zenon DEF OptionsFrom
        <3>3. CASE E > Len(d)
            BY <3>2, <3>3, Zenon DEF OptionCases
        <3>4. CASE ~(E > Len(d))
            <4>1. E \in Nat
                <5>1. p + 1 \in Nat /\ 1 \in 1..3
                    BY <1>0
                <5> QED BY <5>1, VectorEndIs, Zenon
            <4>2. E <= Len(d)
                <5> HIDE DEF E
                <5> QED BY <1>0, <3>4, <4>1
            <4> QED BY <2>1, <3>1, <3>2, <3>4, <4>2, Zenon DEF OptionCases
        <3> QED BY <3>3, <3>4
    <2> QED BY <2>3, <2>4
<1> QED BY <1>1, <1>2

(* The option at p, where there is one, and where the next one is.         *)
LEMMA OptionAt ==
    ASSUME NEW d \in Seq(Nat), NEW p \in 0..Len(d), p + 1 <= Len(d),
           VectorEnd(d, p + 1, 1) <= Len(d)
    PROVE  /\ VectorEnd(d, p + 1, 1) \in (p + 1)..Len(d) /\ VectorEnd(d, p + 1, 1) - p - 2 \in Nat
           /\ p + 2 + (VectorEnd(d, p + 1, 1) - p - 2) <= Len(d)
           /\ [tag |-> d[p + 1], value |-> Bytes(d, p + 2, VectorEnd(d, p + 1, 1) - p - 2)] \in Option
<1> DEFINE E == VectorEnd(d, p + 1, 1)
<1>1. p + 1 \in Nat /\ 1 \in 1..3 /\ p + 2 \in Nat /\ p \in Nat /\ Len(d) \in Nat /\ p + 1 + 1 = p + 2
    OBVIOUS
<1>2. E \in Nat /\ p + 2 <= E /\ E <= Len(d)
    BY <1>1, VectorEndIs, Zenon
<1> HIDE DEF E
<1>3. E - p - 2 \in Nat /\ p + 2 + (E - p - 2) <= Len(d) /\ E \in (p + 1)..Len(d)
    BY <1>1, <1>2
<1>4. Bytes(d, p + 2, E - p - 2) \in Seq(Nat)
    BY <1>1, <1>3, BytesAre
<1>5. d[p + 1] \in Nat
    BY <1>1
<1> QED BY <1>3, <1>4, <1>5 DEF Option, E

\* The function that DhcpOptions scans with.
OptionsScan(d) == CHOOSE f : f = [p \in 0..Len(d) |-> OptionsFrom(d, f, p)]

(* The reading of DHCP options follows its definition at every position    *)
(* and gives a list of options.                                            *)
LEMMA OptionsUnfold ==
    ASSUME NEW d \in Seq(Nat)
    PROVE  \A p \in 0..Len(d) : /\ OptionsScan(d)[p] = OptionsFrom(d, OptionsScan(d), p)
                                /\ OptionsScan(d)[p] \in Seq(Option)
<1> DEFINE L == Len(d)
           D == 0..L
           V == Seq(Option)
           body(f) == [p \in D |-> OptionsFrom(d, f, p)]
           F == [f \in [D -> V] |-> body(f)]
<1>0. L \in Nat /\ V # {} /\ <<>> \in V
    <2>1. <<>> \in V
        BY EmptySeq
    <2>2. V # {}
        BY <2>1
    <2>3. L \in Nat
        OBVIOUS
    <2> QED BY <2>1, <2>2, <2>3, Zenon
<1>1. ASSUME NEW f \in [D -> V], NEW p \in D PROVE OptionsFrom(d, f, p) \in V
    <2>1. OptionCases(d, f, p, OptionsFrom(d, f, p))
        BY OptionsStep
    <2>2. CASE OptionsFrom(d, f, p) = <<>>
        BY <1>0, <2>2
    <2>3. CASE p + 1 <= Len(d) /\ OptionsFrom(d, f, p) = f[p + 1]
        <3>1. p + 1 \in D
            BY <1>0, <2>3
        <3> QED BY <2>3, <3>1
    <2>4. CASE /\ p + 1 <= Len(d) /\ VectorEnd(d, p + 1, 1) <= Len(d)
               /\ OptionsFrom(d, f, p) =
                     <<[tag |-> d[p + 1], value |-> Bytes(d, p + 2, VectorEnd(d, p + 1, 1) - p - 2)]>>
                     \o f[VectorEnd(d, p + 1, 1)]
        <3> DEFINE E == VectorEnd(d, p + 1, 1)
                   x == [tag |-> d[p + 1], value |-> Bytes(d, p + 2, E - p - 2)]
        <3>1. E \in (p + 1)..Len(d) /\ x \in Option
            BY <2>4, OptionAt
        <3>2. OptionsFrom(d, f, p) = <<x>> \o f[E]
            BY <2>4
        <3> HIDE DEF E, x
        <3>3. E \in D
            BY <1>0, <3>1
        <3>4. <<x>> \in Seq(Option) /\ f[E] \in Seq(Option)
            BY <3>1, <3>3
        <3> QED BY <3>2, <3>4
    <2> QED BY <2>1, <2>2, <2>3, <2>4, Zenon DEF OptionCases
<1>2. ASSUME NEW f, NEW g, NEW p \in D, \A q \in D : p < q => f[q] = g[q]
      PROVE  OptionsFrom(d, f, p) = OptionsFrom(d, g, p)
    <2> DEFINE E == VectorEnd(d, p + 1, 1)
    <2>1. CASE p = L
        <3>1. ~(p < Len(d))
            BY <1>0, <2>1
        <3>2. \A h : OptionsFrom(d, h, p) = <<>>
            BY <2>1, <3>1, Zenon DEF OptionsFrom
        <3> QED BY <3>2
    <2>2. CASE p # L
        <3>1. p + 1 \in D /\ p < p + 1
            BY <1>0, <2>2
        <3>2. f[p + 1] = g[p + 1]
            BY <1>2, <3>1
        <3>3. ~(E > Len(d)) => f[E] = g[E]
            <4> SUFFICES ASSUME ~(E > Len(d)) PROVE f[E] = g[E]
                OBVIOUS
            <4>1. E \in Nat
                <5>1. p + 1 \in Nat /\ 1 \in 1..3
                    BY <1>0
                <5> QED BY <5>1, VectorEndIs, Zenon
            <4>2. E <= Len(d) /\ p + 1 <= Len(d)
                <5> HIDE DEF E
                <5> QED BY <1>0, <3>1, <4>1
            <4>3. E \in (p + 1)..Len(d)
                BY <4>2, OptionAt
            <4> HIDE DEF E
            <4>4. E \in D /\ p < E
                BY <1>0, <4>3
            <4> QED BY <1>2, <4>4
        <3> QED BY <3>2, <3>3, Zenon DEF OptionsFrom
    <2> QED BY <2>1, <2>2
<1>3. F \in [[D -> V] -> [D -> V]] /\ \A f \in [D -> V] : F[f] = body(f)
    BY <1>1
<1>4. \A f, g \in [D -> V], p \in D :
         (\A q \in D : p < q => f[q] = g[q]) => F[f][p] = F[g][p]
    BY <1>2, <1>3
<1>5. \E f : f = body(f)
    <2> HIDE DEF F, V, body, L
    <2>1. DefinesDownward(L, V, F)
        BY <1>0, <1>3, <1>4, Zenon DEF DefinesDownward
    <2>2. \E f \in [D -> V] : f = F[f]
        BY <2>1, DownwardSolution
    <2> QED BY <1>3, <2>2
<1> DEFINE E == OptionsScan(d)
<1>6. E = body(E)
    <2>1. E = CHOOSE f : f = body(f)
        BY DEF OptionsScan
    <2> HIDE DEF body, E
    <2> QED BY <1>5, <2>1, Zenon
<1> HIDE DEF E
<1>7. \A p \in D : E[p] = OptionsFrom(d, E, p)
    BY <1>6
<1>8. ASSUME NEW p \in D PROVE E[p] \in V
    <2> DEFINE T == {k \in D : E[L - k] \notin V}
    <2> SUFFICES T = {}
        <3>1. L - p \in D /\ L - (L - p) = p
            BY <1>0
        <3> QED BY <3>1
    <2> SUFFICES ASSUME T # {} PROVE FALSE
        OBVIOUS
    <2>1. T \in SUBSET Nat
        OBVIOUS
    <2>2. PICK k \in T : \A j \in T : k <= j
        <3> HIDE DEF T
        <3> QED BY <2>1, LeastNumber
    <2> DEFINE r == L - k
               f == [q \in D |-> IF q > r THEN E[q] ELSE <<>>]
    <2>3. r \in D /\ E[r] \notin V /\ k \in D
        BY <1>0
    <2>4. \A q \in D : q > r => E[q] \in V
        <3> SUFFICES ASSUME NEW q \in D, q > r PROVE E[q] \in V
            OBVIOUS
        <3>1. L - q \in D /\ ~(k <= L - q) /\ L - (L - q) = q
            BY <1>0, <2>3
        <3>2. L - q \notin T
            <4> HIDE DEF T
            <4> QED BY <2>2, <3>1
        <3> QED BY <3>1, <3>2
    <2> HIDE DEF T, r
    <2>5. f \in [D -> V] /\ \A q \in D : r < q => f[q] = E[q]
        BY <1>0, <2>3, <2>4
    <2> HIDE DEF f
    <2>6. OptionsFrom(d, f, r) = OptionsFrom(d, E, r)
        BY <1>2, <2>3, <2>5
    <2>7. OptionsFrom(d, f, r) \in V
        BY <1>1, <2>3, <2>5
    <2> QED BY <1>7, <2>3, <2>6, <2>7
<1> QED BY <1>7, <1>8 DEF E

\* An option of a tag and a length is there.
Present(options, tag, n) ==
    \E i \in 1..Len(options) : options[i].tag = tag /\ Len(options[i].value) = n

(* An option is present in a list when it is the first or present in the   *)
(* rest.                                                                   *)
LEMMA PresentFirst ==
    ASSUME NEW x \in Option, NEW s \in Seq(Option), NEW tag, NEW n
    PROVE  Present(<<x>> \o s, tag, n) <=> (x.tag = tag /\ Len(x.value) = n) \/ Present(s, tag, n)
<1> DEFINE c == <<x>> \o s
<1>1. Len(c) = Len(s) + 1 /\ c[1] = x /\ (\A i \in 1..Len(s) : c[i + 1] = s[i]) /\ Len(s) \in Nat
    OBVIOUS
<1> HIDE DEF c
<1>2. ASSUME Present(c, tag, n) PROVE (x.tag = tag /\ Len(x.value) = n) \/ Present(s, tag, n)
    <2>1. PICK i \in 1..Len(c) : c[i].tag = tag /\ Len(c[i].value) = n
        BY <1>2 DEF Present
    <2>2. CASE i = 1
        BY <1>1, <2>1, <2>2
    <2>3. CASE i # 1
        <3>1. i - 1 \in 1..Len(s) /\ (i - 1) + 1 = i
            BY <1>1, <2>1, <2>3
        <3>2. s[i - 1] = c[i]
            BY <1>1, <3>1
        <3> QED BY <2>1, <3>1, <3>2 DEF Present
    <2> QED BY <2>2, <2>3
<1>3. ASSUME x.tag = tag, Len(x.value) = n PROVE Present(c, tag, n)
    <2>1. 1 \in 1..Len(c)
        BY <1>1
    <2> QED BY <1>1, <1>3, <2>1 DEF Present
<1>4. ASSUME Present(s, tag, n) PROVE Present(c, tag, n)
    <2>1. PICK i \in 1..Len(s) : s[i].tag = tag /\ Len(s[i].value) = n
        BY <1>4 DEF Present
    <2>2. i + 1 \in 1..Len(c) /\ c[i + 1] = s[i]
        BY <1>1
    <2> QED BY <2>1, <2>2 DEF Present
<1> QED BY <1>2, <1>3, <1>4 DEF c

(* What is shown of an option tells whether it is there.                   *)
LEMMA LastOptionIs ==
    ASSUME NEW options \in Seq(Option), NEW tag, NEW n \in Nat \ {0}
    PROVE  LastOption(options, tag, n) # <<>> <=> Present(options, tag, n)
<1> DEFINE at == {i \in 1..Len(options) : options[i].tag = tag /\ Len(options[i].value) = n}
<1>1. LastOption(options, tag, n) = IF at = {} THEN <<>> ELSE options[Max(at)].value
    BY DEF LastOption
<1>2. Present(options, tag, n) <=> at # {}
    BY DEF Present
<1>3. CASE at = {}
    BY <1>1, <1>2, <1>3
<1>4. CASE at # {}
    <2>1. Len(options) \in Nat /\ at \in SUBSET (0..Len(options))
        OBVIOUS
    <2>2. Max(at) \in at
        <3> HIDE DEF at
        <3> QED BY <1>4, <2>1, MaxIs
    <2>3. Len(options[Max(at)].value) = n
        BY <2>2
    <2> HIDE DEF at
    <2> QED BY <1>1, <1>2, <1>4, <2>3
<1> QED BY <1>3, <1>4

(* An option that is there stays there.                                    *)
LEMMA OptionsKept ==
    ASSUME NEW d \in Seq(Nat), NEW e \in Seq(Nat), Extends(e, d), NEW tag, NEW n
    PROVE  \A p \in 0..Len(d) :
               Present(OptionsScan(d)[p], tag, n) => Present(OptionsScan(e)[p], tag, n)
<1> DEFINE f == OptionsScan(d)
           g == OptionsScan(e)
           L == Len(d)
           Good(p) == Present(f[p], tag, n) => Present(g[p], tag, n)
           T == {k \in 0..L : ~Good(L - k)}
<1>0. /\ Len(d) \in Nat /\ Len(e) \in Nat /\ Len(d) <= Len(e)
      /\ \A i \in 1..Len(d) : e[i] = d[i] /\ d[i] \in Nat
    BY DEF Extends
<1>1. \A p \in 0..Len(d) : f[p] = OptionsFrom(d, f, p) /\ f[p] \in Seq(Option)
    BY OptionsUnfold
<1>2. \A p \in 0..Len(e) : g[p] = OptionsFrom(e, g, p) /\ g[p] \in Seq(Option)
    BY OptionsUnfold
<1> HIDE DEF f, g
<1>3. T = {}
    <2> SUFFICES ASSUME T # {} PROVE FALSE
        OBVIOUS
    <2>1. T \in SUBSET Nat
        OBVIOUS
    <2>2. PICK k \in T : \A j \in T : k <= j
        <3> HIDE DEF T
        <3> QED BY <2>1, LeastNumber
    <2> DEFINE p == L - k
    <2>3. p \in 0..Len(d) /\ p \in 0..Len(e) /\ ~Good(p) /\ k \in 0..L
        BY <1>0
    <2>4. \A q \in 0..Len(d) : q > p => Good(q)
        <3> SUFFICES ASSUME NEW q \in 0..Len(d), q > p PROVE Good(q)
            OBVIOUS
        <3>1. L - q \in 0..L /\ ~(k <= L - q) /\ L - (L - q) = q
            BY SMTT(30), <1>0, <2>3
        <3>2. L - q \notin T
            <4> HIDE DEF T
            <4> QED BY <2>2, <3>1
        <3> HIDE DEF Good
        <3> QED BY <3>1, <3>2
    <2> HIDE DEF p, T
    <2>5. OptionCases(d, f, p, f[p]) /\ OptionCases(e, g, p, g[p]) /\ g[p] = OptionsFrom(e, g, p)
        BY <1>1, <1>2, <2>3, OptionsStep
    <2>6. Present(f[p], tag, n) /\ ~Present(g[p], tag, n)
        BY <2>3
    <2>7. CASE f[p] = <<>>
        BY <2>6, <2>7 DEF Present
    <2>8. CASE p + 1 <= Len(d) /\ d[p + 1] = OptionPad /\ f[p] = f[p + 1]
        <3>1. p + 1 \in 0..Len(d) /\ p + 1 > p /\ p < Len(e) /\ p # Len(e) /\ e[p + 1] = OptionPad
            BY <1>0, <2>3, <2>8
        <3>2. OptionPad # OptionEnd
            BY DEF OptionPad, OptionEnd
        <3>3. g[p] = g[p + 1]
            BY <2>5, <3>1, <3>2, Zenon DEF OptionsFrom
        <3>4. Good(p + 1)
            <4> HIDE DEF Good
            <4> QED BY <2>4, <3>1
        <3> QED BY <2>6, <2>8, <3>3, <3>4
    <2>9. CASE /\ p + 1 <= Len(d) /\ d[p + 1] \notin {OptionPad, OptionEnd}
               /\ VectorEnd(d, p + 1, 1) <= Len(d)
               /\ f[p] = <<[tag |-> d[p + 1],
                            value |-> Bytes(d, p + 2, VectorEnd(d, p + 1, 1) - p - 2)]>>
                         \o f[VectorEnd(d, p + 1, 1)]
        <3> DEFINE E == VectorEnd(d, p + 1, 1)
                   x == [tag |-> d[p + 1], value |-> Bytes(d, p + 2, E - p - 2)]
        <3>1. /\ E \in (p + 1)..Len(d) /\ E - p - 2 \in Nat /\ p + 2 + (E - p - 2) <= Len(d)
              /\ x \in Option
            BY <2>3, <2>9, OptionAt
        <3>2. p + 1 \in Nat /\ 1 \in 1..3 /\ p + 2 \in Nat /\ E <= Len(d)
            BY <2>3, <2>9
        <3>3. VectorEnd(e, p + 1, 1) = E
            BY <3>2, VectorEndKept, Zenon
        <3>4. f[p] = <<x>> \o f[E]
            BY <2>9
        <3>5. p < Len(e) /\ p # Len(e) /\ e[p + 1] = d[p + 1] /\ e[p + 1] # OptionEnd
              /\ e[p + 1] # OptionPad
            BY SMTT(30), <1>0, <2>3, <2>9
        <3>6. E - p - 2 \in Int
            <4> HIDE DEF E
            <4> QED BY <3>1
        <3>7. Bytes(e, p + 2, E - p - 2) = Bytes(d, p + 2, E - p - 2)
            <4> HIDE DEF E
            <4> QED BY <3>1, <3>2, <3>6, BytesKept
        <3>8. E \in 0..Len(d) /\ E > p /\ E \in 0..Len(e) /\ ~(E > Len(e))
            <4>1. /\ Len(d) \in Nat /\ Len(e) \in Nat /\ Len(d) <= Len(e) /\ p \in Nat
                  /\ E \in (p + 1)..Len(d)
                BY <1>0, <2>3, <3>1
            <4> HIDE DEF E, x
            <4> QED BY <4>1
        <3>9. g[p] = <<x>> \o g[E]
            <4>1. e[p + 1] \notin {OptionPad, OptionEnd}
                BY <3>5
            <4>2. g[p] = IF E > Len(e) THEN <<>>
                         ELSE <<[tag |-> e[p + 1], value |-> Bytes(e, p + 2, E - p - 2)]>> \o g[E]
                <5> HIDE DEF E
                <5> QED BY <2>5, <3>3, <3>5, <4>1, Zenon DEF OptionsFrom
            <4> QED BY <3>5, <3>7, <3>8, <4>2, Zenon
        <3> HIDE DEF E, x
        <3>10. Good(E)
            <4> HIDE DEF Good
            <4> QED BY <2>4, <3>8
        <3>11. f[E] \in Seq(Option) /\ g[E] \in Seq(Option)
            BY <1>1, <1>2, <3>8
        <3>12. Present(f[p], tag, n) <=> (x.tag = tag /\ Len(x.value) = n) \/ Present(f[E], tag, n)
            BY <3>1, <3>4, <3>11, PresentFirst
        <3>13. Present(g[p], tag, n) <=> (x.tag = tag /\ Len(x.value) = n) \/ Present(g[E], tag, n)
            BY <3>1, <3>9, <3>11, PresentFirst
        <3> QED BY <2>6, <3>10, <3>12, <3>13
    <2> QED BY <2>5, <2>7, <2>8, <2>9, Zenon DEF OptionCases
<1>4. ASSUME NEW p \in 0..Len(d) PROVE Good(p)
    <2>1. L - p \in 0..L /\ L - (L - p) = p
        BY <1>0
    <2> HIDE DEF Good
    <2> QED BY <1>3, <2>1
<1> QED BY <1>4 DEF f, g

----------------------------------------------------------------------------
(* What a datagram that was cut says is what the whole of it says, but for *)
(* DHCP options behind the cut.                                            *)
PartOfWhole(app, whole) ==
    /\ app.protocol = whole.protocol
    /\ \A f \in DOMAIN app.fields :
          /\ f \in DOMAIN whole.fields
          /\ f \notin {"message_type", "requested_ip"} => whole.fields[f] = app.fields[f]

\* The fields of a DHCP message before the empty ones are dropped.
DhcpFields(d) == [fixed |-> Bytes(d, 0, FixedLen),
                  message_type |-> scan_dhcp_options(d).message_type,
                  requested_ip |-> scan_dhcp_options(d).requested_ip]

(* The three fields of a DHCP message by name.                             *)
LEMMA DhcpFieldsAre ==
    ASSUME NEW d
    PROVE  /\ DOMAIN DhcpFields(d) = {"fixed", "message_type", "requested_ip"}
           /\ DhcpFields(d)["fixed"] = Bytes(d, 0, FixedLen)
           /\ DhcpFields(d)["message_type"] = LastOption(DhcpOptions(d), OptionType, 1)
           /\ DhcpFields(d)["requested_ip"] = LastOption(DhcpOptions(d), OptionAddress, 4)
BY DEF DhcpFields, scan_dhcp_options

(* What is decoded from a part of a DHCP message is part of what is        *)
(* decoded from all of it: app_dhcp_decode_udp never takes back a field    *)
(* when more octets are captured.                                          *)
LEMMA DhcpPart ==
    ASSUME NEW d \in Seq(Nat), NEW e \in Seq(Nat), Extends(e, d),
           app_dhcp_decode_udp(d).result = "OK"
    PROVE  /\ app_dhcp_decode_udp(e).result = "OK"
           /\ PartOfWhole(app_dhcp_decode_udp(d).app, app_dhcp_decode_udp(e).app)
<1> DEFINE v == app_dhcp_decode_udp(d)
           C == Len(Cookie)
<1>0. FixedLen \in Nat /\ C \in Nat /\ FixedLen # 0 /\ Len(d) \in Nat /\ Len(e) \in Nat
    BY DecoderAssumption
<1>1. \A r : v = Verdict(r) => r = "OK"
    BY VerdictResult
<1>2. "NO_MATCH" # "OK" /\ "NEED_MORE" # "OK"
    OBVIOUS
<1>3. d # <<>> /\ ~(Len(d) < FixedLen + C) /\ Bytes(d, FixedLen, C) = Cookie /\ d[1] \in {1, 2}
    BY <1>1, <1>2, Zenon DEF app_dhcp_decode_udp
<1>4. FixedLen + C <= Len(d) /\ ~(Len(e) < FixedLen + C) /\ e # <<>> /\ e[1] = d[1]
      /\ FixedLen + C \in 0..Len(d) /\ 0 + FixedLen <= Len(d) /\ C \in Int /\ FixedLen \in Int
      /\ 0 \in Nat
    BY SMTT(30), <1>0, <1>3 DEF Extends
<1>5. Bytes(e, FixedLen, C) = Bytes(d, FixedLen, C) /\ Bytes(e, 0, FixedLen) = Bytes(d, 0, FixedLen)
    <2> HIDE DEF C
    <2> QED BY <1>0, <1>4, BytesKept
<1>6. v = Decoded("DHCP", DhcpFields(d))
    BY <1>3, Zenon DEF app_dhcp_decode_udp, DhcpFields
<1>7. app_dhcp_decode_udp(e) = Decoded("DHCP", DhcpFields(e))
    BY <1>3, <1>4, <1>5, Zenon DEF app_dhcp_decode_udp, DhcpFields
<1>8. \A tag, n : Present(DhcpOptions(d), tag, n) => Present(DhcpOptions(e), tag, n)
    <2>1. /\ DhcpOptions(d) = OptionsScan(d)[FixedLen + C]
          /\ DhcpOptions(e) = OptionsScan(e)[FixedLen + C]
        BY DEF DhcpOptions, OptionsScan
    <2> QED BY <1>4, <2>1, OptionsKept, Zenon
<1>9. DhcpOptions(d) \in Seq(Option) /\ DhcpOptions(e) \in Seq(Option)
    <2>1. /\ DhcpOptions(d) = OptionsScan(d)[FixedLen + C]
          /\ DhcpOptions(e) = OptionsScan(e)[FixedLen + C]
        BY DEF DhcpOptions, OptionsScan
    <2>2. FixedLen + C \in 0..Len(e)
        BY <1>0, <1>4
    <2> QED BY <1>4, <2>1, <2>2, OptionsUnfold
<1>10. \A tag : \A n \in {1, 4} : LastOption(DhcpOptions(d), tag, n) # <<>> =>
                                    LastOption(DhcpOptions(e), tag, n) # <<>>
    <2>1. \A n \in {1, 4} : n \in Nat \ {0}
        OBVIOUS
    <2> QED BY <1>8, <1>9, <2>1, LastOptionIs, Zenon
<1> DEFINE F == DhcpFields(d)
           G == DhcpFields(e)
<1>11. /\ DOMAIN F = {"fixed", "message_type", "requested_ip"} /\ DOMAIN G = DOMAIN F
       /\ G["fixed"] = F["fixed"]
       /\ F["message_type"] # <<>> => G["message_type"] # <<>>
       /\ F["requested_ip"] # <<>> => G["requested_ip"] # <<>>
    BY <1>5, <1>10, DhcpFieldsAre
<1> HIDE DEF F, G
<1>12. /\ v.app = [protocol |-> "DHCP", fields |-> Fields(F)]
       /\ app_dhcp_decode_udp(e).app = [protocol |-> "DHCP", fields |-> Fields(G)]
       /\ app_dhcp_decode_udp(e).result = "OK"
    BY <1>6, <1>7 DEF Decoded, F, G
<1>13. \A H : /\ DOMAIN Fields(H) = {n \in DOMAIN H : H[n] # <<>>}
              /\ \A n \in DOMAIN Fields(H) : Fields(H)[n] = H[n]
    BY DEF Fields
<1>14. PartOfWhole([protocol |-> "DHCP", fields |-> Fields(F)], [protocol |-> "DHCP", fields |-> Fields(G)])
    <2> SUFFICES ASSUME NEW f \in DOMAIN Fields(F)
                 PROVE  /\ f \in DOMAIN Fields(G)
                        /\ f \notin {"message_type", "requested_ip"} => Fields(G)[f] = Fields(F)[f]
        BY DEF PartOfWhole
    <2>1. f \in DOMAIN F /\ F[f] # <<>>
        BY <1>13
    <2>2. f \in DOMAIN G /\ G[f] # <<>>
        BY <1>11, <2>1
    <2>3. f \in DOMAIN Fields(G)
        BY <1>13, <2>2
    <2>4. f \notin {"message_type", "requested_ip"} => f = "fixed"
        BY <1>11, <2>1
    <2>5. Fields(G)[f] = G[f] /\ Fields(F)[f] = F[f]
        BY <1>13, <2>3
    <2> QED BY <1>11, <2>3, <2>4, <2>5
<1> QED BY <1>12, <1>14

(* The same for every decoder a datagram may be given to.                  *)
LEMMA DatagramPart ==
    ASSUME NEW d \in Seq(Nat), NEW e \in Seq(Nat), Extends(e, d), NEW ports,
           app_decode_packet("udp", ports, d).result = "OK"
    PROVE  PartOfWhole(app_decode_packet("udp", ports, d).app, app_decode_packet("udp", ports, e).app)
<1>0. \A a : PartOfWhole(a, a)
    BY DEF PartOfWhole
<1>1. d # <<>> /\ e # <<>>
    <2>1. d # <<>>
        BY VerdictResult DEF app_decode_packet
    <2> QED BY <2>1 DEF Extends
<1>2. "udp" # "tcp"
    OBVIOUS
<1>3. CASE ports \cap {"dns", "mdns", "dhcp", "tls"} = {}
    <2>1. /\ app_decode_packet("udp", ports, d) = SniffPacket(d)
          /\ app_decode_packet("udp", ports, e) = SniffPacket(e)
        BY <1>1, <1>2, <1>3, Zenon DEF app_decode_packet
    <2>2. SniffPacket(e) = SniffPacket(d)
        BY <1>1, <2>1, SniffFinal
    <2> QED BY <1>0, <2>1, <2>2
<1>4. CASE ports \cap {"dns", "mdns", "dhcp", "tls"} # {}
    <2>1. /\ app_decode_packet("udp", ports, d) = Preferred(DecodeUdp(ports, d))
          /\ app_decode_packet("udp", ports, e) = Preferred(DecodeUdp(ports, e))
        BY <1>1, <1>2, <1>4, Zenon DEF app_decode_packet
    <2>2. \A v : Preferred(v).result = "OK" => v.result = "OK"
        BY VerdictResult, Zenon DEF Preferred
    <2>3. \A v : v.result = "OK" => Preferred(v) = v
        BY DEF Preferred
    <2>4. DecodeUdp(ports, d).result = "OK" /\ Preferred(DecodeUdp(ports, d)) = DecodeUdp(ports, d)
        BY <2>1, <2>2, <2>3
    <2>5. CASE DecodeUdp(ports, e) = DecodeUdp(ports, d)
        BY <1>0, <2>1, <2>5
    <2>6. CASE "dns" \in ports
        <3>1. \A m : DecodeUdp(ports, m) = decode_dns_message_as(m, "DNS")
            BY <2>6 DEF DecodeUdp
        <3> QED BY <2>4, <2>5, <3>1, DnsAsFinal
    <2>7. CASE "dns" \notin ports /\ "mdns" \in ports
        <3>1. \A m : DecodeUdp(ports, m) = decode_dns_message_as(m, "MDNS")
            BY <2>7 DEF DecodeUdp
        <3> QED BY <2>4, <2>5, <3>1, DnsAsFinal
    <2>8. CASE "dns" \notin ports /\ "mdns" \notin ports /\ "dhcp" \in ports
        <3>1. \A m : DecodeUdp(ports, m) = app_dhcp_decode_udp(m)
            BY <2>8 DEF DecodeUdp
        <3>2. /\ app_dhcp_decode_udp(e).result = "OK"
              /\ PartOfWhole(app_dhcp_decode_udp(d).app, app_dhcp_decode_udp(e).app)
            BY <2>4, <3>1, DhcpPart
        <3> QED BY <2>1, <2>3, <2>4, <3>1, <3>2
    <2>9. CASE "dns" \notin ports /\ "mdns" \notin ports /\ "dhcp" \notin ports
        <3>1. \A m : DecodeUdp(ports, m) = app_quic_decode_initial(m)
            BY <2>9 DEF DecodeUdp
        <3> QED BY <2>4, <2>5, <3>1, QuicFinal
    <2> QED BY <2>6, <2>7, <2>8, <2>9
<1> QED BY <1>3, <1>4

----------------------------------------------------------------------------
(* Results of the decoders.                                                *)

(* What a decoder may answer.                                              *)
Results == {"OK", "NEED_MORE", "MALFORMED", "NO_MATCH"}

(* The names of the results a decoder returns.                             *)
LEMMA ResultsAre == /\ "OK" \in Results /\ "NEED_MORE" \in Results
                    /\ "MALFORMED" \in Results /\ "NO_MATCH" \in Results
BY DEF Results

(* Every way a verdict is made gives one of these results.                 *)
LEMMA VerdictsAre ==
    /\ \A r \in Results : Verdict(r).result \in Results
    /\ \A p, f : Decoded(p, f).result = "OK" /\ Decoded(p, f).result \in Results
    /\ \A v : v.result \in Results => Preferred(v).result \in Results
<1>1. \A r \in Results : Verdict(r).result \in Results
    BY VerdictResult
<1>2. \A p, f : Decoded(p, f).result = "OK"
    BY DEF Decoded
<1> QED BY <1>1, <1>2, ResultsAre, Zenon DEF Preferred

(* Each decoder returns one of these results.                              *)
LEMMA DecoderResults ==
    ASSUME NEW d \in Seq(Nat)
    PROVE  /\ app_http_decode(d).result \in Results
           /\ app_tls_decode_client_hello(d).result \in Results
           /\ app_quic_decode_initial(d).result \in Results
           /\ app_dhcp_decode_udp(d).result \in Results
<1> USE ResultsAre, VerdictsAre
<1>1. app_http_decode(d).result \in Results
    <2>1. \A h, n : DecodeHead(h, n).result \in Results
        BY HeadResults DEF Results
    <2> QED BY <2>1, Zenon DEF app_http_decode
<1>2. app_tls_decode_client_hello(d).result \in Results
    <2>1. \A b, v : parse_client_hello_body(b, v).result \in Results
        BY Zenon DEF parse_client_hello_body
    <2> QED BY <2>1, Zenon DEF app_tls_decode_client_hello
<1>3. app_quic_decode_initial(d).result \in Results
    <2>1. \A i : IdVerdict(d, i) \in Results
        BY Zenon DEF IdVerdict
    <2> QED BY <2>1, Zenon DEF app_quic_decode_initial
<1>4. app_dhcp_decode_udp(d).result \in Results
    BY Zenon DEF app_dhcp_decode_udp
<1> QED BY <1>1, <1>2, <1>3, <1>4

(* So does the DNS decoder, on a port and when sniffed.                    *)
LEMMA DnsResults ==
    ASSUME NEW d \in Seq(Nat)
    PROVE  /\ \A p : decode_dns_message_as(d, p).result \in Results
           /\ StrongDns(d).result \in Results
<1> USE ResultsAre, VerdictsAre
<1>0. HeaderLen \in Nat /\ CountAt \in 1..HeaderLen /\ MaxCount \in Nat /\ Len(d) \in Nat
      /\ HeaderLen # 0
    BY DnsAssumption
<1>1. DnsVerdict(d).result \in Results
    <2> DEFINE c == d[CountAt]
    <2>1. CASE d = <<>>
        <3>1. ~(Len(d) >= HeaderLen)
            BY <1>0, <2>1
        <3>2. DnsVerdict(d) = [result |-> "NO_MATCH", name |-> <<>>]
            BY <2>1, <3>1, Zenon DEF DnsVerdict
        <3> QED BY <3>2
    <2>2. CASE d # <<>> /\ Len(d) < HeaderLen
        <3>1. ~(Len(d) >= HeaderLen)
            BY <1>0, <2>2
        <3>2. DnsVerdict(d) = [result |-> "NEED_MORE", name |-> <<>>]
            BY <2>2, <3>1, Zenon DEF DnsVerdict
        <3> QED BY <3>2
    <2>3. CASE d # <<>> /\ ~(Len(d) < HeaderLen)
        <3>1. Len(d) >= HeaderLen /\ c \in Nat
            BY <1>0, <2>3
        <3> HIDE DEF c
        <3>2. CASE c > MaxCount
            <4>1. c # 0 /\ c \notin 1..MaxCount
                BY <1>0, <3>1, <3>2
            <4>2. DnsVerdict(d) = [result |-> "NO_MATCH", name |-> <<>>]
                BY <2>3, <3>1, <3>2, <4>1, Zenon DEF DnsVerdict, c
            <4> QED BY <4>2
        <3>3. CASE c = 0
            <4>1. ~(c > MaxCount) /\ c \notin 1..MaxCount
                BY <1>0, <3>3
            <4>2. DnsVerdict(d) = [result |-> "OK", name |-> <<>>]
                BY <2>3, <3>1, <3>3, <4>1, Zenon DEF DnsVerdict, c
            <4> QED BY <4>2
        <3>4. CASE ~(c > MaxCount) /\ c # 0
            <4>1. c \in 1..MaxCount
                BY <1>0, <3>1, <3>4
            <4>2. DnsVerdict(d) = IF GoodQuestion(d) THEN [result |-> "OK", name |-> WholeName(d)]
                                  ELSE [result |-> "MALFORMED", name |-> <<>>]
                BY <2>3, <3>1, <3>4, <4>1, Zenon DEF DnsVerdict, c
            <4> QED BY <4>2
        <3> QED BY <3>2, <3>3, <3>4
    <2> QED BY <2>1, <2>2, <2>3
<1>2. \A p : decode_dns_message_as(d, p).result \in Results
    BY <1>1, Zenon DEF decode_dns_message_as
<1>3. StrongDns(d).result \in Results
    BY <1>2, Zenon DEF StrongDns
<1> QED BY <1>2, <1>3

(* And so do the two dispatchers.                                          *)
LEMMA DispatchResults ==
    ASSUME NEW d \in Seq(Nat), NEW ports
    PROVE  /\ app_decode_stream(ports, d).result \in Results
           /\ \A transport : app_decode_packet(transport, ports, d).result \in Results
<1> USE ResultsAre, VerdictsAre, DecoderResults, DnsResults
<1>1. app_dns_decode_tcp_frame(d).result \in Results
    <2>1. Len(d) \in Nat
        OBVIOUS
    <2>2. CASE ~(Len(d) < 2) /\ Number(d, 0, 2) # 0 /\ Has(d, 2, Number(d, 0, 2))
        <3> DEFINE n == Number(d, 0, 2)
        <3>1. 0 \in Nat /\ 2 \in 1..3 /\ 0 + 2 <= Len(d) /\ 2 \in Nat
            BY <2>1, <2>2
        <3>2. n \in Nat
            BY <3>1, NumberIs, Zenon
        <3>3. 2 + n <= Len(d)
            <4> HIDE DEF n
            <4> QED BY <2>2, <3>1, <3>2 DEF Has, n
        <3>4. Bytes(d, 2, n) \in Seq(Nat)
            <4> HIDE DEF n
            <4> QED BY <3>1, <3>2, <3>3, BytesAre
        <3>5. d # <<>>
            BY <2>2
        <3>6. app_dns_decode_tcp_frame(d) = decode_dns_message_as(Bytes(d, 2, n), "DNS")
            BY <2>2, <3>5, Zenon DEF app_dns_decode_tcp_frame
        <3> QED BY <3>4, <3>6, DnsResults
    <2>3. CASE ~(~(Len(d) < 2) /\ Number(d, 0, 2) # 0 /\ Has(d, 2, Number(d, 0, 2)))
        BY <2>3, Zenon DEF app_dns_decode_tcp_frame
    <2> QED BY <2>2, <2>3
<1>2. app_decode_buffer(d).result \in Results
    BY Zenon DEF app_decode_buffer
<1>3. app_decode_stream(ports, d).result \in Results
    BY <1>1, <1>2, Zenon DEF app_decode_stream
<1>4. SniffPacket(d).result \in Results
    BY Zenon DEF SniffPacket, SniffElse
<1>5. DecodeUdp(ports, d).result \in Results
    BY Zenon DEF DecodeUdp
<1> QED BY <1>3, <1>4, <1>5, Zenon DEF app_decode_packet

(* DECODED is the status of a verdict OK and of no other.                  *)
LEMMA StatusIs ==
    ASSUME NEW v, v.result \in Results, NEW cut
    PROVE  app_decode_status_from_result(v, cut) = "DECODED" <=> v.result = "OK"
<1>1. CASE v.result = "OK"
    BY <1>1 DEF app_decode_status_from_result
<1>2. CASE v.result = "NEED_MORE"
    BY <1>2 DEF app_decode_status_from_result
<1>3. CASE v.result = "MALFORMED"
    BY <1>3 DEF app_decode_status_from_result
<1>4. CASE v.result = "NO_MATCH"
    BY <1>4 DEF app_decode_status_from_result
<1> QED BY <1>1, <1>2, <1>3, <1>4 DEF Results

(* Two pieces of a message that start at the same place.                   *)
LEMMA PiecesExtend ==
    ASSUME NEW o \in Seq(Nat), NEW b \in Nat, NEW n \in Nat, NEW k \in Nat,
           b <= n, n <= k, k <= Len(o)
    PROVE  /\ Bytes(o, b, n - b) \in Seq(Nat) /\ Bytes(o, b, k - b) \in Seq(Nat)
           /\ Extends(Bytes(o, b, k - b), Bytes(o, b, n - b))
<1>1. n - b \in Nat /\ k - b \in Nat /\ b + (n - b) <= Len(o) /\ b + (k - b) <= Len(o)
      /\ n - b <= k - b
    OBVIOUS
<1> DEFINE x == Bytes(o, b, n - b)
           y == Bytes(o, b, k - b)
<1>2. x \in Seq(Nat) /\ Len(x) = n - b /\ \A i \in 1..(n - b) : x[i] = o[b + i]
    BY SMTT(30), <1>1, BytesAre
<1>3. y \in Seq(Nat) /\ Len(y) = k - b /\ \A i \in 1..(k - b) : y[i] = o[b + i]
    BY ZenonT(40), <1>1, BytesAre
<1> HIDE DEF x, y
<1>4. Extends(y, x)
    BY <1>1, <1>2, <1>3 DEF Extends
<1> QED BY <1>2, <1>3, <1>4 DEF x, y

(* All of a message, and its start.                                        *)
LEMMA WholeIs ==
    ASSUME NEW o \in Seq(Nat), NEW n \in Nat, n <= Len(o)
    PROVE  /\ Bytes(o, 0, n) \in Seq(Nat) /\ Extends(o, Bytes(o, 0, n))
           /\ Bytes(o, 0, Len(o)) = o
<1>1. 0 \in Nat /\ 0 + n <= Len(o) /\ Len(o) \in Nat /\ 0 + Len(o) <= Len(o)
    OBVIOUS
<1>2. Bytes(o, 0, n) \in Seq(Nat) /\ Len(Bytes(o, 0, n)) = n
      /\ \A i \in 1..n : Bytes(o, 0, n)[i] = o[0 + i]
    BY ZenonT(40), <1>1, BytesAre
<1>3. Extends(o, Bytes(o, 0, n))
    BY <1>2 DEF Extends
<1>4. Bytes(o, 0, Len(o)) = o
    BY DEF Bytes
<1> QED BY <1>2, <1>3, <1>4

----------------------------------------------------------------------------
(* The invariant of the traffic model.                                     *)

(* The invariant of a capture. The flow was classified by a piece of the   *)
(* message that starts where the capture began, or by a packet; both were  *)
(* decoded to what the flow holds. An unclassified flow has a stream that  *)
(* was not decoded. The last packet holds what its octets were decoded to. *)
Seen(n) == Bytes(sent.octets, begin, n - begin)

PositionsInv ==
    /\ sent \in Traffic /\ window \in Windows
    /\ begin \in Nat /\ end \in Nat /\ begin <= end /\ end <= Len(sent.octets)
    /\ begin < Len(sent.octets)

FlowInv ==
    /\ flow.by \in {"none", "stream", "packet"}
    /\ flow.by = "stream" =>
          /\ \E n \in begin..end : flow.octets = Seen(n)
          /\ app_decode_stream(sent.ports, flow.octets).result = "OK"
          /\ app_decode_stream(sent.ports, flow.octets).app = flow.app
    /\ flow.by = "packet" =>
          /\ sent.transport = "tcp" /\ flow.octets \in Seq(Nat)
          /\ app_decode_packet("tcp", sent.ports, flow.octets).result = "OK"
          /\ app_decode_packet("tcp", sent.ports, flow.octets).app = flow.app
    /\ flow.by = "none" /\ sent.transport = "tcp" /\ end # begin =>
          app_decode_stream(sent.ports, Seen(end)).result # "OK"

PacketInv ==
    packet.status = "DECODED" =>
        /\ packet.octets \in Seq(Nat)
        /\ app_decode_packet(sent.transport, sent.ports, packet.octets).result = "OK"
        /\ app_decode_packet(sent.transport, sent.ports, packet.octets).app = packet.app
        /\ sent.transport = "udp" => Extends(sent.octets, packet.octets)

StreamInv == PositionsInv /\ FlowInv /\ PacketInv

(* What TrafficAssumption says of one message.                             *)
LEMMA TrafficIs ==
    ASSUME NEW t \in Traffic
    PROVE  /\ t.transport \in {"tcp", "udp"} /\ t.octets \in Seq(Nat) /\ t.octets # <<>>
           /\ Len(t.octets) \in Nat
<1>1. t.transport \in {"tcp", "udp"} /\ t.octets \in Seq(0..255) /\ t.octets # <<>>
    BY TrafficAssumption
<1>2. 0..255 \subseteq Nat
    OBVIOUS
<1>3. t.octets \in Seq(Nat)
    BY <1>1, <1>2, SeqMonotonic, Zenon
<1> QED BY <1>1, <1>3

(* What decoding a packet leaves.                                          *)
LEMMA PacketIs ==
    ASSUME NEW octets \in Seq(Nat), window \in Windows
    PROVE  LET p == DecodePacket(octets)
           IN  p.status = "DECODED" =>
                  /\ p.octets \in Seq(Nat) /\ Extends(octets, p.octets)
                  /\ app_decode_packet(sent.transport, sent.ports, p.octets).result = "OK"
                  /\ app_decode_packet(sent.transport, sent.ports, p.octets).app = p.app
<1> DEFINE n == Min({window, Len(octets)})
           x == Bytes(octets, 0, n)
           v == app_decode_packet(sent.transport, sent.ports, x)
           cut == Len(x) < Len(octets)
<1>1. window \in Nat /\ Len(octets) \in Nat
    BY TrafficAssumption
<1>2. n \in Nat /\ n <= Len(octets)
    <2>1. {window, Len(octets)} \in SUBSET Nat /\ {window, Len(octets)} # {}
        BY <1>1
    <2>2. n \in {window, Len(octets)} /\ \A k \in {window, Len(octets)} : n <= k
        BY <2>1, MinIs
    <2> HIDE DEF n
    <2> QED BY <1>1, <2>2
<1> HIDE DEF n
<1>3. x \in Seq(Nat) /\ Extends(octets, x)
    BY <1>2, WholeIs
<1>4. DecodePacket(octets) =
         [app |-> v.app, octets |-> x, status |-> app_decode_status_from_result(v, cut)]
    BY Zenon DEF DecodePacket, n
<1>5. v.result \in Results
    BY <1>3, DispatchResults, Zenon
<1> HIDE DEF v, cut, x
<1>6. /\ DecodePacket(octets).app = v.app /\ DecodePacket(octets).octets = x
      /\ DecodePacket(octets).status = app_decode_status_from_result(v, cut)
    BY <1>4
<1>7. DecodePacket(octets).status = "DECODED" => v.result = "OK"
    BY <1>5, <1>6, StatusIs
<1> QED BY <1>3, <1>6, <1>7, Zenon DEF v

(* The invariant holds before the first segment.                           *)
LEMMA StreamInvInit == StreamInit => StreamInv
<1> SUFFICES ASSUME StreamInit PROVE StreamInv
    OBVIOUS
<1>1. sent \in Traffic /\ window \in Windows
      /\ begin \in Begins /\ begin < Len(sent.octets) /\ end = begin
      /\ flow = Unclassified /\ packet = [app |-> Unknown, status |-> "NOT_RUN", octets |-> <<>>]
    BY DEF StreamInit
<1>2. begin \in Nat /\ Len(sent.octets) \in Nat
    BY <1>1, TrafficAssumption, TrafficIs
<1>3. flow.by = "none" /\ packet.status = "NOT_RUN"
    BY <1>1 DEF Unclassified
<1>4. PositionsInv
    BY <1>1, <1>2 DEF PositionsInv
<1>5. FlowInv
    BY <1>1, <1>3 DEF FlowInv
<1>6. PacketInv
    BY <1>3 DEF PacketInv
<1> QED BY <1>4, <1>5, <1>6 DEF StreamInv

(* A segment of a TCP message keeps the invariant.                         *)
LEMMA SegmentKeepsStreamInv ==
    ASSUME StreamInv, NEW n \in SegmentSizes, Segment(n)
    PROVE  StreamInv'
<1> DEFINE o == sent.octets
           stream == Bytes(o, begin, end + n - begin)
           v == app_decode_stream(sent.ports, stream)
           f == StreamDecoded(stream)
           piece == Bytes(o, end, n)
<1>1. /\ sent' = sent /\ window' = window /\ begin' = begin /\ end' = end + n
      /\ sent.transport = "tcp" /\ end + n <= Len(o)
      /\ packet' = DecodePacket(piece) /\ flow' = PacketDecoded(f, packet')
    BY DEF Segment
<1>2. /\ sent \in Traffic /\ window \in Windows /\ begin \in Nat /\ end \in Nat /\ begin <= end
      /\ begin < Len(o)
    BY DEF StreamInv, PositionsInv
<1>3. n \in Nat /\ n # 0 /\ o \in Seq(Nat) /\ Len(o) \in Nat
    BY <1>2, TrafficAssumption, TrafficIs
<1> HIDE DEF o
<1>4. PositionsInv'
    BY <1>1, <1>2, <1>3 DEF PositionsInv, o
<1>5. piece \in Seq(Nat)
    BY <1>1, <1>2, <1>3, BytesAre
<1>6. packet'.status = "DECODED" =>
         /\ packet'.octets \in Seq(Nat)
         /\ app_decode_packet("tcp", sent.ports, packet'.octets).result = "OK"
         /\ app_decode_packet("tcp", sent.ports, packet'.octets).app = packet'.app
    <2> HIDE DEF piece
    <2> QED BY <1>1, <1>2, <1>5, PacketIs, Zenon
<1>7. PacketInv'
    <2>1. sent.transport # "udp"
        BY <1>1
    <2> QED BY <1>1, <1>6, <2>1, Zenon DEF PacketInv
<1>8. end + n \in Nat /\ begin <= end + n /\ end + n # begin /\ end + n \in begin..(end + n)
      /\ stream = Bytes(o, begin, (end + n) - begin)
    BY <1>2, <1>3
<1>9. f = IF flow.by = "none" /\ v.result = "OK"
          THEN [app |-> v.app, by |-> "stream", octets |-> stream] ELSE flow
    BY Zenon DEF StreamDecoded
<1> HIDE DEF stream, piece
<1>10. Seen(end + n) = stream
    BY <1>8 DEF Seen, o
<1>11. FlowInv
    BY DEF StreamInv
<1>12. /\ f.by \in {"none", "stream", "packet"}
       /\ f.by = "stream" => /\ \E m \in begin..(end + n) : f.octets = Seen(m)
                             /\ app_decode_stream(sent.ports, f.octets).result = "OK"
                             /\ app_decode_stream(sent.ports, f.octets).app = f.app
       /\ f.by = "packet" => /\ f.octets \in Seq(Nat)
                             /\ app_decode_packet("tcp", sent.ports, f.octets).result = "OK"
                             /\ app_decode_packet("tcp", sent.ports, f.octets).app = f.app
       /\ f.by = "none" => v.result # "OK"
    <2>1. CASE flow.by = "none" /\ v.result = "OK"
        <3>1. f.app = v.app /\ f.by = "stream" /\ f.octets = stream
            <4> HIDE DEF v, f
            <4> QED BY <1>9, <2>1
        <3> QED BY <1>8, <1>10, <2>1, <3>1
    <2>2. CASE ~(flow.by = "none" /\ v.result = "OK")
        <3>1. f = flow
            <4> HIDE DEF v, f
            <4> QED BY <1>9, <2>2
        <3>2. \A m \in begin..end : m \in begin..(end + n)
            BY <1>2, <1>3
        <3> HIDE DEF v, f
        <3> QED BY <1>11, <2>2, <3>1, <3>2 DEF FlowInv
    <2> QED BY <2>1, <2>2
<1> HIDE DEF f, v
<1> DEFINE g == flow'
<1>13. /\ g.by \in {"none", "stream", "packet"}
       /\ g.by = "stream" => /\ \E m \in begin..(end + n) : g.octets = Seen(m)
                             /\ app_decode_stream(sent.ports, g.octets).result = "OK"
                             /\ app_decode_stream(sent.ports, g.octets).app = g.app
       /\ g.by = "packet" => /\ g.octets \in Seq(Nat)
                             /\ app_decode_packet("tcp", sent.ports, g.octets).result = "OK"
                             /\ app_decode_packet("tcp", sent.ports, g.octets).app = g.app
       /\ g.by = "none" => v.result # "OK"
    <2>1. CASE f.by = "none" /\ packet'.status = "DECODED"
        <3>1. g = [app |-> packet'.app, by |-> "packet", octets |-> packet'.octets]
            BY <1>1, <2>1 DEF PacketDecoded
        <3>2. g.app = packet'.app /\ g.by = "packet" /\ g.octets = packet'.octets
            BY <3>1
        <3> QED BY <1>6, <2>1, <3>2
    <2>2. CASE ~(f.by = "none" /\ packet'.status = "DECODED")
        <3>1. g = f
            BY <1>1, <2>2, Zenon DEF PacketDecoded
        <3> QED BY <1>12, <3>1, Zenon
    <2> QED BY <2>1, <2>2
<1>14. \A m : Seen(m)' = Seen(m)
    BY <1>1 DEF Seen
<1>15. FlowInv'
    <2>1. Seen(end)' = stream
        BY <1>1, <1>10 DEF Seen
    <2> QED BY <1>1, <1>13, <1>14, <2>1 DEF FlowInv, v
<1> QED BY <1>4, <1>7, <1>15 DEF StreamInv

(* So does a datagram, which is decoded by itself.                         *)
LEMMA DatagramKeepsStreamInv ==
    ASSUME StreamInv, Datagram
    PROVE  StreamInv'
<1> DEFINE o == sent.octets
<1>1. /\ sent' = sent /\ window' = window /\ begin' = begin /\ end' = Len(o) /\ flow' = flow
      /\ sent.transport = "udp" /\ end = 0 /\ packet' = DecodePacket(o)
    BY DEF Datagram
<1>2. /\ sent \in Traffic /\ window \in Windows /\ begin \in Nat /\ end \in Nat /\ begin <= end
      /\ begin < Len(o) /\ FlowInv
    BY DEF StreamInv, PositionsInv
<1>3. o \in Seq(Nat) /\ Len(o) \in Nat /\ sent.transport # "tcp"
    BY <1>1, <1>2, TrafficIs
<1> HIDE DEF o
<1>4. PositionsInv'
    BY <1>1, <1>2, <1>3 DEF PositionsInv, o
<1>5. PacketInv'
    <2>1. packet'.status = "DECODED" =>
             /\ packet'.octets \in Seq(Nat) /\ Extends(o, packet'.octets)
             /\ app_decode_packet(sent.transport, sent.ports, packet'.octets).result = "OK"
             /\ app_decode_packet(sent.transport, sent.ports, packet'.octets).app = packet'.app
        BY <1>1, <1>2, <1>3, PacketIs, Zenon
    <2> QED BY <1>1, <2>1, Zenon DEF PacketInv, o
<1>6. FlowInv'
    <2>1. \A m : Seen(m)' = Seen(m)
        BY <1>1 DEF Seen
    <2>2. \A m \in begin..end : m \in begin..Len(o)
        BY <1>1, <1>2, <1>3
    <2> QED BY <1>1, <1>2, <1>3, <2>1, <2>2 DEF FlowInv
<1> QED BY <1>4, <1>5, <1>6 DEF StreamInv

(* And so it holds throughout.                                             *)
LEMMA StreamInvariant == StreamSpec => []StreamInv
<1>1. StreamInit => StreamInv
    BY StreamInvInit
<1>2. StreamInv /\ [StreamNext]_streamVars => StreamInv'
    <2> SUFFICES ASSUME StreamInv, [StreamNext]_streamVars PROVE StreamInv'
        OBVIOUS
    <2>1. CASE \E n \in SegmentSizes : Segment(n)
        BY <2>1, SegmentKeepsStreamInv
    <2>2. CASE Datagram
        BY <2>2, DatagramKeepsStreamInv
    <2>3. CASE UNCHANGED streamVars
        BY <2>3 DEF streamVars, StreamInv, PositionsInv, FlowInv, PacketInv, Seen
    <2> QED BY <2>1, <2>2, <2>3 DEF StreamNext, Done
<1> QED BY <1>1, <1>2, PTL DEF StreamSpec

(* The verdict on a stream is final, and what is shown of a datagram that  *)
(* the decode window cut is what all of it says (VerdictFinal): for every  *)
(* traffic, every segmentation and every window.                           *)
THEOREM StreamVerdictIsFinal == StreamSpec => []VerdictFinal
<1>1. StreamInv => VerdictFinal
    <2> SUFFICES ASSUME StreamInv PROVE VerdictFinal
        OBVIOUS
    <2> DEFINE o == sent.octets
    <2>1. /\ sent \in Traffic /\ begin \in Nat /\ end \in Nat /\ begin <= end /\ end <= Len(o)
          /\ FlowInv /\ PacketInv
        BY DEF StreamInv, PositionsInv
    <2>2. o \in Seq(Nat) /\ Len(o) \in Nat
        BY <2>1, TrafficIs
    <2> HIDE DEF o
    <2>3. ASSUME flow.by = "stream", NEW k \in end..Len(o)
          PROVE  app_decode_stream(sent.ports, Bytes(o, begin, k - begin)).app = flow.app
        <3>1. PICK n \in begin..end : flow.octets = Seen(n)
            BY <2>1, <2>3 DEF FlowInv
        <3>2. /\ app_decode_stream(sent.ports, flow.octets).result = "OK"
              /\ app_decode_stream(sent.ports, flow.octets).app = flow.app
            BY <2>1, <2>3 DEF FlowInv
        <3>3. n \in Nat /\ k \in Nat /\ begin <= n /\ n <= k /\ k <= Len(o)
            BY <2>1, <2>2, <2>3
        <3>4. flow.octets = Bytes(o, begin, n - begin)
            BY <3>1 DEF Seen, o
        <3>5. /\ flow.octets \in Seq(Nat) /\ Bytes(o, begin, k - begin) \in Seq(Nat)
              /\ Extends(Bytes(o, begin, k - begin), flow.octets)
            BY <2>1, <2>2, <3>3, <3>4, PiecesExtend
        <3>6. app_decode_stream(sent.ports, Bytes(o, begin, k - begin))
                  = app_decode_stream(sent.ports, flow.octets)
            BY <3>2, <3>5, StreamFinal
        <3> QED BY <3>2, <3>6
    <2>4. ASSUME sent.transport = "udp", packet.status = "DECODED"
          PROVE  PartOfWhole(packet.app, app_decode_packet("udp", sent.ports, o).app)
        <3>1. /\ packet.octets \in Seq(Nat) /\ Extends(o, packet.octets)
              /\ app_decode_packet("udp", sent.ports, packet.octets).result = "OK"
              /\ app_decode_packet("udp", sent.ports, packet.octets).app = packet.app
            BY <2>1, <2>4 DEF PacketInv, o
        <3>2. PartOfWhole(app_decode_packet("udp", sent.ports, packet.octets).app,
                          app_decode_packet("udp", sent.ports, o).app)
            BY <2>2, <3>1, DatagramPart
        <3> QED BY <3>1, <3>2
    <2> QED BY <2>3, <2>4, Zenon DEF VerdictFinal, PartOfWhole, o
<1> QED BY <1>1, StreamInvariant, PTL

(* The packet decoder and the stream decoder never disagree about the same *)
(* octets (PacketAgreesWithStream).                                        *)
THEOREM SniffingPathsAgree == StreamSpec => []PacketAgreesWithStream
<1>1. StreamInv => PacketAgreesWithStream
    <2> SUFFICES ASSUME StreamInv, sent.transport = "tcp", packet.status = "DECODED",
                        maybe_http_request_prefix(packet.octets)
                            => payload_starts_with_http(packet.octets)
                 PROVE  LET v == app_decode_stream(sent.ports, packet.octets)
                        IN  v.result = "NEED_MORE" \/ (v.result = "OK" /\ v.app = packet.app)
        BY Zenon DEF PacketAgreesWithStream
    <2>1. /\ packet.octets \in Seq(Nat)
          /\ app_decode_packet("tcp", sent.ports, packet.octets).result = "OK"
          /\ app_decode_packet("tcp", sent.ports, packet.octets).app = packet.app
        BY DEF StreamInv, PacketInv
    <2>2. SameVerdict(app_decode_stream(sent.ports, packet.octets),
                      app_decode_packet("tcp", sent.ports, packet.octets))
        BY <2>1, PacketAgrees
    <2> QED BY <2>1, <2>2 DEF SameVerdict
<1> QED BY <1>1, StreamInvariant, PTL

(* A well-formed TCP message is one that the stream decoder, given all of  *)
(* it, decodes to what it is, and that does not start with a bare method   *)
(* name.                                                                   *)
WellFormed ==
    \A t \in Traffic : t.transport = "tcp" /\ t.app # Unknown =>
        /\ app_decode_stream(t.ports, t.octets).result = "OK"
        /\ app_decode_stream(t.ports, t.octets).app = t.app
        /\ maybe_http_request_prefix(t.octets) => payload_starts_with_http(t.octets)

(* What a start of such a message is decoded to, as a packet or a stream,  *)
(* is what the message is.                                                 *)
LEMMA StartOfWellFormed ==
    ASSUME WellFormed, NEW t \in Traffic, t.transport = "tcp", t.app # Unknown,
           NEW d \in Seq(Nat), Extends(t.octets, d)
    PROVE  /\ app_decode_stream(t.ports, d).result = "OK" =>
                 app_decode_stream(t.ports, d).app = t.app
           /\ app_decode_packet("tcp", t.ports, d).result = "OK" =>
                 app_decode_packet("tcp", t.ports, d).app = t.app
<1>1. /\ app_decode_stream(t.ports, t.octets).result = "OK"
      /\ app_decode_stream(t.ports, t.octets).app = t.app
      /\ maybe_http_request_prefix(t.octets) => payload_starts_with_http(t.octets)
      /\ t.octets \in Seq(Nat)
    BY TrafficIs DEF WellFormed
<1>2. ASSUME app_decode_stream(t.ports, d).result = "OK"
      PROVE  app_decode_stream(t.ports, d).app = t.app
    BY <1>1, <1>2, StreamFinal
<1>3. ASSUME app_decode_packet("tcp", t.ports, d).result = "OK"
      PROVE  app_decode_packet("tcp", t.ports, d).app = t.app
    <2>1. d # <<>>
        BY <1>3, VerdictResult DEF app_decode_packet
    <2>2. CASE t.ports \cap {"http", "tls", "dns"} # {}
        <3>1. app_decode_packet("tcp", t.ports, d) = app_decode_stream(t.ports, d)
            BY <2>1, <2>2, Zenon DEF app_decode_packet
        <3> QED BY <1>2, <1>3, <3>1
    <2>3. CASE t.ports \cap {"http", "tls", "dns"} = {}
        <3>1. "tcp" # "udp" /\ t.octets # <<>>
            BY TrafficIs
        <3>2. /\ app_decode_packet("tcp", t.ports, d) = SniffPacket(d)
              /\ app_decode_packet("tcp", t.ports, t.octets) = SniffPacket(t.octets)
            BY <2>1, <2>3, <3>1, Zenon DEF app_decode_packet
        <3>3. SniffPacket(t.octets) = SniffPacket(d)
            BY <1>1, <1>3, <2>1, <3>2, SniffFinal
        <3>4. SameVerdict(app_decode_stream(t.ports, t.octets), SniffPacket(d))
            BY <1>1, <1>3, <3>2, <3>3, PacketAgrees
        <3> QED BY <1>1, <3>2, <3>4 DEF SameVerdict
    <2> QED BY <2>2, <2>3
<1> QED BY <1>2, <1>3

(* However a well-formed message is cut into segments, the flow is         *)
(* classified as what was sent when all of it has arrived, and as nothing  *)
(* else before (ClassifiedAsSent).                                         *)
THEOREM SentIsClassified == WellFormed => (StreamSpec => []ClassifiedAsSent)
<1> SUFFICES ASSUME WellFormed PROVE StreamSpec => []ClassifiedAsSent
    OBVIOUS
<1>1. StreamInv => ClassifiedAsSent
    <2> SUFFICES ASSUME StreamInv, sent.transport = "tcp", begin = 0, sent.app # Unknown
                 PROVE  /\ flow.by = "stream"
                              \/ (flow.by = "packet" /\ IsPrefix(flow.octets, sent.octets))
                              => flow.app = sent.app
                        /\ end = Len(sent.octets) => flow.by # "none"
        BY DEF ClassifiedAsSent
    <2> DEFINE o == sent.octets
    <2>1. /\ sent \in Traffic /\ end \in Nat /\ end <= Len(o) /\ begin < Len(o) /\ FlowInv
        BY DEF StreamInv, PositionsInv
    <2>2. o \in Seq(Nat) /\ Len(o) \in Nat
        BY <2>1, TrafficIs
    <2>3. \A d \in Seq(Nat) : Extends(o, d) =>
             /\ app_decode_stream(sent.ports, d).result = "OK" =>
                   app_decode_stream(sent.ports, d).app = sent.app
             /\ app_decode_packet("tcp", sent.ports, d).result = "OK" =>
                   app_decode_packet("tcp", sent.ports, d).app = sent.app
        BY <2>1, StartOfWellFormed, Zenon
    <2>4. \A n \in Nat : n <= Len(o) => /\ Seen(n) = Bytes(o, 0, n) /\ Seen(n) \in Seq(Nat)
                                        /\ Extends(o, Seen(n))
        <3> SUFFICES ASSUME NEW n \in Nat, n <= Len(o)
                     PROVE  /\ Seen(n) = Bytes(o, 0, n) /\ Seen(n) \in Seq(Nat)
                            /\ Extends(o, Seen(n))
            OBVIOUS
        <3>1. n - 0 = n
            OBVIOUS
        <3>2. Seen(n) = Bytes(o, 0, n)
            BY <3>1, Zenon DEF Seen
        <3> HIDE DEF o
        <3> QED BY <2>2, <3>2, WholeIs
    <2>5. CASE flow.by = "stream"
        <3>1. PICK n \in begin..end : flow.octets = Seen(n)
            BY <2>1, <2>5 DEF FlowInv
        <3>2. /\ app_decode_stream(sent.ports, flow.octets).result = "OK"
              /\ app_decode_stream(sent.ports, flow.octets).app = flow.app
            BY <2>1, <2>5 DEF FlowInv
        <3>3. n \in Nat /\ n <= Len(o)
            <4> HIDE DEF o
            <4> QED BY <2>1, <2>2
        <3> QED BY <2>3, <2>4, <2>5, <3>1, <3>2, <3>3
    <2>6. CASE flow.by = "packet"
        <3>1. /\ flow.octets \in Seq(Nat)
              /\ app_decode_packet("tcp", sent.ports, flow.octets).result = "OK"
              /\ app_decode_packet("tcp", sent.ports, flow.octets).app = flow.app
            BY <2>1, <2>6 DEF FlowInv
        <3>2. flow.octets \in Seq(Int) /\ o \in Seq(Int)
            BY <2>2, <3>1, OctetsAreInts
        <3>3. IsPrefix(flow.octets, o) => Extends(o, flow.octets)
            BY <3>2, PrefixIs
        <3> QED BY <2>3, <2>6, <3>1, <3>3
    <2>7. CASE flow.by = "none"
        <3> SUFFICES ASSUME end = Len(o) PROVE FALSE
            BY <2>7
        <3>1. end # begin
            <4> HIDE DEF o
            <4> QED BY <2>1, <2>2
        <3>2. app_decode_stream(sent.ports, Seen(end)).result # "OK"
            BY <2>1, <2>7, <3>1 DEF FlowInv
        <3>3. Seen(end) = o
            BY <2>1, <2>2, <2>4, WholeIs
        <3> QED BY <2>1, <3>2, <3>3 DEF WellFormed
    <2> QED BY <2>1, <2>5, <2>6, <2>7 DEF FlowInv
<1> QED BY <1>1, StreamInvariant, PTL

----------------------------------------------------------------------------
(* Reading escapes.                                                        *)

----------------------------------------------------------------------------
(* Reading escapes.                                                        *)

\* One step of the reading: the octet read at p, and where the next one is.
UnescapedStep(t, p, x, q) ==
    /\ q > p /\ q <= Len(t) /\ p < Len(t)
    /\ \A f : UnescapedFrom(t, f, p) = <<x>> \o f[q]

(* Every step of reading escapes takes one octet and moves on.             *)
LEMMA UnescapedSteps ==
    ASSUME NEW t \in Seq(Nat), NEW p \in 0..Len(t), p # Len(t)
    PROVE  \E x \in Int, q \in Nat : UnescapedStep(t, p, x, q)
<1>0. Len(t) \in Nat /\ p \in Nat /\ p + 1 \in Nat /\ p + 2 \in Nat /\ p + 4 \in Nat /\ p + 6 \in Nat
      /\ p < Len(t)
    OBVIOUS
<1>1. CASE t[p + 1] # Backslash \/ p + 1 = Len(t)
    <2>1. \A f : UnescapedFrom(t, f, p) = <<t[p + 1]>> \o f[p + 1]
        BY <1>1, Zenon DEF UnescapedFrom
    <2>2. t[p + 1] \in Int /\ p + 1 > p /\ p + 1 <= Len(t)
        BY <1>0
    <2> QED BY <1>0, <2>1, <2>2, Zenon DEF UnescapedStep
<1>2. CASE ~(t[p + 1] # Backslash \/ p + 1 = Len(t))
    <2>0. p + 2 <= Len(t) /\ p + 2 \in 1..Len(t) /\ t[p + 2] \in Nat
        BY <1>0, <1>2
    <2>1. \A o \in Nat : HexValue(o) \in Int
        BY DEF HexValue
    <2>2. CASE t[p + 2] = 120 /\ p + 4 <= Len(t)
        <3> DEFINE x == HexValue(t[p + 3]) * 16 + HexValue(t[p + 4])
        <3>1. \A f : UnescapedFrom(t, f, p) = <<x>> \o f[p + 4]
            BY <1>2, <2>2, Zenon DEF UnescapedFrom
        <3>2. p + 3 \in 1..Len(t) /\ p + 4 \in 1..Len(t)
            BY <1>0, <2>2
        <3>3. HexValue(t[p + 3]) \in Int /\ HexValue(t[p + 4]) \in Int
            BY SMTT(30), <2>1, <3>2
        <3>4. x \in Int /\ p + 4 > p
            BY <1>0, <3>3
        <3> HIDE DEF x
        <3>5. UnescapedStep(t, p, x, p + 4)
            BY <1>0, <2>2, <3>1, <3>4, Zenon DEF UnescapedStep
        <3> QED BY <1>0, <3>4, <3>5
    <2>3. CASE ~(t[p + 2] = 120 /\ p + 4 <= Len(t)) /\ t[p + 2] = 117 /\ p + 6 <= Len(t)
        <3> DEFINE x == HexValue(t[p + 5]) * 16 + HexValue(t[p + 6])
        <3>1. \A f : UnescapedFrom(t, f, p) = <<x>> \o f[p + 6]
            BY <1>2, <2>3, Zenon DEF UnescapedFrom
        <3>2. p + 5 \in 1..Len(t) /\ p + 6 \in 1..Len(t)
            BY <1>0, <2>3
        <3>3. HexValue(t[p + 5]) \in Int /\ HexValue(t[p + 6]) \in Int
            BY SMTT(30), <2>1, <3>2
        <3>4. x \in Int /\ p + 6 > p
            BY <1>0, <3>3
        <3> HIDE DEF x
        <3>5. UnescapedStep(t, p, x, p + 6)
            BY <1>0, <2>3, <3>1, <3>4, Zenon DEF UnescapedStep
        <3> QED BY <1>0, <3>4, <3>5
    <2>4. CASE ~(t[p + 2] = 120 /\ p + 4 <= Len(t)) /\ ~(t[p + 2] = 117 /\ p + 6 <= Len(t))
        <3>1. \A f : UnescapedFrom(t, f, p) = <<ShortOctet(t[p + 2])>> \o f[p + 2]
            BY <1>2, <2>4, Zenon DEF UnescapedFrom
        <3>2. ShortOctet(t[p + 2]) \in Int
            <4>1. ShortOctet(t[p + 2]) \in ShortEscapes \/ ShortOctet(t[p + 2]) = t[p + 2]
                BY Zenon DEF ShortOctet
            <4> QED BY <2>0, <4>1 DEF ShortEscapes
        <3>3. p + 2 > p
            BY <1>0
        <3> QED BY <1>0, <2>0, <3>1, <3>2, <3>3, Zenon DEF UnescapedStep
    <2> QED BY <2>2, <2>3, <2>4
<1> QED BY <1>1, <1>2

\* The function that Unescaped reads with.
UnescapedScan(t) == CHOOSE f : f = [p \in 0..Len(t) |-> UnescapedFrom(t, f, p)]

(* The reading of escapes follows its definition at every position.        *)
LEMMA UnescapedUnfold ==
    ASSUME NEW t \in Seq(Nat)
    PROVE  /\ Unescaped(t) = UnescapedScan(t)[0]
           /\ \A p \in 0..Len(t) : /\ UnescapedScan(t)[p] = UnescapedFrom(t, UnescapedScan(t), p)
                                   /\ UnescapedScan(t)[p] \in Seq(Int)
<1> DEFINE L == Len(t)
           Steps(p, y) == UnescapedStep(t, p, y[1], y[2])
           step == [p \in 0..L |-> IF p = L THEN <<0, L + 1>>
                                   ELSE CHOOSE y \in Int \X Nat : Steps(p, y)]
           head == [p \in 0..L |-> IF p = L THEN <<>> ELSE <<step[p][1]>>]
           next == [p \in 0..L |-> step[p][2]]
<1>0. L \in Nat
    OBVIOUS
<1>1. ASSUME NEW p \in 0..L, p # L
      PROVE  step[p] \in Int \X Nat /\ Steps(p, step[p])
    <2>1. \E y \in Int \X Nat : Steps(p, y)
        <3>1. PICK x \in Int, q \in Nat : UnescapedStep(t, p, x, q)
            BY <1>1, UnescapedSteps
        <3>2. <<x, q>> \in Int \X Nat /\ <<x, q>>[1] = x /\ <<x, q>>[2] = q
            OBVIOUS
        <3> QED BY <3>1, <3>2
    <2>2. step[p] = CHOOSE y \in Int \X Nat : Steps(p, y)
        BY <1>1
    <2> HIDE DEF step, Steps
    <2> QED BY <2>1, <2>2, Zenon
<1>2. step[L] = <<0, L + 1>>
    BY <1>0
<1> HIDE DEF step
<1>3. /\ \A p \in 0..L : p # L => /\ head[p] = <<step[p][1]>> /\ next[p] = step[p][2]
                                  /\ step[p][1] \in Int /\ step[p][2] \in Nat
                                  /\ UnescapedStep(t, p, step[p][1], step[p][2])
      /\ head[L] = <<>> /\ next[L] = L + 1
    BY <1>0, <1>1, <1>2
<1>4. Chain(L, Int, head, next)
    <2>1. \A p \in 0..L : head[p] \in Seq(Int)
        <3> SUFFICES ASSUME NEW p \in 0..L PROVE head[p] \in Seq(Int)
            OBVIOUS
        <3> HIDE DEF head, next
        <3>1. CASE p = L
            <4>1. head[p] = <<>>
                BY <1>3, <3>1
            <4> QED BY <4>1, EmptySeq, Zenon
        <3>2. CASE p # L
            <4>1. head[p] = <<step[p][1]>> /\ step[p][1] \in Int
                BY <1>3, <3>2
            <4> QED BY <4>1
        <3> QED BY <3>1, <3>2
    <2>2. \A p \in 0..L : next[p] \in Nat /\ next[p] > p
        <3> SUFFICES ASSUME NEW p \in 0..L PROVE next[p] \in Nat /\ next[p] > p
            OBVIOUS
        <3> HIDE DEF head, next
        <3>1. CASE p = L
            BY <1>0, <1>3, <3>1
        <3>2. CASE p # L
            <4>1. next[p] = step[p][2] /\ step[p][2] \in Nat
                  /\ UnescapedStep(t, p, step[p][1], step[p][2])
                BY <1>3, <3>2
            <4>2. step[p][2] > p
                BY <4>1, Zenon DEF UnescapedStep
            <4> QED BY <4>1, <4>2
        <3> QED BY <3>1, <3>2
    <2>3. head \in [0..L -> Seq(Int)] /\ next \in [0..L -> Nat]
        BY <2>1, <2>2
    <2> HIDE DEF head, next
    <2> QED BY <1>0, <2>2, <2>3 DEF Chain
<1> HIDE DEF head, next
<1>5. \A f : \A p \in 0..L : UnescapedFrom(t, f, p) = Link(f, L, head, next, p)
    <2> SUFFICES ASSUME NEW f, NEW p \in 0..L
                 PROVE  UnescapedFrom(t, f, p) = Link(f, L, head, next, p)
        OBVIOUS
    <2>1. CASE p = L
        <3>1. UnescapedFrom(t, f, p) = <<>>
            BY <2>1 DEF UnescapedFrom
        <3>2. next[p] > L /\ head[p] = <<>>
            BY <1>0, <1>3, <2>1
        <3> QED BY <3>1, <3>2 DEF Link
    <2>2. CASE p # L
        <3>1. UnescapedFrom(t, f, p) = <<step[p][1]>> \o f[step[p][2]]
            BY <1>3, <2>2 DEF UnescapedStep
        <3>2. ~(next[p] > L) /\ head[p] = <<step[p][1]>> /\ next[p] = step[p][2]
            <4>1. /\ head[p] = <<step[p][1]>> /\ next[p] = step[p][2] /\ step[p][2] \in Nat
                  /\ UnescapedStep(t, p, step[p][1], step[p][2])
                BY <1>3, <2>2
            <4>2. step[p][2] <= L
                BY <4>1, Zenon DEF UnescapedStep
            <4>3. ~(next[p] > L)
                <5> HIDE DEF L
                <5> QED BY <1>0, <4>1, <4>2
            <4> QED BY <4>1, <4>3
        <3> QED BY <3>1, <3>2, Zenon DEF Link
    <2> QED BY <2>1, <2>2
<1> DEFINE E == UnescapedScan(t)
<1>6. E = [p \in 0..L |-> UnescapedFrom(t, E, p)]
    <2>1. PICK f \in [0..L -> Seq(Int)] : f = [p \in 0..L |-> Link(f, L, head, next, p)]
        BY <1>4, ChainSolution
    <2>2. [p \in 0..L |-> UnescapedFrom(t, f, p)] = [p \in 0..L |-> Link(f, L, head, next, p)]
        BY <1>5
    <2>3. \E g : g = [p \in 0..L |-> UnescapedFrom(t, g, p)]
        BY <2>1, <2>2
    <2> QED BY <2>3, Zenon DEF UnescapedScan
<1> HIDE DEF E
<1>7. \A p \in 0..L : E[p] = UnescapedFrom(t, E, p)
    BY <1>6
<1>8. \A p \in 0..L : E[p] = Link(E, L, head, next, p)
    BY <1>5, <1>7
<1>9. \A p \in 0..L : E[p] \in Seq(Int)
    BY <1>4, <1>8, ChainType
<1>10. Unescaped(t) = UnescapedScan(t)[0]
    BY DEF Unescaped, UnescapedScan
<1> QED BY <1>7, <1>9, <1>10 DEF E

(* An octet and an escape that stands for it.                              *)
Escape(o, c) ==
    \/ o \in Nat /\ o # Backslash /\ c = <<o>>
    \/ o \in {Quote, Backslash} /\ c = <<Backslash, o>>
    \/ o \in ShortEscapes /\ c = <<Backslash, ShortLetter(o)>>
    \/ o \in 0..255 /\ c = <<Backslash, 120>> \o Hex(o)
    \/ o \in 0..255 /\ c = <<Backslash, 117, 48, 48>> \o Hex(o)

(* Two hexadecimal digits.                                                 *)
LEMMA HexIs ==
    ASSUME NEW o \in 0..255
    PROVE  /\ \E a, b \in (48..57) \cup (97..102) :
                  Hex(o) = <<a, b>> /\ HexValue(a) * 16 + HexValue(b) = o
<1> DEFINE h == o \div 16
           l == o % 16
<1>1. h \in 0..15 /\ l \in 0..15 /\ h * 16 + l = o
    OBVIOUS
<1> HIDE DEF h, l
<1>2. \A n \in 0..15 : HexDigit(n) \in (48..57) \cup (97..102) /\ HexValue(HexDigit(n)) = n
    <2> SUFFICES ASSUME NEW n \in 0..15
                 PROVE  HexDigit(n) \in (48..57) \cup (97..102) /\ HexValue(HexDigit(n)) = n
        OBVIOUS
    <2>1. CASE n < 10
        <3>1. HexDigit(n) = 48 + n
            BY <2>1 DEF HexDigit
        <3>2. 48 + n \in 48..57 /\ (48 + n) - 48 = n
            BY <2>1
        <3> QED BY <3>1, <3>2 DEF HexValue
    <2>2. CASE ~(n < 10)
        <3>1. HexDigit(n) = 87 + n
            BY <2>2 DEF HexDigit
        <3>2. 87 + n \in 97..102 /\ (87 + n) - 87 = n /\ 87 + n \notin 48..57
            BY <2>2
        <3> QED BY <3>1, <3>2 DEF HexValue
    <2> QED BY <2>1, <2>2
<1>3. Hex(o) = <<HexDigit(h), HexDigit(l)>>
    BY DEF Hex, h, l
<1>4. HexValue(HexDigit(h)) * 16 + HexValue(HexDigit(l)) = o
    BY <1>1, <1>2
<1> QED BY <1>1, <1>2, <1>3, <1>4

(* A short escape is read as the octet it was written for, and is no       *)
(* hexadecimal one.                                                        *)
LEMMA ShortIs ==
    /\ \A o \in ShortEscapes : /\ ShortLetter(o) \in 97..122 /\ ShortLetter(o) \notin {117, 120}
                               /\ ShortOctet(ShortLetter(o)) = o /\ o \in Nat
    /\ ShortOctet(Quote) = Quote /\ ShortOctet(Backslash) = Backslash
<1>1. /\ ShortLetter(8) = 98 /\ ShortLetter(9) = 116 /\ ShortLetter(10) = 110
      /\ ShortLetter(12) = 102 /\ ShortLetter(13) = 114
    BY DEF ShortLetter
<1>2. \A o \in ShortEscapes : o \in {8, 9, 10, 12, 13} /\ o \in Nat
    BY DEF ShortEscapes
<1>3. \A o \in ShortEscapes : ShortLetter(o) \in 97..122 /\ ShortLetter(o) \notin {117, 120}
    BY <1>1, <1>2
<1>4. \A o, q \in ShortEscapes : ShortLetter(o) = ShortLetter(q) => o = q
    BY <1>1, <1>2
<1>5. \A o \in ShortEscapes : ShortOctet(ShortLetter(o)) = o
    BY <1>4, Zenon DEF ShortOctet
<1>6. \A l : l \notin 97..122 => ShortOctet(l) = l
    BY <1>3 DEF ShortOctet
<1>7. Quote \notin 97..122 /\ Backslash \notin 97..122
    BY DEF Quote, Backslash
<1> QED BY <1>2, <1>3, <1>5, <1>6, <1>7

(* Reading an escape where it stands.                                      *)
LEMMA EscapeRead ==
    ASSUME NEW w \in Seq(Nat), NEW p \in Nat, NEW o, NEW c, Escape(o, c), StandsAt(w, p, c)
    PROVE  /\ Len(c) \in Nat /\ Len(c) > 0 /\ o \in Int
           /\ \A f : UnescapedFrom(w, f, p) = <<o>> \o f[p + Len(c)]
<1>0. Len(w) \in Nat /\ Quote = 34 /\ Backslash = 92 /\ Quote # Backslash
    BY DEF Quote, Backslash
<1>1. CASE o \in Nat /\ o # Backslash /\ c = <<o>>
    <2>1. Len(c) = 1 /\ c[1] = o
        BY <1>1
    <2>2. p + 1 <= Len(w) /\ w[p + 1] = o /\ p # Len(w)
        BY <1>0, <2>1 DEF StandsAt
    <2>3. \A f : UnescapedFrom(w, f, p) = <<o>> \o f[p + 1]
        BY <1>1, <2>2, Zenon DEF UnescapedFrom
    <2> QED BY <1>1, <2>1, <2>3
<1>2. CASE o \in {Quote, Backslash} /\ c = <<Backslash, o>>
    <2>1. Len(c) = 2 /\ c[1] = Backslash /\ c[2] = o
        BY <1>2
    <2>2. p + 2 <= Len(w) /\ w[p + 1] = Backslash /\ w[p + 2] = o /\ p # Len(w) /\ p + 1 # Len(w)
        BY <1>0, <2>1 DEF StandsAt
    <2>3. w[p + 2] # 120 /\ w[p + 2] # 117 /\ o \in Int
        BY SMTT(30), <1>0, <1>2, <2>2
    <2>4. \A f : UnescapedFrom(w, f, p) = <<ShortOctet(o)>> \o f[p + 2]
        BY <2>2, <2>3, Zenon DEF UnescapedFrom
    <2>5. ShortOctet(o) = o
        BY <1>2, ShortIs
    <2> QED BY <2>1, <2>3, <2>4, <2>5
<1>3. CASE o \in ShortEscapes /\ c = <<Backslash, ShortLetter(o)>>
    <2>1. Len(c) = 2 /\ c[1] = Backslash /\ c[2] = ShortLetter(o)
        BY <1>3
    <2>2. /\ p + 2 <= Len(w) /\ w[p + 1] = Backslash /\ w[p + 2] = ShortLetter(o)
          /\ p # Len(w) /\ p + 1 # Len(w)
        BY <1>0, <2>1 DEF StandsAt
    <2>3. ShortOctet(ShortLetter(o)) = o /\ w[p + 2] # 120 /\ w[p + 2] # 117 /\ o \in Int
        BY <1>3, <2>2, ShortIs
    <2>4. \A f : UnescapedFrom(w, f, p) = <<ShortOctet(ShortLetter(o))>> \o f[p + 2]
        BY <2>2, <2>3, Zenon DEF UnescapedFrom
    <2> QED BY <2>1, <2>3, <2>4
<1>4. CASE o \in 0..255 /\ c = <<Backslash, 120>> \o Hex(o)
    <2>1. PICK a, b \in (48..57) \cup (97..102) :
              Hex(o) = <<a, b>> /\ HexValue(a) * 16 + HexValue(b) = o
        BY ZenonT(40), <1>4, HexIs
    <2>2. Len(c) = 4 /\ c[1] = Backslash /\ c[2] = 120 /\ c[3] = a /\ c[4] = b
        BY <1>4, <2>1
    <2>3. /\ p + 4 <= Len(w) /\ w[p + 1] = Backslash /\ w[p + 2] = 120
          /\ w[p + 3] = a /\ w[p + 4] = b /\ p # Len(w) /\ p + 1 # Len(w)
        <3>1. p + 4 <= Len(w) /\ \A j \in 1..4 : w[p + j] = c[j]
            BY <2>2 DEF StandsAt
        <3>2. 1 \in 1..4 /\ 2 \in 1..4 /\ 3 \in 1..4 /\ 4 \in 1..4
            OBVIOUS
        <3>3. w[p + 1] = c[1] /\ w[p + 2] = c[2] /\ w[p + 3] = c[3] /\ w[p + 4] = c[4]
            BY <3>1, <3>2, Zenon
        <3>4. p # Len(w) /\ p + 1 # Len(w)
            BY <1>0, <3>1
        <3> QED BY <2>2, <3>1, <3>3, <3>4, Zenon
    <2>4. \A f : UnescapedFrom(w, f, p) = <<HexValue(a) * 16 + HexValue(b)>> \o f[p + 4]
        BY <2>3, Zenon DEF UnescapedFrom
    <2>5. o \in Int
        BY <1>4
    <2> QED BY SMTT(30), <2>1, <2>2, <2>4, <2>5
<1>5. CASE o \in 0..255 /\ c = <<Backslash, 117, 48, 48>> \o Hex(o)
    <2>1. PICK a, b \in (48..57) \cup (97..102) :
              Hex(o) = <<a, b>> /\ HexValue(a) * 16 + HexValue(b) = o
        BY ZenonT(40), <1>5, HexIs
    <2>2. Len(c) = 6 /\ c[1] = Backslash /\ c[2] = 117 /\ c[5] = a /\ c[6] = b
        BY <1>5, <2>1
    <2>3. /\ p + 6 <= Len(w) /\ w[p + 1] = Backslash /\ w[p + 2] = 117
          /\ w[p + 5] = a /\ w[p + 6] = b /\ p # Len(w) /\ p + 1 # Len(w)
        <3>1. p + 6 <= Len(w) /\ \A j \in 1..6 : w[p + j] = c[j]
            BY <2>2 DEF StandsAt
        <3>2. 1 \in 1..6 /\ 2 \in 1..6 /\ 5 \in 1..6 /\ 6 \in 1..6
            OBVIOUS
        <3>3. w[p + 1] = c[1] /\ w[p + 2] = c[2] /\ w[p + 5] = c[5] /\ w[p + 6] = c[6]
            BY <3>1, <3>2, Zenon
        <3>4. p # Len(w) /\ p + 1 # Len(w)
            BY <1>0, <3>1
        <3> QED BY <2>2, <3>1, <3>3, <3>4, Zenon
    <2>4. 117 # 120
        OBVIOUS
    <2>5. \A f : UnescapedFrom(w, f, p) = <<HexValue(a) * 16 + HexValue(b)>> \o f[p + 6]
        BY <2>3, <2>4, ZenonT(40) DEF UnescapedFrom
    <2>6. o \in Int
        BY <1>5
    <2> QED BY SMTT(30), <2>1, <2>2, <2>5, <2>6
<1> QED BY <1>1, <1>2, <1>3, <1>4, <1>5 DEF Escape

(* Reading back what was written as escapes gives the octets.              *)
LEMMA UnescapedIs ==
    ASSUME NEW u \in Seq(Int), NEW s \in Seq(Seq(Nat)), Len(s) = Len(u),
           \A k \in 1..Len(u) : Escape(u[k], s[k])
    PROVE  Unescaped(FlattenSeq(s)) = u
<1> DEFINE w == FlattenSeq(s)
           n == Len(u)
           E == UnescapedScan(w)
<1>0. n \in Nat /\ Len(s) = n
    OBVIOUS
<1>1. w \in Seq(Nat) /\ \E at : LaidOut(s, w, at)
    BY FlattenIs
<1>2. PICK at : LaidOut(s, w, at)
    BY <1>1
<1> HIDE DEF w
<1>3. Unescaped(w) = E[0] /\ \A p \in 0..Len(w) : E[p] = UnescapedFrom(w, E, p)
    BY <1>1, UnescapedUnfold
<1>4. at \in [0..n -> Nat] /\ at[0] = 0 /\ at[n] = Len(w) /\ Len(w) \in Nat
    BY <1>0, <1>1, <1>2 DEF LaidOut
<1> HIDE DEF E
<1> DEFINE T == {k \in 0..n : E[at[n - k]] = SubSeq(u, n - k + 1, n)}
<1>5. 0 \in T
    <2>1. E[Len(w)] = UnescapedFrom(w, E, Len(w))
        BY <1>3, <1>4
    <2>2. E[Len(w)] = <<>>
        BY <2>1 DEF UnescapedFrom
    <2>3. SubSeq(u, n + 1, n) = <<>>
        BY <1>0
    <2>4. n - 0 = n /\ 0 \in 0..n
        BY <1>0
    <2>5. E[at[n - 0]] = SubSeq(u, n - 0 + 1, n)
        BY <1>4, <2>2, <2>3, <2>4
    <2> QED BY <2>4, <2>5
<1>6. ASSUME NEW k \in 0..n, k \in T, k < n PROVE k + 1 \in T
    <2> DEFINE m == n - (k + 1)
    <2>1. m \in 0..(n - 1) /\ m + 1 = n - k /\ m + 1 \in 1..n /\ k + 1 \in 0..n /\ m + 2 = n - k + 1
          /\ n - (k + 1) + 1 = m + 1
        <3> HIDE DEF T
        <3> QED BY <1>0, <1>6
    <2>2. E[at[m + 1]] = SubSeq(u, m + 2, n)
        BY <1>6, <2>1
    <2> HIDE DEF m, T
    <2>3. /\ at[m] \in Nat /\ at[m + 1] = at[m] + Len(s[m + 1]) /\ StandsAt(w, at[m], s[m + 1])
          /\ at[m + 1] <= Len(w)
        BY <1>0, <1>2, <2>1, PlacedAt
    <2>4. Escape(u[m + 1], s[m + 1])
        BY <2>1
    <2>5. /\ Len(s[m + 1]) \in Nat
          /\ \A f : UnescapedFrom(w, f, at[m]) = <<u[m + 1]>> \o f[at[m] + Len(s[m + 1])]
        <3> DEFINE q == at[m]
                   o == u[m + 1]
                   c == s[m + 1]
        <3>1. q \in Nat /\ w \in Seq(Nat) /\ Escape(o, c) /\ StandsAt(w, q, c)
            BY <1>1, <2>3, <2>4
        <3> HIDE DEF q, o, c
        <3>2. Len(c) \in Nat /\ \A f : UnescapedFrom(w, f, q) = <<o>> \o f[q + Len(c)]
            BY <3>1, EscapeRead
        <3> QED BY <3>2 DEF q, o, c
    <2>6. at[m] \in 0..Len(w)
        BY SMTT(30), <1>4, <2>3, <2>5
    <2>7. E[at[m]] = <<u[m + 1]>> \o E[at[m + 1]]
        BY <1>3, <2>3, <2>5, <2>6
    <2>8. <<u[m + 1]>> \o SubSeq(u, (m + 1) + 1, n) = SubSeq(u, m + 1, n)
        BY <2>1, SuffixStep
    <2>9. (m + 1) + 1 = m + 2
        BY <2>1
    <2>10. E[at[m]] = SubSeq(u, m + 1, n)
        BY <2>2, <2>7, <2>8, <2>9, Zenon
    <2> QED BY <2>1, <2>10 DEF T, m
<1>7. \A k \in 0..n : k \in T /\ k < n => k + 1 \in T
    BY <1>6
<1>8. \A k \in 0..n : k \in T
    <2>1. 0 \in Nat
        OBVIOUS
    <2> HIDE DEF T, n
    <2> QED BY <1>0, <1>5, <1>7, <2>1, IntervalInduction
<1>9. E[at[0]] = SubSeq(u, 1, n)
    <2>1. n \in 0..n /\ n - n = 0 /\ n - n + 1 = 1
        BY <1>0
    <2>2. E[at[n - n]] = SubSeq(u, n - n + 1, n)
        BY <1>8, <2>1
    <2> QED BY <2>1, <2>2
<1>10. SubSeq(u, 1, n) = u
    OBVIOUS
<1> QED BY <1>3, <1>4, <1>9, <1>10 DEF w

----------------------------------------------------------------------------
(* Reading JSON strings.                                                   *)

(* Reading a JSON string.                                                  *)

\* The function that JsonContent looks for the end with.
StringEnds(t) == CHOOSE f : f = [p \in 0..Len(t) |-> StringEndFrom(t, f, p)]

(* The search for the end of a JSON string follows its definition.         *)
LEMMA StringEndsUnfold ==
    ASSUME NEW t \in Seq(Nat)
    PROVE  \A p \in 0..Len(t) : StringEnds(t)[p] = StringEndFrom(t, StringEnds(t), p)
<1> DEFINE L == Len(t)
           V == Nat
           body(f) == [p \in 0..L |-> StringEndFrom(t, f, p)]
           F == [f \in [0..L -> V] |-> body(f)]
<1>0. L \in Nat /\ V # {}
    <2>1. 0 \in V
        OBVIOUS
    <2>2. L \in Nat
        OBVIOUS
    <2> QED BY <2>1, <2>2, Zenon
<1>1. ASSUME NEW p \in 0..L
      PROVE  \/ \A f : StringEndFrom(t, f, p) = p
             \/ \E q \in 0..L : p < q /\ \A f : StringEndFrom(t, f, p) = f[q]
    <2>1. CASE p = L \/ t[p + 1] = Quote
        BY <2>1, Zenon DEF StringEndFrom
    <2>2. CASE ~(p = L \/ t[p + 1] = Quote) /\ t[p + 1] # Backslash
        <3>1. \A f : StringEndFrom(t, f, p) = f[p + 1]
            BY <2>2, Zenon DEF StringEndFrom
        <3>2. p + 1 \in 0..L /\ p < p + 1
            BY <1>0, <2>2
        <3> QED BY <3>1, <3>2
    <2>3. CASE ~(p = L \/ t[p + 1] = Quote) /\ ~(t[p + 1] # Backslash) /\ p + 1 < L
        <3>1. \A f : StringEndFrom(t, f, p) = f[p + 2]
            BY <2>3, Zenon DEF StringEndFrom
        <3>2. p + 2 \in 0..L /\ p < p + 2
            BY <1>0, <2>3
        <3> QED BY <3>1, <3>2
    <2>4. CASE ~(p = L \/ t[p + 1] = Quote) /\ ~(t[p + 1] # Backslash) /\ ~(p + 1 < L)
        BY <2>4, Zenon DEF StringEndFrom
    <2> QED BY <2>1, <2>2, <2>3, <2>4
<1>2. \A f \in [0..L -> V] : \A p \in 0..L : StringEndFrom(t, f, p) \in V
    <2> SUFFICES ASSUME NEW f \in [0..L -> V], NEW p \in 0..L PROVE StringEndFrom(t, f, p) \in V
        OBVIOUS
    <2> QED BY SMTT(30), <1>1
<1>3. F \in [[0..L -> V] -> [0..L -> V]] /\ \A f \in [0..L -> V] : F[f] = body(f)
    BY <1>2
<1>4. \A f, g \in [0..L -> V], p \in 0..L :
         (\A q \in 0..L : p < q => f[q] = g[q]) => F[f][p] = F[g][p]
    <2> SUFFICES ASSUME NEW f \in [0..L -> V], NEW g \in [0..L -> V], NEW p \in 0..L,
                        \A q \in 0..L : p < q => f[q] = g[q]
                 PROVE  F[f][p] = F[g][p]
        OBVIOUS
    <2>1. F[f][p] = StringEndFrom(t, f, p) /\ F[g][p] = StringEndFrom(t, g, p)
        <3> HIDE DEF F
        <3> QED BY ZenonT(40), <1>3
    <2>2. StringEndFrom(t, f, p) = StringEndFrom(t, g, p)
        BY <1>1
    <2> QED BY <2>1, <2>2, Zenon
<1>5. \E f : f = body(f)
    <2> HIDE DEF F, V, body, L
    <2>1. DefinesDownward(L, V, F)
        BY <1>0, <1>3, <1>4, Zenon DEF DefinesDownward
    <2>2. \E f \in [0..L -> V] : f = F[f]
        BY <2>1, DownwardSolution
    <2> QED BY <1>3, <2>2
<1> DEFINE E == StringEnds(t)
<1>6. E = body(E)
    <2>1. E = CHOOSE f : f = body(f)
        BY DEF StringEnds
    <2> HIDE DEF body, E
    <2> QED BY <1>5, <2>1, Zenon
<1> HIDE DEF E
<1>7. \A p \in 0..L : E[p] = StringEndFrom(t, E, p)
    BY SMTT(30), <1>6
<1> QED BY <1>7 DEF E

\* A piece of a JSON string that holds no bare quote.
JsonPiece(c) ==
    \/ \E o \in Nat : o \notin {Quote, Backslash} /\ c = <<o>>
    \/ \E o \in Nat : c = <<Backslash, o>>
    \/ \E o \in 0..255 : c = <<Backslash, 117, 48, 48>> \o Hex(o)

(* A piece without a bare quote does not end the string.                   *)
LEMMA PieceRead ==
    ASSUME NEW w \in Seq(Nat), NEW p \in Nat, NEW c, JsonPiece(c), StandsAt(w, p, c)
    PROVE  Len(c) \in Nat /\ StringEnds(w)[p] = StringEnds(w)[p + Len(c)]
<1> DEFINE E == StringEnds(w)
<1>0. Len(w) \in Nat /\ Quote = 34 /\ Backslash = 92 /\ Quote # Backslash
    BY DEF Quote, Backslash
<1>1. \A q \in 0..Len(w) : E[q] = StringEndFrom(w, E, q)
    BY StringEndsUnfold
<1> HIDE DEF E
<1>2. \A q \in Nat : q + 1 <= Len(w) /\ w[q + 1] \notin {Quote, Backslash} => E[q] = E[q + 1]
    <2> SUFFICES ASSUME NEW q \in Nat, q + 1 <= Len(w), w[q + 1] \notin {Quote, Backslash}
                 PROVE  E[q] = E[q + 1]
        OBVIOUS
    <2>1. q \in 0..Len(w) /\ q # Len(w) /\ w[q + 1] # Quote /\ w[q + 1] # Backslash
        BY <1>0
    <2> QED BY <1>1, <2>1, Zenon DEF StringEndFrom
<1>3. \A q \in Nat : q + 2 <= Len(w) /\ w[q + 1] = Backslash => E[q] = E[q + 2]
    <2> SUFFICES ASSUME NEW q \in Nat, q + 2 <= Len(w), w[q + 1] = Backslash
                 PROVE  E[q] = E[q + 2]
        OBVIOUS
    <2>1. q \in 0..Len(w) /\ q # Len(w) /\ w[q + 1] # Quote /\ q + 1 < Len(w)
        BY <1>0
    <2> QED BY <1>1, <2>1, Zenon DEF StringEndFrom
<1>4. CASE \E o \in Nat : o \notin {Quote, Backslash} /\ c = <<o>>
    <2>1. PICK o \in Nat : o \notin {Quote, Backslash} /\ c = <<o>>
        BY <1>4
    <2>2. Len(c) = 1 /\ c[1] = o
        BY <2>1
    <2>3. p + 1 <= Len(w) /\ w[p + 1] = o
        BY <2>2 DEF StandsAt
    <2> QED BY <1>2, <2>1, <2>2, <2>3 DEF E
<1>5. CASE \E o \in Nat : c = <<Backslash, o>>
    <2>1. PICK o \in Nat : c = <<Backslash, o>>
        BY <1>5
    <2>2. Len(c) = 2 /\ c[1] = Backslash
        BY <2>1
    <2>3. p + 2 <= Len(w) /\ w[p + 1] = Backslash
        BY <2>2 DEF StandsAt
    <2> QED BY <1>3, <2>2, <2>3 DEF E
<1>6. CASE \E o \in 0..255 : c = <<Backslash, 117, 48, 48>> \o Hex(o)
    <2>1. PICK o \in 0..255 : c = <<Backslash, 117, 48, 48>> \o Hex(o)
        BY ZenonT(40), <1>6
    <2>2. PICK a, b \in (48..57) \cup (97..102) :
              Hex(o) = <<a, b>> /\ HexValue(a) * 16 + HexValue(b) = o
        BY ZenonT(40), HexIs
    <2>3. Len(c) = 6 /\ c[1] = Backslash /\ c[3] = 48 /\ c[4] = 48 /\ c[5] = a /\ c[6] = b
        BY <2>1, <2>2
    <2>4. p + 6 <= Len(w) /\ \A j \in 1..6 : w[p + j] = c[j]
        BY <2>3 DEF StandsAt
    <2>5. 1 \in 1..6 /\ 3 \in 1..6 /\ 4 \in 1..6 /\ 5 \in 1..6 /\ 6 \in 1..6
        OBVIOUS
    <2>6. /\ w[p + 1] = Backslash /\ w[p + 3] = 48 /\ w[p + 4] = 48 /\ w[p + 5] = a
          /\ w[p + 6] = b
        BY <2>3, <2>4, <2>5, ZenonT(40)
    <2>7. a \notin {Quote, Backslash} /\ b \notin {Quote, Backslash} /\ 48 \notin {Quote, Backslash}
        BY <1>0, <2>2
    <2>8. /\ p + 2 \in Nat /\ p + 3 \in Nat /\ p + 4 \in Nat /\ p + 5 \in Nat /\ p + 6 \in Nat
          /\ p + 3 = p + 2 + 1 /\ p + 4 = p + 3 + 1 /\ p + 5 = p + 4 + 1 /\ p + 6 = p + 5 + 1
          /\ p + 2 <= Len(w) /\ p + 3 <= Len(w) /\ p + 4 <= Len(w) /\ p + 5 <= Len(w)
          /\ p + 6 <= Len(w)
        <3>1. p + 6 <= Len(w)
            BY <2>4, Zenon
        <3> QED BY <1>0, <3>1
    <2>a. \A q \in Nat, r \in Nat :
             r = q + 1 /\ r <= Len(w) /\ w[r] \notin {Quote, Backslash} => E[q] = E[r]
        BY <1>2
    <2>9. E[p] = E[p + 2]
        BY <1>3, <2>6, <2>8
    <2>10. E[p + 2] = E[p + 3]
        <3>1. w[p + 3] \notin {Quote, Backslash}
            BY <2>6, <2>7, Zenon
        <3>2. p + 2 \in Nat /\ p + 3 \in Nat /\ p + 3 = p + 2 + 1 /\ p + 3 <= Len(w)
            BY <2>8, Zenon
        <3> QED BY <2>a, <3>1, <3>2, Zenon
    <2>11. E[p + 3] = E[p + 4]
        <3>1. w[p + 4] \notin {Quote, Backslash}
            BY <2>6, <2>7, Zenon
        <3>2. p + 3 \in Nat /\ p + 4 \in Nat /\ p + 4 = p + 3 + 1 /\ p + 4 <= Len(w)
            BY <2>8, Zenon
        <3> QED BY <2>a, <3>1, <3>2, Zenon
    <2>12. E[p + 4] = E[p + 5]
        <3>1. w[p + 5] \notin {Quote, Backslash}
            BY <2>6, <2>7, Zenon
        <3>2. p + 4 \in Nat /\ p + 5 \in Nat /\ p + 5 = p + 4 + 1 /\ p + 5 <= Len(w)
            BY <2>8, Zenon
        <3> QED BY <2>a, <3>1, <3>2, Zenon
    <2>13. E[p + 5] = E[p + 6]
        <3>1. w[p + 6] \notin {Quote, Backslash}
            BY <2>6, <2>7, Zenon
        <3>2. p + 5 \in Nat /\ p + 6 \in Nat /\ p + 6 = p + 5 + 1 /\ p + 6 <= Len(w)
            BY <2>8, Zenon
        <3> QED BY <2>a, <3>1, <3>2, Zenon
    <2> QED BY SMTT(30), <2>3, <2>9, <2>10, <2>11, <2>12, <2>13 DEF E
<1> QED BY ZenonT(40), <1>4, <1>5, <1>6 DEF JsonPiece

(* So a string of such pieces ends where it was meant to.                  *)
LEMMA StringEndIs ==
    ASSUME NEW s \in Seq(Seq(Nat)), \A k \in 1..Len(s) : JsonPiece(s[k])
    PROVE  StringEnds(FlattenSeq(s))[0] = Len(FlattenSeq(s))
<1> DEFINE w == FlattenSeq(s)
           n == Len(s)
           E == StringEnds(w)
<1>0. n \in Nat
    OBVIOUS
<1>1. w \in Seq(Nat) /\ \E at : LaidOut(s, w, at)
    BY FlattenIs
<1>2. PICK at : LaidOut(s, w, at)
    BY <1>1
<1> HIDE DEF w
<1>3. \A p \in 0..Len(w) : E[p] = StringEndFrom(w, E, p)
    BY <1>1, StringEndsUnfold
<1>4. at \in [0..n -> Nat] /\ at[0] = 0 /\ at[n] = Len(w) /\ Len(w) \in Nat
    BY <1>0, <1>1, <1>2 DEF LaidOut
<1> DEFINE T == {k \in 0..n : E[0] = E[at[k]]}
<1>5. 0 \in T
    <2> HIDE DEF E
    <2> QED BY <1>0, <1>4
<1>6. ASSUME NEW k \in 0..n, k \in T, k < n PROVE k + 1 \in T
    <2>1. E[0] = E[at[k]]
        BY <1>6
    <2> HIDE DEF T
    <2>2. k \in 0..(n - 1) /\ k + 1 \in 1..n /\ k + 1 \in 0..n
        BY <1>0, <1>6
    <2>3. /\ at[k] \in Nat /\ at[k + 1] = at[k] + Len(s[k + 1]) /\ StandsAt(w, at[k], s[k + 1])
        BY <1>0, <1>2, <2>2, PlacedAt
    <2>4. JsonPiece(s[k + 1])
        BY <2>2
    <2>5. E[at[k]] = E[at[k] + Len(s[k + 1])]
        <3> DEFINE q == at[k]
                   c == s[k + 1]
        <3>1. q \in Nat /\ w \in Seq(Nat) /\ JsonPiece(c) /\ StandsAt(w, q, c)
            BY <1>1, <2>3, <2>4
        <3> HIDE DEF q, c
        <3>2. E[q] = E[q + Len(c)]
            BY <3>1, PieceRead
        <3> QED BY <3>2 DEF q, c
    <2>6. E[0] = E[at[k + 1]]
        <3> HIDE DEF E
        <3> QED BY <2>1, <2>3, <2>5
    <2> QED BY <2>2, <2>6 DEF T
<1>7. \A k \in 0..n : k \in T /\ k < n => k + 1 \in T
    BY <1>6
<1>8. n \in T
    <2>1. 0 \in Nat
        OBVIOUS
    <2> HIDE DEF T, n
    <2>2. \A k \in 0..n : k \in T
        BY <1>0, <1>5, <1>7, <2>1, IntervalInduction
    <2> QED BY <1>0, <2>2
<1>9. E[0] = E[Len(w)]
    <2> HIDE DEF E
    <2> QED BY <1>4, <1>8
<1>10. E[Len(w)] = Len(w)
    <2>1. E[Len(w)] = StringEndFrom(w, E, Len(w))
        BY <1>3, <1>4
    <2> HIDE DEF E
    <2> QED BY <2>1 DEF StringEndFrom
<1> QED BY <1>9, <1>10 DEF w

(* What is between two quotes.                                             *)
LEMMA InnerIs ==
    ASSUME NEW S, NEW w \in Seq(S), NEW q \in S
    PROVE  LET s == <<q>> \o w \o <<q>>
           IN  /\ SubSeq(s, 2, Len(s) - 1) = w
               /\ s \in Seq(S)
<1> DEFINE a == <<q>>
           x == a \o w
           s == x \o a
<1>1. a \in Seq(S) /\ Len(a) = 1 /\ Len(w) \in Nat
    OBVIOUS
<1>2. /\ x \in Seq(S) /\ Len(x) = Len(w) + 1
      /\ \A j \in 1..Len(w) : x[1 + j] = w[j]
    <2> HIDE DEF a
    <2>1. /\ a \o w \in Seq(S) /\ Len(a \o w) = Len(a) + Len(w)
          /\ \A j \in 1..Len(w) : (a \o w)[Len(a) + j] = w[j]
        <3>1. w \in Seq(S) /\ a \in Seq(S)
            BY <1>1
        <3> HIDE DEF x, s
        <3> QED BY <3>1, ConcatIs
    <2> QED BY <1>1, <2>1
<1> HIDE DEF x, a
<1>3. /\ s \in Seq(S) /\ Len(s) = Len(x) + 1
      /\ \A j \in 1..Len(x) : s[j] = x[j]
    <2>1. /\ x \o a \in Seq(S) /\ Len(x \o a) = Len(x) + Len(a)
          /\ \A j \in 1..Len(x) : (x \o a)[j] = x[j]
        <3>1. x \in Seq(S) /\ a \in Seq(S)
            BY <1>1, <1>2
        <3> HIDE DEF s
        <3> QED BY <3>1, ConcatIs
    <2> QED BY <1>1, <2>1
<1> HIDE DEF s
<1> DEFINE i == SubSeq(s, 2, Len(s) - 1)
<1>4. Len(s) - 1 = Len(w) + 1 /\ Len(s) \in Nat
    BY <1>1, <1>2, <1>3
<1>5. i \in Seq(S) /\ Len(i) = Len(w) /\ \A j \in 1..Len(w) : i[j] = s[1 + j]
    BY <1>1, <1>3, <1>4
<1> HIDE DEF i
<1>6. \A j \in 1..Len(w) : i[j] = w[j]
    BY <1>1, <1>2, <1>3, <1>5
<1>7. i = w
    BY <1>5, <1>6, SeqEqual
<1> QED BY <1>3, <1>7 DEF i, s, x, a

(* A JSON string written in such pieces holds the octets they stand for.   *)
LEMMA JsonContentIs ==
    ASSUME NEW u \in Seq(Int), NEW s \in Seq(Seq(Nat)), Len(s) = Len(u),
           \A k \in 1..Len(u) : Escape(u[k], s[k]), \A k \in 1..Len(s) : JsonPiece(s[k])
    PROVE  JsonContent(<<Quote>> \o FlattenSeq(s) \o <<Quote>>) = u
<1> DEFINE w == FlattenSeq(s)
           j == <<Quote>> \o w \o <<Quote>>
<1>1. w \in Seq(Nat) /\ Quote \in Nat
    BY FlattenIs DEF Quote
<1>2. Unescaped(w) = u
    BY UnescapedIs
<1>3. StringEnds(w)[0] = Len(w)
    BY StringEndIs
<1> HIDE DEF w
<1>4. SubSeq(j, 2, Len(j) - 1) = w
    BY <1>1, InnerIs
<1> HIDE DEF j
<1>5. JsonContent(j) = IF StringEnds(w)[0] = Len(w) THEN Unescaped(w) ELSE Malformed
    BY <1>4, Zenon DEF JsonContent, StringEnds
<1>6. JsonContent(j) = u
    BY <1>2, <1>3, <1>5
<1> QED BY <1>6 DEF j, w

----------------------------------------------------------------------------
(* How an octet is written.                                                *)

ByteValues == 0..255

(* A hexadecimal number is printable.                                      *)
LEMMA HexPrintable == \A o \in ByteValues : Hex(o) \in Seq(Printable) /\ Len(Hex(o)) = 2
<1> SUFFICES ASSUME NEW o \in ByteValues PROVE Hex(o) \in Seq(Printable) /\ Len(Hex(o)) = 2
    BY SMTT(30)
<1>1. PICK a, b \in (48..57) \cup (97..102) :
          Hex(o) = <<a, b>> /\ HexValue(a) * 16 + HexValue(b) = o
    BY ZenonT(40), HexIs DEF ByteValues
<1>2. a \in Printable /\ b \in Printable
    BY DEF Printable
<1> QED BY <1>1, <1>2

\* How an octet is shown on the terminal, and in the payload of a JSON record.
TerminalOctet(o) ==
    IF o = Backslash THEN <<Backslash, Backslash>>
    ELSE IF o \in Printable THEN <<o>> ELSE EscapedOctet(o)

JsonPayloadOctet(o) ==
    IF o \in {Quote, Backslash} THEN <<Backslash, o>>
    ELSE IF o \in Printable THEN <<o>> ELSE <<46>>

PayloadShown(o) == IF o \in Printable THEN o ELSE 46

\* Neither a control octet nor DEL.
Visible == {o \in Nat : o >= 32 /\ o # 127}

(* Each piece is printable and stands for its octet.                       *)
LEMMA TerminalPiece ==
    ASSUME NEW o \in ByteValues
    PROVE  TerminalOctet(o) \in Seq(Printable) /\ Escape(o, TerminalOctet(o))
<1>0. Backslash = 92 /\ Backslash \in Printable /\ 120 \in Printable /\ o \in Nat
    BY DEF Backslash, Printable, ByteValues
<1>1. CASE o = Backslash
    <2>1. TerminalOctet(o) = <<Backslash, o>>
        BY <1>1 DEF TerminalOctet
    <2>2. Escape(o, TerminalOctet(o))
        BY <1>1, <2>1, Zenon DEF Escape
    <2>3. <<Backslash, o>> \in Seq(Printable)
        BY <1>0, <1>1
    <2> QED BY <2>1, <2>2, <2>3
<1>2. CASE o # Backslash /\ o \in Printable
    <2>1. TerminalOctet(o) = <<o>>
        BY <1>2 DEF TerminalOctet
    <2> QED BY <1>0, <1>2, <2>1 DEF Escape
<1>3. CASE o # Backslash /\ o \notin Printable
    <2> DEFINE a == <<Backslash, 120>>
               h == Hex(o)
    <2>1. TerminalOctet(o) = a \o h
        BY <1>3 DEF TerminalOctet, EscapedOctet
    <2>2. a \in Seq(Printable) /\ h \in Seq(Printable)
        BY <1>0, HexPrintable
    <2>3. Escape(o, TerminalOctet(o))
        BY <2>1, Zenon DEF Escape, ByteValues
    <2> HIDE DEF a, h
    <2>4. a \o h \in Seq(Printable)
        BY <2>2, ConcatIs, Zenon
    <2> QED BY <2>1, <2>3, <2>4
<1> QED BY <1>1, <1>2, <1>3

(* How print_json_string writes an octet: visible, an escape for that      *)
(* octet, and without a bare quote.                                        *)
LEMMA JsonPieceIs ==
    ASSUME NEW o \in ByteValues
    PROVE  /\ JsonOctet(o) \in Seq(Visible) /\ Escape(o, JsonOctet(o))
           /\ JsonPiece(JsonOctet(o))
<1>0. /\ Backslash = 92 /\ Backslash \in Visible /\ 117 \in Visible /\ 48 \in Visible
      /\ Quote = 34 /\ Quote \in Visible /\ o \in Nat
    BY DEF Backslash, Quote, Visible, ByteValues
<1>1. CASE o \in {Quote, Backslash}
    <2>1. JsonOctet(o) = <<Backslash, o>>
        BY <1>1 DEF JsonOctet
    <2>2. Escape(o, JsonOctet(o))
        BY <1>1, <2>1, Zenon DEF Escape
    <2>3. JsonPiece(JsonOctet(o))
        BY <1>0, <2>1, Zenon DEF JsonPiece
    <2>4. o \in Visible
        BY <1>0, <1>1
    <2>5. <<Backslash, o>> \in Seq(Visible)
        BY <1>0, <2>4
    <2> QED BY <2>1, <2>2, <2>3, <2>5
<1>2. CASE o \notin {Quote, Backslash} /\ o \in ShortEscapes
    <2>1. JsonOctet(o) = <<Backslash, ShortLetter(o)>>
        BY <1>2 DEF JsonOctet
    <2>2. ShortLetter(o) \in 97..122
        BY <1>2, ShortIs
    <2>3. ShortLetter(o) \in Nat /\ ShortLetter(o) \in Visible
        BY <2>2 DEF Visible
    <2>4. Escape(o, JsonOctet(o))
        BY <1>2, <2>1, Zenon DEF Escape
    <2>5. JsonPiece(JsonOctet(o))
        BY <2>1, <2>3, Zenon DEF JsonPiece
    <2>6. <<Backslash, ShortLetter(o)>> \in Seq(Visible)
        BY <1>0, <2>3
    <2> QED BY <2>1, <2>4, <2>5, <2>6
<1>3. CASE /\ o \notin {Quote, Backslash} /\ o \notin ShortEscapes
           /\ o < 32 \/ o = 127
    <2> DEFINE a == <<Backslash, 117, 48, 48>>
               h == Hex(o)
    <2>1. JsonOctet(o) = a \o h
        BY <1>3, Zenon DEF JsonOctet
    <2>2. a \in Seq(Visible)
        BY <1>0
    <2>3. h \in Seq(Visible)
        <3>1. Printable \subseteq Visible
            BY DEF Printable, Visible
        <3> QED BY <3>1, HexPrintable, SeqMonotonic, Zenon
    <2>4. Escape(o, JsonOctet(o))
        BY <2>1, Zenon DEF Escape, ByteValues
    <2>5. JsonPiece(JsonOctet(o))
        BY <2>1, Zenon DEF JsonPiece, ByteValues
    <2> HIDE DEF a, h
    <2>6. a \o h \in Seq(Visible)
        BY <2>2, <2>3, ConcatIs, Zenon
    <2> QED BY <2>1, <2>4, <2>5, <2>6
<1>4. CASE /\ o \notin {Quote, Backslash} /\ o \notin ShortEscapes
           /\ ~(o < 32 \/ o = 127)
    <2>1. JsonOctet(o) = <<o>>
        BY <1>4, Zenon DEF JsonOctet
    <2>2. o \in Visible
        BY <1>0, <1>4 DEF Visible
    <2>3. Escape(o, JsonOctet(o))
        BY <1>0, <1>4, <2>1 DEF Escape
    <2>4. JsonPiece(JsonOctet(o))
        BY <1>0, <1>4, <2>1, Zenon DEF JsonPiece
    <2>5. <<o>> \in Seq(Visible)
        BY <2>2
    <2> QED BY <2>1, <2>3, <2>4, <2>5
<1> QED BY <1>1, <1>2, <1>3, <1>4

(* How print_json_payload_ascii writes an octet: an escape for what it     *)
(* shows, and without a bare quote.                                        *)
LEMMA JsonPayloadPiece ==
    ASSUME NEW o \in ByteValues
    PROVE  /\ JsonPayloadOctet(o) \in Seq(Nat) /\ Escape(PayloadShown(o), JsonPayloadOctet(o))
           /\ JsonPiece(JsonPayloadOctet(o)) /\ PayloadShown(o) \in Nat
<1>0. /\ Backslash = 92 /\ Quote = 34 /\ o \in Nat
      /\ Quote \in Printable /\ Backslash \in Printable
    BY DEF Backslash, Quote, ByteValues, Printable
<1>1. CASE o \in {Quote, Backslash}
    <2>1. JsonPayloadOctet(o) = <<Backslash, o>> /\ PayloadShown(o) = o
        BY <1>0, <1>1 DEF JsonPayloadOctet, PayloadShown
    <2>2. Escape(o, <<Backslash, o>>)
        BY <1>1, Zenon DEF Escape
    <2>3. JsonPiece(<<Backslash, o>>)
        BY <1>0, Zenon DEF JsonPiece
    <2>4. <<Backslash, o>> \in Seq(Nat)
        BY <1>0
    <2> QED BY <1>0, <2>1, <2>2, <2>3, <2>4
<1>2. CASE o \notin {Quote, Backslash} /\ o \in Printable
    <2>1. JsonPayloadOctet(o) = <<o>> /\ PayloadShown(o) = o
        BY <1>2 DEF JsonPayloadOctet, PayloadShown
    <2>2. Escape(o, <<o>>)
        BY <1>0, <1>2, Zenon DEF Escape
    <2>3. JsonPiece(<<o>>)
        BY <1>0, <1>2, Zenon DEF JsonPiece
    <2>4. <<o>> \in Seq(Nat)
        BY <1>0
    <2> QED BY <1>0, <2>1, <2>2, <2>3, <2>4
<1>3. CASE o \notin {Quote, Backslash} /\ o \notin Printable
    <2>1. JsonPayloadOctet(o) = <<46>> /\ PayloadShown(o) = 46
        BY <1>3 DEF JsonPayloadOctet, PayloadShown
    <2>0. 46 \in Nat /\ 46 # Backslash /\ 46 \notin {Quote, Backslash}
        BY <1>0
    <2>2. Escape(46, <<46>>)
        BY <2>0, Zenon DEF Escape
    <2>3. JsonPiece(<<46>>)
        BY <2>0, Zenon DEF JsonPiece
    <2>4. <<46>> \in Seq(Nat)
        OBVIOUS
    <2> QED BY <2>0, <2>1, <2>2, <2>3, <2>4
<1> QED BY <1>1, <1>2, <1>3

(* What is printed of a text on the terminal and in JSON gives it back,    *)
(* without a control octet.                                                *)
LEMMA TerminalReads ==
    ASSUME NEW t \in Seq(ByteValues)
    PROVE  /\ Unescaped(print_escaped_text(t)) = t
           /\ ToSet(print_escaped_text(t)) \subseteq Printable
<1> DEFINE f == [o \in ByteValues |-> TerminalOctet(o)]
           s == [i \in 1..Len(t) |-> f[t[i]]]
<1>0. \A o \in ByteValues : f[o] \in Seq(Printable) /\ f[o] = TerminalOctet(o)
    BY TerminalPiece
<1> HIDE DEF f
<1>1. /\ s \in Seq(Seq(Printable)) /\ Len(s) = Len(t)
      /\ \A i \in 1..Len(t) : s[i] = f[t[i]] /\ t[i] \in ByteValues
    BY <1>0, PiecesAre
<1>2. print_escaped_text(t) = FlattenSeq(s)
    <2>1. \A i \in 1..Len(t) : f[t[i]] = TerminalOctet(t[i])
        BY <1>0, <1>1
    <2>2. s = [i \in 1..Len(t) |-> TerminalOctet(t[i])]
        BY <2>1, Zenon
    <2>3. print_escaped_text(t) = FlattenSeq([i \in 1..Len(t) |-> TerminalOctet(t[i])])
        BY Zenon DEF print_escaped_text, TerminalOctet
    <2> HIDE DEF s
    <2> QED BY <2>2, <2>3, Zenon
<1> HIDE DEF s
<1>3. \A i \in 1..Len(t) : Escape(t[i], s[i])
    BY <1>0, <1>1, TerminalPiece
<1>4. t \in Seq(Int) /\ s \in Seq(Seq(Nat))
    <2>1. ByteValues \subseteq Int /\ Printable \subseteq Nat
        BY DEF ByteValues, Printable
    <2>2. Seq(Printable) \subseteq Seq(Nat) /\ t \in Seq(Int)
        BY <2>1, SeqMonotonic, Zenon
    <2> QED BY <1>1, <2>2, SeqMonotonic, Zenon
<1>5. Unescaped(FlattenSeq(s)) = t
    BY <1>1, <1>3, <1>4, UnescapedIs
<1>6. ToSet(FlattenSeq(s)) \subseteq Printable
    BY <1>1, FlattenOctets
<1> QED BY <1>2, <1>5, <1>6

(* A JSON string gives back its text, and holds neither a control octet    *)
(* nor DEL.                                                                *)
LEMMA JsonReads ==
    ASSUME NEW t \in Seq(ByteValues)
    PROVE  /\ JsonContent(print_json_string(t)) = t
           /\ \A o \in ToSet(print_json_string(t)) : o >= 32 /\ o # 127
<1> DEFINE f == [o \in ByteValues |-> JsonOctet(o)]
           s == [i \in 1..Len(t) |-> f[t[i]]]
           w == FlattenSeq(s)
<1>0. \A o \in ByteValues : f[o] \in Seq(Visible) /\ f[o] = JsonOctet(o)
    BY JsonPieceIs
<1> HIDE DEF f
<1>1. /\ s \in Seq(Seq(Visible)) /\ Len(s) = Len(t)
      /\ \A i \in 1..Len(t) : s[i] = f[t[i]] /\ t[i] \in ByteValues
    BY <1>0, PiecesAre
<1>2. print_json_string(t) = <<Quote>> \o w \o <<Quote>>
    <2>1. \A i \in 1..Len(t) : f[t[i]] = JsonOctet(t[i])
        BY <1>0, <1>1
    <2>2. s = [i \in 1..Len(t) |-> JsonOctet(t[i])]
        BY <2>1, Zenon
    <2> HIDE DEF s
    <2> QED BY <2>2, Zenon DEF print_json_string
<1> HIDE DEF s
<1>3. \A i \in 1..Len(t) : Escape(t[i], s[i]) /\ JsonPiece(s[i])
    BY <1>0, <1>1, JsonPieceIs
<1>4. t \in Seq(Int) /\ s \in Seq(Seq(Nat))
    <2>1. ByteValues \subseteq Int /\ Visible \subseteq Nat
        BY DEF ByteValues, Visible
    <2>2. Seq(Visible) \subseteq Seq(Nat) /\ t \in Seq(Int)
        BY <2>1, SeqMonotonic, Zenon
    <2> QED BY <1>1, <2>2, SeqMonotonic, Zenon
<1>5. JsonContent(<<Quote>> \o FlattenSeq(s) \o <<Quote>>) = t
    BY <1>1, <1>3, <1>4, JsonContentIs
<1>6. w \in Seq(Visible) /\ Quote \in Visible
    BY <1>1, FlattenIs DEF Quote, Visible
<1>7. \A o \in ToSet(print_json_string(t)) : o >= 32 /\ o # 127
    <2> HIDE DEF w
    <2>1. print_json_string(t) \in Seq(Visible)
        BY <1>2, <1>6, InnerIs, Zenon
    <2> DEFINE j == print_json_string(t)
    <2> HIDE DEF j
    <2>2. \A i \in DOMAIN j : j[i] \in Visible
        BY <2>1 DEF j
    <2>3. \A o \in ToSet(j) : o \in Visible
        BY <2>2 DEF ToSet
    <2> QED BY <2>3 DEF j, Visible
<1> QED BY <1>2, <1>5, <1>7

(* The payload in a JSON record is a well-formed string.                   *)
LEMMA JsonPayloadReads ==
    ASSUME NEW t \in Seq(ByteValues)
    PROVE  JsonContent(print_json_payload_ascii(t)) # Malformed
<1> DEFINE f == [o \in ByteValues |-> JsonPayloadOctet(o)]
           s == [i \in 1..Len(t) |-> f[t[i]]]
           u == [i \in 1..Len(t) |-> PayloadShown(t[i])]
           w == FlattenSeq(s)
<1>0. \A o \in ByteValues : f[o] \in Seq(Nat) /\ f[o] = JsonPayloadOctet(o)
    BY JsonPayloadPiece
<1> HIDE DEF f
<1>1. /\ s \in Seq(Seq(Nat)) /\ Len(s) = Len(t)
      /\ \A i \in 1..Len(t) : s[i] = f[t[i]] /\ t[i] \in ByteValues
    BY <1>0, PiecesAre
<1>2. print_json_payload_ascii(t) = <<Quote>> \o w \o <<Quote>>
    <2>1. \A i \in 1..Len(t) : f[t[i]] = JsonPayloadOctet(t[i])
        BY <1>0, <1>1
    <2>2. s = [i \in 1..Len(t) |-> JsonPayloadOctet(t[i])]
        BY <2>1, Zenon
    <2>3. print_json_payload_ascii(t)
             = <<Quote>> \o FlattenSeq([i \in 1..Len(t) |-> JsonPayloadOctet(t[i])]) \o <<Quote>>
        BY Zenon DEF print_json_payload_ascii, JsonPayloadOctet
    <2> HIDE DEF s
    <2> QED BY <2>2, <2>3, Zenon
<1> HIDE DEF s, w
<1>3. \A i \in 1..Len(t) : PayloadShown(t[i]) \in Nat
    BY <1>1, JsonPayloadPiece
<1>4. Len(t) \in Nat
    OBVIOUS
<1>5. u \in Seq(Nat) /\ Len(u) = Len(t) /\ \A i \in 1..Len(t) : u[i] = PayloadShown(t[i])
    BY <1>3, <1>4
<1> HIDE DEF u
<1>6. \A i \in 1..Len(t) : Escape(u[i], s[i]) /\ JsonPiece(s[i])
    BY <1>0, <1>1, <1>5, JsonPayloadPiece
<1>7. u \in Seq(Int)
    <2>1. Nat \subseteq Int
        OBVIOUS
    <2> QED BY <1>5, <2>1, SeqMonotonic, Zenon
<1>8. JsonContent(<<Quote>> \o FlattenSeq(s) \o <<Quote>>) = u
    BY <1>1, <1>5, <1>6, <1>7, JsonContentIs
<1>9. u # Malformed
    <2>1. Malformed = Bad
        BY DEF Malformed, Bad, Outside
    <2> QED BY <1>5, <2>1, OctetsAreGood
<1> QED BY <1>2, <1>8, <1>9 DEF w

----------------------------------------------------------------------------
(* The metadata is octets of the traffic.                                  *)

(* The fields of a decoded message are texts: sequences of octets.         *)

\* A part of a text is a text.
LEMMA PartType ==
    ASSUME NEW S, NEW d \in Seq(S), NEW a \in Nat, a >= 1, NEW b \in Int, b <= Len(d)
    PROVE  SubSeq(d, a, b) \in Seq(S)
<1>1. CASE a <= b
    BY <1>1
<1>2. CASE ~(a <= b)
    <2>1. SubSeq(d, a, b) = <<>>
        BY <1>2
    <2> QED BY <2>1, EmptySeq, Zenon
<1> QED BY <1>1, <1>2

(* What Text keeps of octets is octets.                                    *)
LEMMA TextType ==
    ASSUME NEW s \in Seq(ByteValues)
    PROVE  Text(s) \in Seq(ByteValues)
<1> DEFINE m == Min({Len(s), TextSize - 1})
           kept == SubSeq(s, 1, m)
           nul == Find(kept, <<0>>)
<1>0. Len(s) \in Nat /\ TextSize \in Nat \ {0} /\ TextSize - 1 \in Nat /\ ByteValues \subseteq Nat
    BY DecoderAssumption DEF ByteValues
<1>1. m \in Nat /\ m <= Len(s)
    <2>1. {Len(s), TextSize - 1} \in SUBSET Nat /\ {Len(s), TextSize - 1} # {}
        BY <1>0
    <2>2. m \in {Len(s), TextSize - 1} /\ \A k \in {Len(s), TextSize - 1} : m <= k
        BY <2>1, MinIs
    <2> HIDE DEF m
    <2> QED BY <1>0, <2>2
<1>2. Text(s) = IF nul = -1 THEN kept ELSE Bytes(kept, 0, nul)
    BY DEF Text
<1> HIDE DEF m
<1>3. kept \in Seq(ByteValues)
    <2>1. 1 \in Nat /\ 1 >= 1 /\ m \in Int
        BY <1>1
    <2> QED BY <1>1, <2>1, PartType, Zenon
<1> HIDE DEF kept
<1>4. kept \in Seq(Nat)
    BY <1>0, <1>3, SeqMonotonic, Zenon
<1>5. <<0>> \in Seq(Nat) /\ Len(<<0>>) = 1
    OBVIOUS
<1>6. nul = -1 \/ (nul \in Nat /\ nul + 1 <= Len(kept))
    BY <1>4, <1>5, FindIs
<1> HIDE DEF nul
<1>7. nul \in Nat /\ nul + 1 <= Len(kept) => Bytes(kept, 0, nul) \in Seq(ByteValues)
    <2> SUFFICES ASSUME nul \in Nat, nul + 1 <= Len(kept)
                 PROVE  Bytes(kept, 0, nul) \in Seq(ByteValues)
        OBVIOUS
    <2>1. 0 \in Nat /\ 0 + nul <= Len(kept)
        BY <1>3
    <2> QED BY <1>3, <2>1, BytesAre
<1> QED BY <1>2, <1>3, <1>6, <1>7

(* And so is what is left without spaces.                                  *)
LEMMA TrimmedType ==
    ASSUME NEW s \in Seq(ByteValues)
    PROVE  Trimmed(s) \in Seq(ByteValues)
<1> DEFINE solid == {i \in 1..Len(s) : s[i] \notin Space}
           x == SubSeq(s, Min(solid), Max(solid))
<1>0. Trimmed(s) = IF solid = {} THEN <<>> ELSE Text(x)
    BY DEF Trimmed
<1>1. <<>> \in Seq(ByteValues)
    BY EmptySeq
<1>2. CASE solid = {}
    <2> HIDE DEF solid, x
    <2> QED BY <1>0, <1>1, <1>2
<1>3. CASE solid # {}
    <2>1. Len(s) \in Nat /\ solid \in SUBSET Nat /\ solid \in SUBSET (0..Len(s))
          /\ \A i \in solid : i >= 1 /\ i <= Len(s) /\ i \in Int
        OBVIOUS
    <2> HIDE DEF solid
    <2>2. Min(solid) \in solid /\ Max(solid) \in solid
        BY <1>3, <2>1, MinIs, MaxIs
    <2>3. Min(solid) \in Nat /\ Min(solid) >= 1 /\ Max(solid) \in Int /\ Max(solid) <= Len(s)
        BY <2>1, <2>2
    <2>4. x \in Seq(ByteValues)
        BY <2>3, PartType
    <2> HIDE DEF x
    <2>5. Text(x) \in Seq(ByteValues)
        BY <2>4, TextType
    <2> QED BY <1>0, <1>3, <2>5
<1> QED BY <1>2, <1>3

\* Every field of a function of texts.
Texts(f) == \A n \in DOMAIN f : f[n] \in Seq(ByteValues)

(* A verdict with metadata has the fields it was given.                    *)
LEMMA DecodedTexts ==
    ASSUME NEW p, NEW f, Texts(f)
    PROVE  Texts(Decoded(p, f).app.fields)
<1> DEFINE D == {n \in DOMAIN f : f[n] # <<>>}
<1>1. Decoded(p, f).app.fields = [n \in D |-> f[n]]
    BY DEF Decoded, Fields
<1> DEFINE g == [n \in D |-> f[n]]
<1>2. Texts(g)
    BY DEF Texts
<1> QED BY <1>1, <1>2

(* A verdict without metadata has no fields.                               *)
LEMMA VerdictTexts == \A r : Texts(Verdict(r).app.fields)
<1>1. DOMAIN Unknown.fields = {}
    BY DEF Unknown
<1> QED BY <1>1 DEF Texts, Verdict

(* The fields of two records together.                                     *)
LEMMA BothTexts ==
    ASSUME NEW f, NEW g, Texts(f), Texts(g)
    PROVE  Texts(Both(f, g))
BY DEF Texts, Both

\* What is found in a text.
LEMMA Found ==
    ASSUME NEW d \in Seq(ByteValues), NEW p \in Seq(Nat)
    PROVE  /\ Find(d, p) \in Int /\ Find(d, p) >= -1
           /\ Find(d, p) # -1 => Find(d, p) \in Nat /\ Find(d, p) + Len(p) <= Len(d)
<1>1. d \in Seq(Nat)
    <2>1. ByteValues \subseteq Nat
        BY DEF ByteValues
    <2> QED BY <2>1, SeqMonotonic, Zenon
<1>2. /\ Find(d, p) = -1 \/ Find(d, p) \in Nat
      /\ Find(d, p) # -1 => Find(d, p) + Len(p) <= Len(d)
    BY <1>1, FindIs
<1> DEFINE x == Find(d, p)
<1> HIDE DEF x
<1>3. x = -1 \/ x \in Nat
    BY <1>2 DEF x
<1>4. x \in Int /\ x >= -1 /\ (x # -1 => x \in Nat)
    BY <1>3
<1> QED BY <1>2, <1>4 DEF x

----------------------------------------------------------------------------
(* HTTP.                                                                   *)

(* What is behind a position is of the same kind.                          *)
LEMMA RestType ==
    ASSUME NEW S, NEW d \in Seq(S), NEW i \in Nat
    PROVE  Rest(d, i) \in Seq(S)
<1>1. i + 1 \in Nat /\ i + 1 >= 1 /\ Len(d) \in Int /\ Len(d) <= Len(d)
    OBVIOUS
<1> QED BY <1>1, PartType, Zenon DEF Rest

(* And so is what is between two positions.                                *)
LEMMA BytesType ==
    ASSUME NEW S, NEW d \in Seq(S), NEW i \in Nat, NEW n \in Int, i + n <= Len(d)
    PROVE  Bytes(d, i, n) \in Seq(S)
<1>1. i + 1 \in Nat /\ i + 1 >= 1 /\ i + n \in Int
    OBVIOUS
<1> QED BY <1>1, PartType, Zenon DEF Bytes

(* The patterns that the lines are cut at.                                 *)
LEMMA SpaceIs == /\ <<SP>> \in Seq(Nat) /\ Len(<<SP>>) = 1
                 /\ <<Colon>> \in Seq(Nat) /\ Len(<<Colon>>) = 1
BY DEF SP, Colon

(* The fields of a request line are octets of the line.                    *)
LEMMA RequestLineTexts ==
    ASSUME NEW line \in Seq(ByteValues), ~parse_request_line(line).bad
    PROVE  Texts(parse_request_line(line).fields)
<1> DEFINE e == Find(line, <<SP>>)
           target == Rest(line, e + 1)
           pe == Find(target, <<SP>>)
           version == Rest(target, pe + 1)
           wrong == \/ e \in {-1, 0} \/ pe \in {-1, 0}
                    \/ Len(version) < VersionLen \/ ~IsPrefix(StatusMark, version)
           f == [method |-> Trimmed(Bytes(line, 0, e)),
                 path |-> Trimmed(Bytes(target, 0, pe)),
                 version |-> Trimmed(version)]
<1>0. parse_request_line(line) = IF wrong THEN BadLine ELSE GoodLine(f)
    BY Zenon DEF parse_request_line
<1>1. e \in Int /\ e >= -1 /\ (e # -1 => e \in Nat /\ e + 1 <= Len(line))
    BY SpaceIs, Found
<1>2. e + 1 \in Nat
    <2> HIDE DEF e
    <2> QED BY <1>1
<1>3. target \in Seq(ByteValues)
    <2> HIDE DEF e
    <2> QED BY <1>2, RestType
<1> HIDE DEF target
<1>4. pe \in Int /\ pe >= -1 /\ (pe # -1 => pe \in Nat /\ pe + 1 <= Len(target))
    BY <1>3, SpaceIs, Found
<1>5. pe + 1 \in Nat
    <2> HIDE DEF pe
    <2> QED BY <1>4
<1>6. version \in Seq(ByteValues)
    <2> HIDE DEF pe
    <2> QED BY <1>3, <1>5, RestType
<1>7. Len(line) \in Nat /\ Len(target) \in Nat
    BY <1>3
<1> HIDE DEF version, e, pe, f
<1>8. ~wrong
    BY <1>0 DEF BadLine
<1>9. e # -1 /\ pe # -1
    BY <1>8
<1>10. Bytes(line, 0, e) \in Seq(ByteValues) /\ Bytes(target, 0, pe) \in Seq(ByteValues)
    <2>1. 0 \in Nat /\ 0 + e <= Len(line) /\ 0 + pe <= Len(target)
        BY <1>1, <1>4, <1>7, <1>9
    <2> QED BY <1>1, <1>3, <1>4, <2>1, BytesType
<1>11. parse_request_line(line).fields = f
    <2> HIDE DEF wrong
    <2> QED BY <1>0, <1>8 DEF GoodLine
<1> DEFINE a == Trimmed(Bytes(line, 0, e))
           b == Trimmed(Bytes(target, 0, pe))
           c == Trimmed(version)
<1>12. a \in Seq(ByteValues) /\ b \in Seq(ByteValues) /\ c \in Seq(ByteValues)
    BY <1>6, <1>10, TrimmedType
<1>13. f = [method |-> a, path |-> b, version |-> c]
    BY DEF f
<1> HIDE DEF a, b, c
<1>14. Texts(f)
    BY <1>12, <1>13 DEF Texts
<1> QED BY <1>11, <1>14

(* And so are those of a status line.                                      *)
LEMMA StatusLineTexts ==
    ASSUME NEW line \in Seq(ByteValues), ~parse_status_line(line).bad
    PROVE  Texts(parse_status_line(line).fields)
<1> DEFINE e == Find(line, <<SP>>)
           status == Bytes(line, e + 1, 3)
           reason == Rest(line, e + 4)
           wrong == \/ Len(line) < StatusLen \/ e = -1
                    \/ ~Has(line, e, 4) \/ ~(ToSet(status) \subseteq Digits)
           r == IF IsPrefix(<<SP>>, reason) THEN Trimmed(Tail(reason)) ELSE <<>>
           f == [version |-> Trimmed(Bytes(line, 0, e)), status |-> status, reason |-> r]
<1>0. parse_status_line(line) = IF wrong THEN BadLine ELSE GoodLine(f)
    BY Zenon DEF parse_status_line
<1>1. e \in Int /\ e >= -1 /\ (e # -1 => e \in Nat /\ e + 1 <= Len(line))
    BY SpaceIs, Found
<1>2. Len(line) \in Nat
    OBVIOUS
<1> HIDE DEF e, f, r, status, reason
<1>3. ~wrong
    BY <1>0 DEF BadLine
<1>4. e \in Nat /\ e + 4 <= Len(line)
    BY <1>1, <1>3 DEF Has
<1>5. Bytes(line, 0, e) \in Seq(ByteValues) /\ status \in Seq(ByteValues)
    <2>1. 0 \in Nat /\ 0 + e <= Len(line) /\ (e + 1) + 3 <= Len(line) /\ e + 1 \in Nat /\ 3 \in Int
          /\ e \in Int
        BY <1>2, <1>4
    <2> QED BY <2>1, BytesType, Zenon DEF status
<1>6. reason \in Seq(ByteValues)
    <2>1. e + 4 \in Nat
        BY <1>4
    <2> QED BY <2>1, RestType, Zenon DEF reason
<1>7. r \in Seq(ByteValues)
    <2>1. CASE IsPrefix(<<SP>>, reason)
        <3>1. reason # <<>>
            <4>1. <<SP>> # <<>>
                OBVIOUS
            <4> QED BY <2>1, <4>1 DEF IsPrefix
        <3>2. Tail(reason) \in Seq(ByteValues)
            BY <1>6, <3>1
        <3>3. Trimmed(Tail(reason)) \in Seq(ByteValues)
            BY <3>2, TrimmedType
        <3> QED BY <2>1, <3>3 DEF r
    <2>2. CASE ~IsPrefix(<<SP>>, reason)
        BY <2>2, EmptySeq DEF r
    <2> QED BY <2>1, <2>2
<1>8. Trimmed(Bytes(line, 0, e)) \in Seq(ByteValues)
    BY <1>5, TrimmedType
<1>9. parse_status_line(line).fields = f
    <2> HIDE DEF wrong
    <2> QED BY <1>0, <1>3 DEF GoodLine
<1> DEFINE a == Trimmed(Bytes(line, 0, e))
<1>10. f = [version |-> a, status |-> status, reason |-> r]
    BY DEF f
<1>11. a \in Seq(ByteValues)
    BY <1>8
<1> HIDE DEF a
<1>12. Texts(f)
    BY <1>5, <1>7, <1>10, <1>11 DEF Texts
<1> QED BY <1>9, <1>12

----------------------------------------------------------------------------
\* One step of the scan of HeaderLines, and the function it scans with.
LinesFrom(block, from, p) ==
    LET end_ == Find(Rest(block, p), CRLF)
    IN  IF end_ \in {-1, 0} THEN <<>> ELSE <<Bytes(block, p, end_)>> \o from[p + end_ + 2]

LinesScan(block) == CHOOSE f : f = [p \in 0..Len(block) |-> LinesFrom(block, f, p)]

(* The header lines are what is read from the start of the block.          *)
LEMMA LinesAre ==
    ASSUME NEW block
    PROVE  HeaderLines(block) = LinesScan(block)[0]
BY DEF HeaderLines, LinesScan, LinesFrom

(* Header lines are octets of the block.                                   *)
LEMMA LinesType ==
    ASSUME NEW block \in Seq(ByteValues)
    PROVE  HeaderLines(block) \in Seq(Seq(ByteValues))
<1> DEFINE L == Len(block)
           V == Seq(ByteValues)
           e == [p \in 0..L |-> Find(Rest(block, p), CRLF)]
           head == [p \in 0..L |-> IF e[p] \in {-1, 0} THEN <<>> ELSE <<Bytes(block, p, e[p])>>]
           next == [p \in 0..L |-> IF e[p] \in {-1, 0} THEN L + 1 ELSE p + e[p] + 2]
<1>0. L \in Nat
    OBVIOUS
<1>1. ASSUME NEW p \in 0..L
      PROVE  /\ e[p] = Find(Rest(block, p), CRLF) /\ e[p] \in Int
             /\ e[p] \notin {-1, 0} => e[p] \in Nat /\ p + e[p] + 2 <= L
    <2> DEFINE r == Rest(block, p)
               x == Find(r, CRLF)
    <2>1. r \in Seq(ByteValues) /\ Len(r) = L - p
        <3>1. p \in Nat
            OBVIOUS
        <3> QED BY <3>1, RestType DEF Rest
    <2> HIDE DEF r
    <2>2. x \in Int /\ (x # -1 => x \in Nat /\ x + 2 <= Len(r))
        BY <2>1, Found, Patterns
    <2>3. e[p] = x
        BY DEF r
    <2> HIDE DEF x, e
    <2>4. x # -1 => p + x + 2 <= L
        BY <1>0, <2>1, <2>2
    <2> QED BY <2>2, <2>3, <2>4 DEF x, r
<1> HIDE DEF e
<1>2. ASSUME NEW p \in 0..L
      PROVE  /\ e[p] \in {-1, 0} => head[p] = <<>> /\ next[p] = L + 1
             /\ e[p] \notin {-1, 0} => head[p] = <<Bytes(block, p, e[p])>> /\ next[p] = p + e[p] + 2
    OBVIOUS
<1>3. ASSUME NEW p \in 0..L
      PROVE  head[p] \in Seq(V) /\ next[p] \in Nat /\ next[p] > p
    <2> HIDE DEF head, next
    <2>1. CASE e[p] \in {-1, 0}
        <3>1. head[p] = <<>> /\ next[p] = L + 1
            BY <1>2, <2>1
        <3>2. <<>> \in Seq(V)
            BY EmptySeq
        <3> QED BY <1>0, <3>1, <3>2
    <2>2. CASE e[p] \notin {-1, 0}
        <3>1. head[p] = <<Bytes(block, p, e[p])>> /\ next[p] = p + e[p] + 2
            BY <1>2, <2>2
        <3> DEFINE x == e[p]
        <3>2. x \in Nat /\ p + x + 2 <= L /\ p \in Nat
            BY <1>1, <2>2
        <3> HIDE DEF x
        <3>3. Bytes(block, p, x) \in V
            <4>1. p + x <= Len(block) /\ x \in Int
                BY <1>0, <3>2
            <4> QED BY <3>2, <4>1, BytesType
        <3>4. p + x + 2 \in Nat /\ p + x + 2 > p
            BY <3>2
        <3> HIDE DEF V, L
        <3>5. <<Bytes(block, p, x)>> \in Seq(V)
            BY <3>3
        <3> QED BY <3>1, <3>4, <3>5 DEF x
    <2> QED BY <2>1, <2>2
<1>4. Chain(L, V, head, next)
    <2>1. head \in [0..L -> Seq(V)] /\ next \in [0..L -> Nat]
        <3> HIDE DEF V
        <3> QED BY <1>3
    <2> HIDE DEF head, next, V
    <2> QED BY <1>0, <1>3, <2>1 DEF Chain
<1> HIDE DEF head, next
<1>5. \A f : \A p \in 0..L : LinesFrom(block, f, p) = Link(f, L, head, next, p)
    <2> SUFFICES ASSUME NEW f, NEW p \in 0..L
                 PROVE  LinesFrom(block, f, p) = Link(f, L, head, next, p)
        OBVIOUS
    <2>1. e[p] = Find(Rest(block, p), CRLF) /\ e[p] \in Int
        BY <1>1
    <2>2. CASE e[p] \in {-1, 0}
        <3>1. next[p] > L /\ head[p] = <<>>
            BY <1>0, <1>2, <2>2
        <3> QED BY <2>1, <2>2, <3>1, Zenon DEF Link, LinesFrom
    <2>3. CASE e[p] \notin {-1, 0}
        <3>1. ~(next[p] > L) /\ head[p] = <<Bytes(block, p, e[p])>> /\ next[p] = p + e[p] + 2
            BY <1>0, <1>1, <1>2, <2>3
        <3> QED BY <2>1, <2>3, <3>1, Zenon DEF Link, LinesFrom
    <2> QED BY <2>2, <2>3
<1> DEFINE E == LinesScan(block)
<1>6. E = [p \in 0..L |-> LinesFrom(block, E, p)]
    <2>1. PICK f \in [0..L -> Seq(V)] : f = [p \in 0..L |-> Link(f, L, head, next, p)]
        BY <1>4, ChainSolution
    <2>2. [p \in 0..L |-> LinesFrom(block, f, p)] = [p \in 0..L |-> Link(f, L, head, next, p)]
        BY <1>5
    <2>3. \E g : g = [p \in 0..L |-> LinesFrom(block, g, p)]
        BY <2>1, <2>2
    <2> QED BY <2>3, Zenon DEF LinesScan
<1> HIDE DEF E
<1>7. \A p \in 0..L : E[p] = Link(E, L, head, next, p)
    BY <1>5, <1>6
<1>8. \A p \in 0..L : E[p] \in Seq(V)
    <2> HIDE DEF V
    <2> QED BY <1>4, <1>7, ChainType
<1> QED BY <1>0, <1>8, LinesAre DEF E

(* And so are the fields that parse_headers takes from them.               *)
LEMMA HeaderTexts ==
    ASSUME NEW block \in Seq(ByteValues)
    PROVE  Texts(parse_headers(block))
<1> DEFINE lines == HeaderLines(block)
           named(n) == {i \in 1..Len(lines) : HasName(lines[i], HeaderNames[n])}
<1>1. lines \in Seq(Seq(ByteValues))
    BY LinesType
<1>2. parse_headers(block) = [n \in DOMAIN HeaderNames |->
            IF named(n) = {} THEN <<>> ELSE HeaderValue(lines[Max(named(n))])]
    BY DEF parse_headers
<1> HIDE DEF lines
<1>3. \A l \in Seq(ByteValues) : HeaderValue(l) \in Seq(ByteValues)
    <2> SUFFICES ASSUME NEW l \in Seq(ByteValues) PROVE HeaderValue(l) \in Seq(ByteValues)
        OBVIOUS
    <2> DEFINE c == Find(l, <<Colon>>)
               r == Rest(l, c + 1)
    <2>1. c \in Int /\ c >= -1
        BY SpaceIs, Found
    <2>2. r \in Seq(ByteValues)
        <3> HIDE DEF c
        <3>1. c + 1 \in Nat
            BY <2>1
        <3> QED BY <3>1, RestType
    <2>3. HeaderValue(l) = Trimmed(r)
        BY DEF HeaderValue
    <2> HIDE DEF r
    <2> QED BY <2>2, <2>3, TrimmedType
<1>4. \A n : named(n) # {} => Max(named(n)) \in 1..Len(lines)
    <2> SUFFICES ASSUME NEW n, named(n) # {} PROVE Max(named(n)) \in 1..Len(lines)
        OBVIOUS
    <2> DEFINE N == named(n)
    <2>1. N \in SUBSET (0..Len(lines)) /\ N # {} /\ Len(lines) \in Nat /\ N \subseteq 1..Len(lines)
        BY <1>1
    <2> HIDE DEF N
    <2>2. Max(N) \in N
        BY <2>1, MaxIs
    <2> QED BY <2>1, <2>2 DEF N
<1>5. <<>> \in Seq(ByteValues)
    BY EmptySeq
<1> HIDE DEF named
<1>6. \A n : (IF named(n) = {} THEN <<>> ELSE HeaderValue(lines[Max(named(n))])) \in Seq(ByteValues)
    <2> SUFFICES ASSUME NEW n
                 PROVE  (IF named(n) = {} THEN <<>> ELSE HeaderValue(lines[Max(named(n))]))
                           \in Seq(ByteValues)
        OBVIOUS
    <2>1. CASE named(n) = {}
        BY <1>5, <2>1
    <2>2. CASE named(n) # {}
        <3>1. lines[Max(named(n))] \in Seq(ByteValues)
            BY <1>1, <1>4, <2>2
        <3> QED BY <1>3, <2>2, <3>1
    <2> QED BY <2>1, <2>2
<1> QED BY <1>2, <1>6 DEF Texts

(* The fields of an HTTP message are octets of the message.                *)
LEMMA HttpTexts ==
    ASSUME NEW d \in Seq(ByteValues)
    PROVE  Texts(app_http_decode(d).app.fields)
<1> DEFINE x == Find(d, CRLF \o CRLF)
           h == Bytes(d, 0, x + 4)
           n == Find(d, CRLF)
           line == Bytes(h, 0, n)
           first == FirstLine(line)
           block == Rest(h, n + 2)
<1>0. \/ app_http_decode(d) = Verdict("NO_MATCH")
      \/ app_http_decode(d) = Verdict("NEED_MORE")
      \/ x + 4 # 3 /\ app_http_decode(d) = DecodeHead(h, n)
    BY Zenon DEF app_http_decode
<1>1. CASE app_http_decode(d) = Verdict("NO_MATCH") \/ app_http_decode(d) = Verdict("NEED_MORE")
    BY <1>1, VerdictTexts
<1>2. CASE x + 4 # 3 /\ app_http_decode(d) = DecodeHead(h, n)
    <2>1. x \in Int /\ (x # -1 => x \in Nat /\ x + 4 <= Len(d))
        <3>1. BlankLine \in Seq(Nat) /\ Len(BlankLine) = 4 /\ CRLF \o CRLF = BlankLine
            BY Patterns DEF BlankLine
        <3> QED BY <3>1, Found
    <2>2. x \in Nat /\ x + 4 <= Len(d)
        <3> HIDE DEF x, h, n
        <3> QED BY <1>2, <2>1
    <2>3. n \in Nat /\ n <= x
        <3>1. d \in Seq(Nat)
            <4>1. ByteValues \subseteq Nat
                BY DEF ByteValues
            <4> QED BY <4>1, SeqMonotonic, Zenon
        <3>2. Bytes(d, x, 2) = CRLF /\ x + 2 <= Len(d)
            <4> DEFINE b == Bytes(d, x, 4)
                       c == Bytes(d, x, 2)
            <4>1. b = BlankLine
                <5>1. Bytes(d, Find(d, BlankLine), 4) = BlankLine
                    <6>1. Find(d, BlankLine) # -1
                        <7>1. Find(d, BlankLine) \in Nat
                            BY <2>2 DEF BlankLine
                        <7> QED BY <7>1
                    <6> QED BY <3>1, <6>1, FindIs, Patterns
                <5> QED BY <5>1 DEF BlankLine
            <4>2. b[1] = 13 /\ b[2] = 10
                BY <4>1, Patterns
            <4> HIDE DEF x
            <4>3. /\ Len(d) \in Nat /\ x + 2 <= Len(d) /\ c \in Seq(Nat) /\ Len(c) = 2
                  /\ b[1] = d[x + 1] /\ b[2] = d[x + 2] /\ c[1] = d[x + 1] /\ c[2] = d[x + 2]
                <5>1. Len(d) \in Nat /\ x + 2 <= Len(d) /\ 4 \in Nat /\ 2 \in Nat
                    BY <2>2
                <5>2. /\ c \in Seq(Nat) /\ Len(c) = 2 /\ \A k \in 1..2 : c[k] = d[x + k]
                    BY ZenonT(40), <2>2, <3>1, <5>1, BytesAre
                <5>3. \A k \in 1..4 : b[k] = d[x + k]
                    BY ZenonT(40), <2>2, <3>1, <5>1, BytesAre
                <5>4. 1 \in 1..2 /\ 2 \in 1..2 /\ 1 \in 1..4 /\ 2 \in 1..4
                    OBVIOUS
                <5> HIDE DEF b, c
                <5> QED BY <5>1, <5>2, <5>3, <5>4, Zenon
            <4> HIDE DEF b, c
            <4>4. c = <<13, 10>>
                BY <4>2, <4>3
            <4> QED BY <4>3, <4>4 DEF c, CRLF
        <3> HIDE DEF x
        <3>3. n # -1 /\ n <= x
            BY <2>2, <3>1, <3>2, FindIs, Patterns
        <3>4. n \in Int /\ (n # -1 => n \in Nat)
            BY Found, Patterns
        <3> QED BY <3>3, <3>4
    <2> HIDE DEF x, n
    <2>4. h \in Seq(ByteValues) /\ Len(h) = x + 4
        <3>1. 0 \in Nat /\ x + 4 \in Nat /\ 0 + (x + 4) <= Len(d)
            BY <2>2
        <3> QED BY <3>1, BytesAre
    <2> HIDE DEF h
    <2>5. line \in Seq(ByteValues)
        <3>1. 0 \in Nat /\ n \in Nat /\ 0 + n <= Len(h)
            BY <2>2, <2>3, <2>4
        <3> QED BY <2>4, <3>1, BytesAre
    <2>6. block \in Seq(ByteValues)
        <3>1. n + 2 \in Nat
            BY <2>3
        <3> QED BY <2>4, <3>1, RestType
    <2> HIDE DEF line, block
    <2>7. ~first.bad => Texts(first.fields)
        BY <2>5, RequestLineTexts, StatusLineTexts DEF FirstLine
    <2>8. DecodeHead(h, n) = IF first.bad THEN Verdict("MALFORMED")
                             ELSE Decoded("HTTP", Both(first.fields, parse_headers(block)))
        BY Zenon DEF DecodeHead, HttpVerdict, line, block
    <2> HIDE DEF first
    <2>9. CASE first.bad
        BY <1>2, <2>8, <2>9, VerdictTexts
    <2>10. CASE ~first.bad
        <3> DEFINE g == Both(first.fields, parse_headers(block))
        <3>1. Texts(parse_headers(block))
            BY <2>6, HeaderTexts
        <3>2. Texts(g)
            BY <2>7, <2>10, <3>1, BothTexts
        <3>3. app_http_decode(d) = Decoded("HTTP", g)
            BY <1>2, <2>8, <2>10
        <3> HIDE DEF g
        <3>4. Texts(Decoded("HTTP", g).app.fields)
            BY <3>2, DecodedTexts
        <3> QED BY <3>3, <3>4
    <2> QED BY <2>9, <2>10
<1> QED BY <1>0, <1>1, <1>2

----------------------------------------------------------------------------
(* TLS.                                                                    *)

(* The elements of a list in a TLS message.                                *)
Element == [kind : Seq(Int), body : Seq(ByteValues)]

\* One step of the scan of Elements, and the function it scans with.
ElementsFrom(d, k, w, from, p) ==
    IF p = Len(d) THEN <<>>
    ELSE LET e == VectorEnd(d, p + k, w)
         IN  IF e > Len(d) THEN <<Broken>>
             ELSE <<[kind |-> Bytes(d, p, k),
                     body |-> Bytes(d, p + k + w, e - p - k - w)]>> \o from[e]

ElementsScan(d, k, w) == CHOOSE f : f = [p \in 0..Len(d) |-> ElementsFrom(d, k, w, f, p)]

(* The elements of a vector are what is read from its start.               *)
LEMMA ElementsAre ==
    ASSUME NEW d, NEW k, NEW w
    PROVE  Elements(d, k, w) = ElementsScan(d, k, w)[0]
BY DEF Elements, ElementsScan, ElementsFrom

(* Octets are numbers.                                                     *)
LEMMA TextIsNat == \A t \in Seq(ByteValues) : t \in Seq(Nat) /\ t \in Seq(Int)
<1>1. ByteValues \subseteq Nat /\ ByteValues \subseteq Int
    BY DEF ByteValues
<1> QED BY <1>1, SeqMonotonic, Zenon

(* The mark of a vector that does not fit is an element.                   *)
LEMMA BrokenIs == Broken \in Element
<1>1. <<Outside>> \in Seq(Int)
    BY DEF Outside
<1>2. <<>> \in Seq(ByteValues)
    BY EmptySeq
<1> QED BY <1>1, <1>2 DEF Broken, Element

(* The elements of a vector are octets of the buffer.                      *)
LEMMA ElementsType ==
    ASSUME NEW d \in Seq(ByteValues), NEW k \in Nat, NEW w \in 1..3
    PROVE  Elements(d, k, w) \in Seq(Element)
<1> DEFINE L == Len(d)
           e == [p \in 0..L |-> VectorEnd(d, p + k, w)]
           x == [p \in 0..L |-> [kind |-> Bytes(d, p, k),
                                 body |-> Bytes(d, p + k + w, e[p] - p - k - w)]]
           head == [p \in 0..L |-> IF p = L THEN <<>> ELSE IF e[p] > L THEN <<Broken>> ELSE <<x[p]>>]
           next == [p \in 0..L |-> IF p = L \/ e[p] > L THEN L + 1 ELSE e[p]]
<1>0. L \in Nat /\ w \in Nat /\ w >= 1 /\ d \in Seq(Nat)
    BY TextIsNat
<1>1. ASSUME NEW p \in 0..L
      PROVE  /\ e[p] = VectorEnd(d, p + k, w) /\ e[p] \in Nat
             /\ e[p] <= L => p + k + w <= e[p]
    <2> DEFINE v == VectorEnd(d, p + k, w)
    <2>1. p + k \in Nat
        OBVIOUS
    <2>2. v \in Nat /\ (v <= Len(d) => p + k + w <= v)
        BY <1>0, <2>1, VectorEndIs
    <2>3. e[p] = v
        OBVIOUS
    <2> HIDE DEF v, e
    <2> QED BY <2>2, <2>3 DEF v
<1> HIDE DEF e
<1>2. ASSUME NEW p \in 0..L
      PROVE  /\ p = L => head[p] = <<>> /\ next[p] = L + 1
             /\ p # L /\ e[p] > L => head[p] = <<Broken>> /\ next[p] = L + 1
             /\ p # L /\ ~(e[p] > L) => head[p] = <<x[p]>> /\ next[p] = e[p]
    <2> HIDE DEF x
    <2> QED OBVIOUS
<1>3. ASSUME NEW p \in 0..L, ~(e[p] > L)
      PROVE  x[p] \in Element
    <2> DEFINE v == e[p]
               a == Bytes(d, p, k)
               b == Bytes(d, p + k + w, v - p - k - w)
    <2>1. v \in Nat /\ v <= L /\ p + k + w <= v /\ p \in Nat
        BY <1>0, <1>1, <1>3
    <2>2. x[p] = [kind |-> a, body |-> b]
        OBVIOUS
    <2> HIDE DEF v
    <2>3. /\ p + k <= Len(d) /\ p + k + w \in Nat /\ v - p - k - w \in Int
          /\ (p + k + w) + (v - p - k - w) <= Len(d) /\ k \in Int
        BY <1>0, <2>1
    <2>4. a \in Seq(Int)
        <3>1. d \in Seq(Int)
            BY TextIsNat
        <3> QED BY <2>1, <2>3, <3>1, BytesType
    <2>5. b \in Seq(ByteValues)
        <3> DEFINE i == p + k + w
                   n == v - p - k - w
        <3>1. i \in Nat /\ n \in Int /\ i + n <= Len(d)
            BY <2>3
        <3> HIDE DEF i, n
        <3>2. Bytes(d, i, n) \in Seq(ByteValues)
            BY <3>1, BytesType
        <3> QED BY <3>2 DEF i, n
    <2> HIDE DEF a, b, x
    <2> QED BY <2>2, <2>4, <2>5 DEF Element
<1> HIDE DEF x
<1>4. ASSUME NEW p \in 0..L
      PROVE  head[p] \in Seq(Element) /\ next[p] \in Nat /\ next[p] > p
    <2> HIDE DEF head, next
    <2>1. CASE p = L
        <3>1. head[p] = <<>> /\ next[p] = L + 1
            BY <1>2, <2>1
        <3>2. <<>> \in Seq(Element)
            BY EmptySeq
        <3> QED BY <1>0, <3>1, <3>2
    <2>2. CASE p # L /\ e[p] > L
        <3>1. head[p] = <<Broken>> /\ next[p] = L + 1
            BY <1>2, <2>2
        <3>2. <<Broken>> \in Seq(Element)
            BY BrokenIs
        <3> QED BY <1>0, <3>1, <3>2
    <2>3. CASE p # L /\ ~(e[p] > L)
        <3>1. head[p] = <<x[p]>> /\ next[p] = e[p] /\ x[p] \in Element
            BY <1>2, <1>3, <2>3
        <3>2. <<x[p]>> \in Seq(Element)
            BY <3>1
        <3>3. e[p] \in Nat /\ p + k + w <= e[p]
            BY <1>0, <1>1, <2>3
        <3>4. e[p] > p
            BY <1>0, <3>3
        <3> QED BY <3>1, <3>2, <3>3, <3>4
    <2> QED BY <2>1, <2>2, <2>3
<1>5. Chain(L, Element, head, next)
    <2>1. head \in [0..L -> Seq(Element)] /\ next \in [0..L -> Nat]
        BY <1>4
    <2> HIDE DEF head, next
    <2> QED BY <1>0, <1>4, <2>1 DEF Chain
<1> HIDE DEF head, next
<1>6. \A f : \A p \in 0..L : ElementsFrom(d, k, w, f, p) = Link(f, L, head, next, p)
    <2> SUFFICES ASSUME NEW f, NEW p \in 0..L
                 PROVE  ElementsFrom(d, k, w, f, p) = Link(f, L, head, next, p)
        OBVIOUS
    <2>1. e[p] = VectorEnd(d, p + k, w) /\ e[p] \in Nat
        BY <1>1
    <2>2. CASE p = L
        <3>1. next[p] > L /\ head[p] = <<>>
            BY <1>0, <1>2, <2>2
        <3> QED BY <2>2, <3>1, Zenon DEF Link, ElementsFrom
    <2>3. CASE p # L /\ e[p] > L
        <3>1. next[p] > L /\ head[p] = <<Broken>>
            BY <1>0, <1>2, <2>3
        <3> QED BY <2>1, <2>3, <3>1, Zenon DEF Link, ElementsFrom
    <2>4. CASE p # L /\ ~(e[p] > L)
        <3>1. ~(next[p] > L) /\ head[p] = <<x[p]>> /\ next[p] = e[p]
            BY <1>2, <2>4
        <3>2. x[p] = [kind |-> Bytes(d, p, k), body |-> Bytes(d, p + k + w, e[p] - p - k - w)]
            BY DEF x
        <3> QED BY <2>1, <2>4, <3>1, <3>2, Zenon DEF Link, ElementsFrom
    <2> QED BY <2>2, <2>3, <2>4
<1> DEFINE E == ElementsScan(d, k, w)
<1>7. E = [p \in 0..L |-> ElementsFrom(d, k, w, E, p)]
    <2>1. PICK f \in [0..L -> Seq(Element)] : f = [p \in 0..L |-> Link(f, L, head, next, p)]
        BY <1>5, ChainSolution
    <2>2. [p \in 0..L |-> ElementsFrom(d, k, w, f, p)] = [p \in 0..L |-> Link(f, L, head, next, p)]
        BY <1>6
    <2>3. \E g : g = [p \in 0..L |-> ElementsFrom(d, k, w, g, p)]
        BY <2>1, <2>2
    <2> QED BY <2>3, Zenon DEF ElementsScan
<1> HIDE DEF E
<1>8. \A p \in 0..L : E[p] = Link(E, L, head, next, p)
    BY <1>6, <1>7
<1>9. \A p \in 0..L : E[p] \in Seq(Element)
    BY <1>5, <1>8, ChainType
<1> QED BY <1>0, <1>9, ElementsAre DEF E

(* And so are those of the list in an extension.                           *)
LEMMA NameListType ==
    ASSUME NEW ext \in Seq(ByteValues), NEW k \in Nat, NEW w \in 1..3
    PROVE  NameList(ext, k, w) \in Seq(Element)
<1>1. <<Broken>> \in Seq(Element)
    BY BrokenIs
<1>2. Rest(ext, 2) \in Seq(ByteValues)
    BY RestType
<1>3. Elements(Rest(ext, 2), k, w) \in Seq(Element)
    BY <1>2, ElementsType
<1> QED BY <1>1, <1>3, Zenon DEF NameList

(* The server name is octets of the extension, or what was known before.   *)
LEMMA SniType ==
    ASSUME NEW sni \in Seq(ByteValues), NEW ext \in Seq(ByteValues)
    PROVE  parse_sni_extension(sni, ext) \in Seq(ByteValues)
<1> DEFINE list == NameList(ext, 1, 2)
           hosts == {i \in 1..Len(list) : list[i].kind = <<0>> /\ Text(list[i].body) # <<>>}
<1>0. list \in Seq(Element)
    <2>1. 1 \in Nat /\ 2 \in 1..3
        OBVIOUS
    <2> QED BY <2>1, NameListType, Zenon
<1>1. parse_sni_extension(sni, ext)
         = IF sni # <<>> \/ hosts = {} THEN sni ELSE Text(list[Min(hosts)].body)
    BY DEF parse_sni_extension
<1> HIDE DEF list
<1>2. hosts # {} => Min(hosts) \in 1..Len(list)
    <2>1. hosts \in SUBSET Nat /\ hosts \subseteq 1..Len(list)
        BY <1>0
    <2> HIDE DEF hosts
    <2> QED BY <2>1, MinIs
<1> HIDE DEF hosts
<1>3. \A i \in 1..Len(list) : Text(list[i].body) \in Seq(ByteValues)
    <2> SUFFICES ASSUME NEW i \in 1..Len(list) PROVE Text(list[i].body) \in Seq(ByteValues)
        OBVIOUS
    <2>1. list[i].body \in Seq(ByteValues)
        <3>1. list[i] \in Element
            BY <1>0
        <3> QED BY <3>1 DEF Element
    <2> QED BY <2>1, TextType
<1> QED BY <1>1, <1>2, <1>3

\* The text of an ALPN extension, or Bad.
AlpnText == Seq(ByteValues) \cup {Bad}

(* A protocol name at the end of the list gives a text that is no longer   *)
(* than the buffer for it.                                                 *)
LEMMA AppendAlpnType ==
    ASSUME NEW text \in AlpnText, NEW word \in Seq(ByteValues)
    PROVE  append_alpn(text, word) \in AlpnText
<1> DEFINE first == IF text = <<>> THEN <<>> ELSE Append(text, 44)
           whole == first \o word
<1>1. append_alpn(text, word)
         = IF text = Bad \/ (text # <<>> /\ Len(text) + 1 >= TextSize) THEN Bad ELSE Text(whole)
    BY Zenon DEF append_alpn
<1>2. CASE text = Bad \/ (text # <<>> /\ Len(text) + 1 >= TextSize)
    BY <1>1, <1>2 DEF AlpnText
<1>3. CASE ~(text = Bad \/ (text # <<>> /\ Len(text) + 1 >= TextSize))
    <2>1. text \in Seq(ByteValues)
        BY <1>3 DEF AlpnText
    <2>2. first \in Seq(ByteValues)
        <3>1. 44 \in ByteValues
            BY DEF ByteValues
        <3>2. Append(text, 44) \in Seq(ByteValues)
            BY <2>1, <3>1
        <3>3. <<>> \in Seq(ByteValues)
            BY EmptySeq
        <3> QED BY <3>2, <3>3
    <2> HIDE DEF first
    <2>3. whole \in Seq(ByteValues)
        BY <2>2, ConcatIs, Zenon
    <2> HIDE DEF whole
    <2>4. Text(whole) \in Seq(ByteValues)
        BY <2>3, TextType
    <2> QED BY <1>1, <1>3, <2>4 DEF AlpnText
<1> QED BY <1>2, <1>3

(* The protocol list is octets of the extension, or what was known before. *)
LEMMA AlpnType ==
    ASSUME NEW alpn \in Seq(ByteValues), NEW ext \in Seq(ByteValues)
    PROVE  parse_alpn_extension(alpn, ext) \in AlpnText
<1> DEFINE list == NameList(ext, 0, 1)
           n == Len(list)
           Body(f) == [i \in 0..n |-> IF i = 0 THEN alpn ELSE append_alpn(f[i - 1], list[i].body)]
           A == CHOOSE f : f = Body(f)
           step == [i \in 1..n |-> [t \in AlpnText |-> append_alpn(t, list[i].body)]]
<1>0. list \in Seq(Element)
    <2>1. 0 \in Nat /\ 1 \in 1..3
        OBVIOUS
    <2> QED BY <2>1, NameListType, Zenon
<1>1. parse_alpn_extension(alpn, ext) = A[n]
    BY DEF parse_alpn_extension
<1> HIDE DEF list
<1>2. n \in Nat /\ \A i \in 1..n : list[i].body \in Seq(ByteValues)
    <2>1. n \in Nat /\ \A i \in 1..n : list[i] \in Element
        BY <1>0
    <2> QED BY <2>1 DEF Element
<1>3. alpn \in AlpnText
    BY DEF AlpnText
<1>4. \A i \in 1..n : \A t \in AlpnText : append_alpn(t, list[i].body) \in AlpnText
    BY <1>2, AppendAlpnType
<1> HIDE DEF n
<1>5. /\ step \in [1..n -> [AlpnText -> AlpnText]]
      /\ \A i \in 1..n : \A t \in AlpnText : step[i][t] = append_alpn(t, list[i].body)
    <2> HIDE DEF AlpnText
    <2> QED BY <1>4
<1> HIDE DEF step
<1>6. \E f : f = Body(f)
    <2>1. PICK f \in [0..n -> AlpnText] : Gathered(f, n, alpn, step)
        BY <1>2, <1>3, <1>5, GatheredExists
    <2>2. \A i \in 0..n : (IF i = 0 THEN alpn ELSE step[i][f[i - 1]])
                          = IF i = 0 THEN alpn ELSE append_alpn(f[i - 1], list[i].body)
        <3> SUFFICES ASSUME NEW i \in 0..n, i # 0
                     PROVE  step[i][f[i - 1]] = append_alpn(f[i - 1], list[i].body)
            OBVIOUS
        <3>1. i \in 1..n /\ i - 1 \in 0..n
            BY <1>2
        <3>2. f[i - 1] \in AlpnText
            BY <3>1
        <3> QED BY <1>5, <3>1, <3>2
    <2>3. f = Body(f)
        BY <2>1, <2>2, Zenon DEF Gathered
    <2> QED BY <2>3
<1>7. A = Body(A)
    <2> HIDE DEF Body
    <2> QED BY <1>6, Zenon
<1> HIDE DEF A
<1>8. A[0] = alpn /\ \A i \in 1..n : A[i] = append_alpn(A[i - 1], list[i].body)
    <2>1. \A i \in 0..n : A[i] = IF i = 0 THEN alpn ELSE append_alpn(A[i - 1], list[i].body)
        BY <1>7
    <2> HIDE DEF Body
    <2> QED BY <1>2, <2>1
<1>9. A[n] \in AlpnText
    <2>1. A[0] \in AlpnText
        BY <1>3, <1>8
    <2>2. \A i \in 1..n : A[i - 1] \in AlpnText => A[i] \in AlpnText
        BY <1>4, <1>8
    <2> HIDE DEF Body
    <2> QED BY <1>2, <2>1, <2>2, GatheredType
<1> QED BY <1>1, <1>9

\* What the extensions are gathered to.
TlsNames == [bad : BOOLEAN, sni : Seq(ByteValues), alpn : Seq(ByteValues)]

(* An extension gives names of octets.                                     *)
LEMMA ExtensionType ==
    ASSUME NEW n \in TlsNames, NEW e \in Element
    PROVE  WithExtension(n, e) \in TlsNames
<1> DEFINE b1 == n.bad \/ Broken \in ToSet(NameList(e.body, 1, 2))
           s == parse_sni_extension(n.sni, e.body)
           a == parse_alpn_extension(n.alpn, e.body)
<1>0. n.bad \in BOOLEAN /\ n.sni \in Seq(ByteValues) /\ n.alpn \in Seq(ByteValues)
      /\ e.body \in Seq(ByteValues)
    BY DEF TlsNames, Element
<1>1. s \in Seq(ByteValues)
    BY <1>0, SniType
<1>2. a \in AlpnText
    BY <1>0, AlpnType
<1>3. [n EXCEPT !.bad = TRUE] \in TlsNames
    BY DEF TlsNames
<1>4. [n EXCEPT !.bad = b1, !.sni = s] \in TlsNames
    <2>1. b1 \in BOOLEAN
        BY Zenon
    <2> HIDE DEF b1, s
    <2> QED BY <1>1, <2>1 DEF TlsNames
<1>5. a # Bad => [n EXCEPT !.alpn = a] \in TlsNames
    <2> SUFFICES ASSUME a # Bad PROVE [n EXCEPT !.alpn = a] \in TlsNames
        OBVIOUS
    <2>1. a \in Seq(ByteValues)
        BY <1>2 DEF AlpnText
    <2> HIDE DEF a
    <2> QED BY <2>1 DEF TlsNames
<1>6. SniExtension # AlpnExtension
    BY DEF SniExtension, AlpnExtension
<1>7. Broken.kind # SniExtension /\ Broken.kind # AlpnExtension
    BY DEF Broken, SniExtension, AlpnExtension
<1>8. CASE e = Broken
    <2>1. WithExtension(n, e) = [n EXCEPT !.bad = TRUE]
        BY <1>7, <1>8, Zenon DEF WithExtension
    <2> QED BY <1>3, <2>1
<1>9. CASE e # Broken /\ e.kind = SniExtension
    <2>1. WithExtension(n, e) = [n EXCEPT !.bad = b1, !.sni = s]
        BY <1>6, <1>9, Zenon DEF WithExtension
    <2> QED BY <1>4, <2>1
<1>10. CASE e # Broken /\ e.kind = AlpnExtension
    <2>1. WithExtension(n, e) = IF a = Bad \/ Broken \in ToSet(NameList(e.body, 0, 1))
                                THEN [n EXCEPT !.bad = TRUE] ELSE [n EXCEPT !.alpn = a]
        BY <1>6, <1>10, Zenon DEF WithExtension
    <2> HIDE DEF a
    <2> QED BY <1>3, <1>5, <2>1, Zenon
<1>11. CASE e # Broken /\ e.kind # SniExtension /\ e.kind # AlpnExtension
    <2>1. e.kind \notin {SniExtension, AlpnExtension}
        BY <1>11
    <2>2. WithExtension(n, e) = n
        BY <1>11, <2>1, Zenon DEF WithExtension
    <2> QED BY <2>2
<1> QED BY <1>8, <1>9, <1>10, <1>11

(* And so does a list of extensions.                                       *)
LEMMA ExtensionsType ==
    ASSUME NEW list \in Seq(Element)
    PROVE  AllExtensions(list) \in TlsNames
<1> DEFINE n == Len(list)
           Body(f) == [i \in 0..n |-> IF i = 0 THEN NoNames ELSE WithExtension(f[i - 1], list[i])]
           A == CHOOSE f : f = Body(f)
           step == [i \in 1..n |-> [t \in TlsNames |-> WithExtension(t, list[i])]]
<1>1. AllExtensions(list) = A[n]
    BY DEF AllExtensions
<1>2. n \in Nat /\ \A i \in 1..n : list[i] \in Element
    OBVIOUS
<1>3. NoNames \in TlsNames
    <2>1. <<>> \in Seq(ByteValues)
        BY EmptySeq
    <2> QED BY <2>1 DEF NoNames, TlsNames
<1>4. \A i \in 1..n : \A t \in TlsNames : WithExtension(t, list[i]) \in TlsNames
    BY <1>2, ExtensionType
<1> HIDE DEF n
<1>5. /\ step \in [1..n -> [TlsNames -> TlsNames]]
      /\ \A i \in 1..n : \A t \in TlsNames : step[i][t] = WithExtension(t, list[i])
    BY <1>4
<1> HIDE DEF step
<1>6. \E f : f = Body(f)
    <2>1. PICK f \in [0..n -> TlsNames] : Gathered(f, n, NoNames, step)
        BY <1>2, <1>3, <1>5, GatheredExists
    <2>2. \A i \in 0..n : (IF i = 0 THEN NoNames ELSE step[i][f[i - 1]])
                          = IF i = 0 THEN NoNames ELSE WithExtension(f[i - 1], list[i])
        <3> SUFFICES ASSUME NEW i \in 0..n, i # 0
                     PROVE  step[i][f[i - 1]] = WithExtension(f[i - 1], list[i])
            OBVIOUS
        <3>1. i \in 1..n /\ i - 1 \in 0..n
            BY <1>2
        <3>2. f[i - 1] \in TlsNames
            BY <3>1
        <3> QED BY <1>5, <3>1, <3>2
    <2>3. f = Body(f)
        BY <2>1, <2>2, Zenon DEF Gathered
    <2> QED BY <2>3
<1>7. A = Body(A)
    <2> HIDE DEF Body
    <2> QED BY <1>6, Zenon
<1> HIDE DEF A
<1>8. A[0] = NoNames /\ \A i \in 1..n : A[i] = WithExtension(A[i - 1], list[i])
    <2>1. \A i \in 0..n : A[i] = IF i = 0 THEN NoNames ELSE WithExtension(A[i - 1], list[i])
        BY <1>7
    <2> HIDE DEF Body
    <2> QED BY <1>2, <2>1
<1>9. A[n] \in TlsNames
    <2>1. A[0] \in TlsNames
        BY <1>3, <1>8
    <2>2. \A i \in 1..n : A[i - 1] \in TlsNames => A[i] \in TlsNames
        BY <1>4, <1>8
    <2> HIDE DEF Body
    <2> QED BY <1>2, <2>1, <2>2, GatheredType
<1> QED BY <1>1, <1>9

(* And so do the extensions of a hello.                                    *)
LEMMA ParsedExtensionsType ==
    ASSUME NEW d \in Seq(ByteValues), NEW i \in Nat
    PROVE  parse_extensions(d, i) \in TlsNames
<1> DEFINE e == VectorEnd(d, i, 2)
           x == Bytes(d, i + 2, e - i - 2)
<1>0. parse_extensions(d, i) =
         IF i = Len(d) THEN NoNames
         ELSE IF e > Len(d) THEN [NoNames EXCEPT !.bad = TRUE] ELSE AllExtensions(Elements(x, 2, 2))
    BY Zenon DEF parse_extensions
<1>1. NoNames \in TlsNames /\ [NoNames EXCEPT !.bad = TRUE] \in TlsNames
    <2>1. <<>> \in Seq(ByteValues)
        BY EmptySeq
    <2> QED BY <2>1 DEF NoNames, TlsNames
<1>2. ~(e > Len(d)) => AllExtensions(Elements(x, 2, 2)) \in TlsNames
    <2> SUFFICES ASSUME ~(e > Len(d)) PROVE AllExtensions(Elements(x, 2, 2)) \in TlsNames
        OBVIOUS
    <2>1. Len(d) \in Nat /\ d \in Seq(Nat) /\ 2 \in 1..3 /\ 2 \in Nat
        BY TextIsNat
    <2>2. e \in Nat /\ (e <= Len(d) => i + 2 <= e)
        BY <2>1, VectorEndIs
    <2> HIDE DEF e
    <2>3. i + 2 \in Nat /\ e - i - 2 \in Int /\ (i + 2) + (e - i - 2) <= Len(d)
        BY <2>1, <2>2
    <2>4. x \in Seq(ByteValues)
        BY <2>3, BytesType
    <2> HIDE DEF x
    <2>5. Elements(x, 2, 2) \in Seq(Element)
        BY <2>1, <2>4, ElementsType, Zenon
    <2> QED BY <2>5, ExtensionsType
<1> HIDE DEF e, x
<1> QED BY <1>0, <1>1, <1>2, Zenon

(* The fields of a client hello are octets of the hello.                   *)
LEMMA HelloTexts ==
    ASSUME NEW d \in Seq(ByteValues), NEW v \in Seq(ByteValues)
    PROVE  Texts(parse_client_hello_body(d, v).app.fields)
<1> DEFINE suites == VectorEnd(d, 2 + RandomLen, 1)
           methods == VectorEnd(d, suites, 2)
           extensions == VectorEnd(d, methods, 1)
           wrong == \/ suites > Len(d) \/ methods > Len(d) \/ extensions > Len(d)
                    \/ Number(d, suites, 2) = 0 \/ Number(d, suites, 2) % 2 # 0
                    \/ Number(d, methods, 1) = 0
           names == parse_extensions(d, extensions)
           f == [record_version |-> v, client_version |-> Bytes(d, 0, 2),
                 sni |-> names.sni, alpn |-> names.alpn]
<1>0. parse_client_hello_body(d, v) =
         IF wrong THEN Verdict("MALFORMED")
         ELSE IF names.bad THEN Verdict("MALFORMED") ELSE Decoded("TLS", f)
    BY Zenon DEF parse_client_hello_body
<1>1. CASE wrong \/ names.bad
    <2> HIDE DEF wrong, names, f
    <2>1. parse_client_hello_body(d, v) = Verdict("MALFORMED")
        BY <1>0, <1>1
    <2> QED BY <2>1, VerdictTexts
<1>2. CASE ~wrong /\ ~names.bad
    <2>1. d \in Seq(Nat) /\ RandomLen \in Nat /\ 1 \in 1..3 /\ 2 \in 1..3 /\ 2 + RandomLen \in Nat
        BY SMTT(30), TextIsNat, DecoderAssumption
    <2>2. suites \in Nat /\ (suites <= Len(d) => (2 + RandomLen) + 1 <= suites)
        BY <2>1, VectorEndIs
    <2>3. methods \in Nat
        <3> HIDE DEF suites
        <3> QED BY <2>1, <2>2, VectorEndIs
    <2>4. extensions \in Nat
        <3> HIDE DEF methods
        <3> QED BY <2>1, <2>3, VectorEndIs
    <2>5. ~(suites > Len(d))
        <3> HIDE DEF suites, methods, extensions, names
        <3> QED BY <1>2
    <2> HIDE DEF suites, methods, extensions, wrong
    <2>6. names \in TlsNames
        BY <2>4, ParsedExtensionsType
    <2> HIDE DEF names
    <2>7. names.sni \in Seq(ByteValues) /\ names.alpn \in Seq(ByteValues)
        BY <2>6 DEF TlsNames
    <2>8. Bytes(d, 0, 2) \in Seq(ByteValues)
        <3>1. Len(d) \in Nat /\ 0 \in Nat /\ 2 \in Int /\ 0 + 2 <= Len(d)
            BY <2>1, <2>2, <2>5
        <3> QED BY <3>1, BytesType, Zenon
    <2> DEFINE b == Bytes(d, 0, 2)
               s == names.sni
               a == names.alpn
    <2>9. f = [record_version |-> v, client_version |-> b, sni |-> s, alpn |-> a]
        OBVIOUS
    <2>10. s \in Seq(ByteValues) /\ a \in Seq(ByteValues) /\ b \in Seq(ByteValues)
        BY <2>7, <2>8
    <2> HIDE DEF b, s, a, f
    <2>11. Texts(f)
        BY <2>9, <2>10 DEF Texts
    <2>12. Texts(Decoded("TLS", f).app.fields)
        BY <2>11, DecodedTexts
    <2> QED BY <1>0, <1>2, <2>12
<1> QED BY <1>1, <1>2

(* And so are those of the record it comes in.                             *)
LEMMA TlsTexts ==
    ASSUME NEW d \in Seq(ByteValues)
    PROVE  Texts(app_tls_decode_client_hello(d).app.fields)
<1> DEFINE r == Number(d, 3, 2)
           h == Number(d, RecordHeader + 1, 3)
           x == Bytes(d, RecordHeader + HandshakeHeader, h)
           y == Bytes(d, 1, 2)
<1>0. \/ \E z : app_tls_decode_client_hello(d) = Verdict(z)
      \/ /\ ~(Len(d) < RecordHeader) /\ Has(d, RecordHeader, r) /\ ~(r < HandshakeHeader)
         /\ ~(h > r - HandshakeHeader)
         /\ app_tls_decode_client_hello(d) = parse_client_hello_body(x, y)
    BY Zenon DEF app_tls_decode_client_hello
<1>1. CASE \E z : app_tls_decode_client_hello(d) = Verdict(z)
    BY <1>1, VerdictTexts
<1>2. CASE /\ ~(Len(d) < RecordHeader) /\ Has(d, RecordHeader, r) /\ ~(r < HandshakeHeader)
           /\ ~(h > r - HandshakeHeader)
           /\ app_tls_decode_client_hello(d) = parse_client_hello_body(x, y)
    <2>1. d \in Seq(Nat) /\ Len(d) \in Nat /\ RecordHeader = 5 /\ HandshakeHeader = 4
        BY TextIsNat DEF RecordHeader, HandshakeHeader
    <2>2. r \in Nat
        <3>1. 3 \in Nat /\ 2 \in 1..3 /\ 3 + 2 <= Len(d)
            BY <1>2, <2>1
        <3> QED BY <2>1, <3>1, NumberIs
    <2>3. 5 + r <= Len(d) /\ r >= 4
        <3> HIDE DEF r, h, x, y
        <3> QED BY <1>2, <2>1, <2>2 DEF Has
    <2>4. h \in Nat
        <3>1. RecordHeader + 1 \in Nat /\ 3 \in 1..3 /\ (RecordHeader + 1) + 3 <= Len(d)
            <4> HIDE DEF r
            <4> QED BY <2>1, <2>2, <2>3
        <3> QED BY <2>1, <3>1, NumberIs, Zenon
    <2> HIDE DEF r, h
    <2>5. /\ RecordHeader + HandshakeHeader \in Nat /\ h \in Int
          /\ (RecordHeader + HandshakeHeader) + h <= Len(d)
          /\ 1 \in Nat /\ 2 \in Int /\ 1 + 2 <= Len(d)
        BY <1>2, <2>1, <2>2, <2>3, <2>4
    <2>6. x \in Seq(ByteValues) /\ y \in Seq(ByteValues)
        BY <2>5, BytesType, Zenon
    <2> HIDE DEF x, y
    <2> QED BY <1>2, <2>6, HelloTexts
<1> QED BY <1>0, <1>1, <1>2

----------------------------------------------------------------------------
(* QUIC and DHCP.                                                          *)

(* The connection ids of a QUIC packet are octets of the packet.           *)
LEMMA QuicTexts ==
    ASSUME NEW d \in Seq(ByteValues)
    PROVE  Texts(app_quic_decode_initial(d).app.fields)
<1> DEFINE i == 5
           j == i + 1 + d[i + 1]
           a == Bytes(d, 1, 4)
           b == Bytes(d, i + 1, d[i + 1])
           c == Bytes(d, j + 1, d[j + 1])
           f == [version |-> a, dcid |-> b, scid |-> c]
<1>0. \/ \E z : app_quic_decode_initial(d) = Verdict(z)
      \/ /\ Has(d, 1, 4) /\ IdVerdict(d, i) = "OK" /\ IdVerdict(d, j) = "OK"
         /\ app_quic_decode_initial(d) = Decoded("QUIC", f)
    BY Zenon DEF app_quic_decode_initial
<1>1. CASE \E z : app_quic_decode_initial(d) = Verdict(z)
    BY <1>1, VerdictTexts
<1>2. CASE /\ Has(d, 1, 4) /\ IdVerdict(d, i) = "OK" /\ IdVerdict(d, j) = "OK"
           /\ app_quic_decode_initial(d) = Decoded("QUIC", f)
    <2>1. Len(d) \in Nat /\ \A k \in 1..Len(d) : d[k] \in Nat
        <3>1. d \in Seq(Nat)
            BY TextIsNat
        <3> QED BY <3>1
    <2>2. \A k \in Nat : IdVerdict(d, k) = "OK" =>
             /\ k + 1 <= Len(d) /\ d[k + 1] \in Nat /\ (k + 1) + d[k + 1] <= Len(d)
             /\ k + 1 \in Nat /\ k + 1 + d[k + 1] \in Nat
        <3> SUFFICES ASSUME NEW k \in Nat, IdVerdict(d, k) = "OK"
                     PROVE  /\ k + 1 <= Len(d) /\ d[k + 1] \in Nat /\ (k + 1) + d[k + 1] <= Len(d)
                            /\ k + 1 \in Nat /\ k + 1 + d[k + 1] \in Nat
            OBVIOUS
        <3>1. Has(d, k, 1) /\ Has(d, k + 1, d[k + 1])
            BY DEF IdVerdict
        <3>2. k + 1 \in 1..Len(d) /\ k + 1 + d[k + 1] <= Len(d)
            BY <2>1, <3>1 DEF Has
        <3>3. d[k + 1] \in Nat
            BY <2>1, <3>2
        <3> QED BY <3>2, <3>3
    <2>3. i \in Nat
        OBVIOUS
    <2> HIDE DEF i
    <2>4. /\ d[i + 1] \in Nat /\ (i + 1) + d[i + 1] <= Len(d) /\ i + 1 \in Nat /\ j \in Nat
        BY <1>2, <2>2, <2>3
    <2> HIDE DEF j
    <2>5. /\ d[j + 1] \in Nat /\ (j + 1) + d[j + 1] <= Len(d) /\ j + 1 \in Nat
        BY <1>2, <2>2, <2>4
    <2>6. a \in Seq(ByteValues)
        <3>1. 1 \in Nat /\ 4 \in Int /\ 1 + 4 <= Len(d)
            BY <1>2 DEF Has
        <3> QED BY <3>1, BytesType, Zenon
    <2>7. b \in Seq(ByteValues)
        BY <2>4, BytesAre
    <2>8. c \in Seq(ByteValues)
        BY <2>5, BytesAre
    <2> DEFINE g == [version |-> a, dcid |-> b, scid |-> c]
    <2>9. f = g
        OBVIOUS
    <2> HIDE DEF a, b, c, f
    <2>10. Texts(g)
        BY <2>6, <2>7, <2>8 DEF Texts
    <2> HIDE DEF g
    <2>11. Texts(Decoded("QUIC", g).app.fields)
        BY <2>10, DecodedTexts
    <2> QED BY <1>2, <2>9, <2>11
<1> QED BY <1>0, <1>1, <1>2

\* The values of a list of options are texts.
TextOptions(options) == \A i \in 1..Len(options) : options[i].value \in Seq(ByteValues)

(* The values of DHCP options are octets of the message.                   *)
LEMMA OptionTexts ==
    ASSUME NEW d \in Seq(ByteValues)
    PROVE  \A p \in 0..Len(d) : TextOptions(OptionsScan(d)[p])
<1> DEFINE E == OptionsScan(d)
           L == Len(d)
           T == {k \in 0..L : ~TextOptions(E[L - k])}
<1>0. L \in Nat /\ d \in Seq(Nat)
    BY TextIsNat
<1>1. \A p \in 0..L : E[p] = OptionsFrom(d, E, p) /\ E[p] \in Seq(Option)
    BY <1>0, OptionsUnfold
<1> HIDE DEF E
<1> SUFFICES T = {}
    <2>1. \A p \in 0..L : L - p \in 0..L /\ L - (L - p) = p
        BY <1>0
    <2> QED BY <2>1 DEF E
<1> SUFFICES ASSUME T # {} PROVE FALSE
    OBVIOUS
<1>2. T \in SUBSET Nat
    OBVIOUS
<1>3. PICK k \in T : \A j \in T : k <= j
    <2> HIDE DEF T
    <2> QED BY <1>2, LeastNumber
<1> DEFINE p == L - k
<1>4. p \in 0..L /\ ~TextOptions(E[p]) /\ k \in 0..L
    BY <1>0
<1>5. \A q \in 0..L : q > p => TextOptions(E[q])
    <2> SUFFICES ASSUME NEW q \in 0..L, q > p PROVE TextOptions(E[q])
        OBVIOUS
    <2>1. L - q \in 0..L /\ ~(k <= L - q) /\ L - (L - q) = q
        BY <1>0, <1>4
    <2>2. L - q \notin T
        <3> HIDE DEF T
        <3> QED BY <1>3, <2>1
    <2> QED BY <2>1, <2>2
<1> HIDE DEF T, p
<1>6. OptionCases(d, E, p, E[p])
    BY <1>0, <1>1, <1>4, OptionsStep
<1>7. CASE E[p] = <<>>
    BY <1>4, <1>7 DEF TextOptions
<1>8. CASE p + 1 <= Len(d) /\ E[p] = E[p + 1]
    <2>1. p + 1 \in 0..L /\ p + 1 > p
        BY <1>0, <1>4, <1>8
    <2> QED BY <1>4, <1>5, <1>8, <2>1
<1>9. CASE /\ p + 1 <= Len(d) /\ VectorEnd(d, p + 1, 1) <= Len(d)
           /\ E[p] = <<[tag |-> d[p + 1], value |-> Bytes(d, p + 2, VectorEnd(d, p + 1, 1) - p - 2)]>>
                     \o E[VectorEnd(d, p + 1, 1)]
    <2> DEFINE v == VectorEnd(d, p + 1, 1)
               b == Bytes(d, p + 2, v - p - 2)
               x == [tag |-> d[p + 1], value |-> b]
               c == <<x>> \o E[v]
    <2>1. v \in (p + 1)..Len(d) /\ v - p - 2 \in Nat /\ p + 2 + (v - p - 2) <= Len(d) /\ x \in Option
        BY <1>0, <1>4, <1>9, OptionAt
    <2>2. E[p] = c
        BY <1>9
    <2> HIDE DEF v
    <2>3. b \in Seq(ByteValues)
        <3>1. p + 2 \in Nat
            BY <1>4
        <3> QED BY <2>1, <3>1, BytesAre
    <2>4. x.value = b
        OBVIOUS
    <2> HIDE DEF b, x
    <2>5. v \in 0..L /\ v > p
        BY <1>0, <1>4, <2>1
    <2>6. E[v] \in Seq(Option) /\ TextOptions(E[v])
        BY <1>1, <1>5, <2>5
    <2> DEFINE s == E[v]
    <2>7. /\ Len(c) = Len(s) + 1 /\ c[1] = x /\ (\A i \in 1..Len(s) : c[i + 1] = s[i]) /\ Len(s) \in Nat
        BY SMTT(30), <2>1, <2>6
    <2>8. \A i \in 1..Len(s) : s[i].value \in Seq(ByteValues)
        BY <2>6 DEF TextOptions
    <2> HIDE DEF c, s
    <2>9. ASSUME NEW i \in 1..Len(c) PROVE c[i].value \in Seq(ByteValues)
        <3>1. CASE i = 1
            BY <2>3, <2>4, <2>7, <3>1
        <3>2. CASE i # 1
            <4>1. i - 1 \in 1..Len(s) /\ (i - 1) + 1 = i
                BY <2>7, <3>2
            <4>2. c[i] = s[i - 1]
                BY <2>7, <4>1
            <4> QED BY <2>8, <4>1, <4>2
        <3> QED BY <3>1, <3>2
    <2>10. TextOptions(c)
        BY <2>9 DEF TextOptions
    <2> QED BY <1>4, <2>2, <2>10
<1> QED BY <1>6, <1>7, <1>8, <1>9, Zenon DEF OptionCases

(* And so is the last option with a tag.                                   *)
LEMMA LastOptionText ==
    ASSUME NEW options \in Seq(Option), TextOptions(options), NEW tag, NEW n
    PROVE  LastOption(options, tag, n) \in Seq(ByteValues)
<1> DEFINE at == {i \in 1..Len(options) : options[i].tag = tag /\ Len(options[i].value) = n}
<1>1. LastOption(options, tag, n) = IF at = {} THEN <<>> ELSE options[Max(at)].value
    BY DEF LastOption
<1>2. Len(options) \in Nat /\ at \in SUBSET (0..Len(options)) /\ at \subseteq 1..Len(options)
    OBVIOUS
<1>3. <<>> \in Seq(ByteValues)
    BY EmptySeq
<1> HIDE DEF at
<1>4. at # {} => Max(at) \in at
    BY <1>2, MaxIs
<1>5. at # {} => options[Max(at)].value \in Seq(ByteValues)
    BY <1>2, <1>4 DEF TextOptions
<1> QED BY <1>1, <1>3, <1>5

(* The fields of a DHCP message are octets of the message.                 *)
LEMMA DhcpTexts ==
    ASSUME NEW d \in Seq(ByteValues)
    PROVE  Texts(app_dhcp_decode_udp(d).app.fields)
<1> DEFINE C == FixedLen + Len(Cookie)
           f == DhcpFields(d)
<1>0. \/ \E z : app_dhcp_decode_udp(d) = Verdict(z)
      \/ ~(Len(d) < C) /\ app_dhcp_decode_udp(d) = Decoded("DHCP", f)
    BY Zenon DEF app_dhcp_decode_udp, DhcpFields
<1>1. CASE \E z : app_dhcp_decode_udp(d) = Verdict(z)
    BY <1>1, VerdictTexts
<1>2. CASE ~(Len(d) < C) /\ app_dhcp_decode_udp(d) = Decoded("DHCP", f)
    <2>1. FixedLen \in Nat /\ Len(Cookie) \in Nat /\ Len(d) \in Nat /\ d \in Seq(Nat)
        BY DecoderAssumption, TextIsNat
    <2>2. C \in 0..Len(d) /\ FixedLen <= Len(d) /\ 0 + FixedLen <= Len(d) /\ 0 \in Nat
        BY <1>2, <2>1
    <2>3. DhcpOptions(d) = OptionsScan(d)[C]
        BY DEF DhcpOptions, OptionsScan
    <2> HIDE DEF C
    <2>4. DhcpOptions(d) \in Seq(Option) /\ TextOptions(DhcpOptions(d))
        BY <2>1, <2>2, <2>3, OptionsUnfold, OptionTexts
    <2>5. Bytes(d, 0, FixedLen) \in Seq(ByteValues)
        BY <2>1, <2>2, BytesAre
    <2>6. /\ LastOption(DhcpOptions(d), OptionType, 1) \in Seq(ByteValues)
          /\ LastOption(DhcpOptions(d), OptionAddress, 4) \in Seq(ByteValues)
        BY <2>4, LastOptionText
    <2>7. /\ DOMAIN f = {"fixed", "message_type", "requested_ip"}
          /\ f["fixed"] = Bytes(d, 0, FixedLen)
          /\ f["message_type"] = LastOption(DhcpOptions(d), OptionType, 1)
          /\ f["requested_ip"] = LastOption(DhcpOptions(d), OptionAddress, 4)
        BY DhcpFieldsAre
    <2> HIDE DEF f
    <2>8. Texts(f)
        BY <2>5, <2>6, <2>7 DEF Texts
    <2>9. Texts(Decoded("DHCP", f).app.fields)
        BY <2>8, DecodedTexts
    <2> QED BY <1>2, <2>9
<1> QED BY <1>0, <1>1, <1>2

----------------------------------------------------------------------------
(* DNS names.                                                              *)

\* A name that was read is a text.
NameText == Seq(ByteValues) \cup {Bad}

(* A label in front of a name is a name.                                   *)
LEMMA JoinedText ==
    ASSUME NEW label \in Seq(ByteValues), NEW rest \in NameText
    PROVE  Joined(label, rest) \in NameText
<1>1. CASE rest = Bad
    BY <1>1, JoinedCases DEF NameText
<1>2. CASE rest = <<>>
    BY <1>2, JoinedCases DEF NameText
<1>3. CASE rest # Bad /\ rest # <<>>
    <2>1. rest \in Seq(ByteValues)
        BY <1>3 DEF NameText
    <2> DEFINE dot == <<Dot>>
               a == label \o dot
    <2>2. dot \in Seq(ByteValues)
        BY DEF Dot, ByteValues
    <2> HIDE DEF dot
    <2>3. a \in Seq(ByteValues)
        BY <2>2, ConcatIs, Zenon
    <2>4. a \o rest = label \o <<Dot>> \o rest
        BY DEF dot
    <2> HIDE DEF a
    <2>5. a \o rest \in Seq(ByteValues)
        BY <2>1, <2>3, ConcatIs, Zenon
    <2>6. Joined(label, rest) = label \o <<Dot>> \o rest
        BY <1>3, JoinedCases
    <2> QED BY <2>4, <2>5, <2>6 DEF NameText
<1> QED BY <1>1, <1>2, <1>3

\* What is read at later places are texts.
LaterTexts(m, f, d, p) ==
    \A e \in 0..MaxDepth, q \in 0..Len(m) : Later(e, q, d, p) => f[<<e, q>>] \in NameText

(* One step of reading a name gives octets, when the later ones do.        *)
LEMMA NameFromText ==
    ASSUME NEW m \in Seq(ByteValues), NEW d \in 0..MaxDepth, NEW p \in 0..Len(m), NEW f,
           LaterTexts(m, f, d, p)
    PROVE  NameFrom(m, f, d, p) \in NameText
<1> DEFINE n == m[p + 1]
           t == Target(m, p)
<1>0. m \in Seq(Nat) /\ Len(m) \in Nat
    BY TextIsNat
<1>1. NameCases(m, f, d, p)
    BY <1>0, NameFromCases
<1>2. Bad \in NameText /\ <<>> \in NameText
    <2>1. <<>> \in Seq(ByteValues)
        BY EmptySeq
    <2> QED BY <2>1 DEF NameText
<1>3. CASE p = Len(m)
    BY <1>1, <1>2, <1>3 DEF NameCases
<1>4. CASE p < Len(m)
    <2>1. n \in Nat /\ Reserved \in Nat /\ PointerBase \in Nat
        BY <1>0, <1>4, DnsAssumption
    <2>2. CASE n = 0 \/ n \in Reserved..(PointerBase - 1)
        BY <1>1, <1>2, <1>4, <2>2, Zenon DEF NameCases
    <2>3. CASE n \in 1..(Reserved - 1)
        <3>1. CASE p + 1 + n > Len(m)
            BY <1>1, <1>2, <1>4, <2>3, <3>1, Zenon DEF NameCases
        <3>2. CASE p + 1 + n <= Len(m)
            <4>1. p + 1 + n \in 0..Len(m) /\ Later(d, p + 1 + n, d, p)
                BY <2>3, <3>2 DEF Later
            <4>2. f[<<d, p + 1 + n>>] \in NameText
                BY <4>1, Zenon DEF LaterTexts
            <4>3. SubSeq(m, p + 2, p + 1 + n) \in Seq(ByteValues)
                <5> HIDE DEF n
                <5>1. p + 2 \in Nat /\ p + 2 >= 1 /\ p + 1 + n \in Int
                    BY <2>1
                <5> QED BY <3>2, <5>1, PartType
            <4> DEFINE label == SubSeq(m, p + 2, p + 1 + n)
                       rest == f[<<d, p + 1 + n>>]
            <4>4. NameFrom(m, f, d, p) = Joined(label, rest)
                BY <1>1, <1>4, <2>3, <3>2, Zenon DEF NameCases
            <4>5. label \in Seq(ByteValues) /\ rest \in NameText
                BY <4>2, <4>3
            <4> HIDE DEF label, rest
            <4> QED BY <4>4, <4>5, JoinedText
        <3> QED BY <2>3, <3>1, <3>2
    <2>4. CASE n >= PointerBase
        <3>1. CASE d = 0 \/ p + 1 = Len(m) \/ t >= Len(m)
            BY <1>1, <1>2, <1>4, <2>4, <3>1, Zenon DEF NameCases
        <3>2. CASE ~(d = 0 \/ p + 1 = Len(m) \/ t >= Len(m))
            <4>1. p + 1 < Len(m)
                BY <1>0, <1>4, <3>2
            <4>2. m[p + 2] \in Nat
                BY <1>0, <4>1
            <4>3. t \in 0..Len(m) /\ t < Len(m)
                BY <1>0, <2>4, <3>2, <4>1, TargetInside
            <4>4. d - 1 \in 0..MaxDepth /\ Later(d - 1, t, d, p)
                BY <3>2, DnsAssumption DEF Later
            <4> HIDE DEF t
            <4>5. f[<<d - 1, t>>] \in NameText
                BY <4>3, <4>4, Zenon DEF LaterTexts
            <4> QED BY <1>1, <2>4, <3>2, <4>1, <4>3, <4>5, Zenon DEF NameCases, t
        <3> QED BY <3>1, <3>2
    <2> QED BY <2>1, <2>2, <2>3, <2>4
<1> QED BY <1>3, <1>4

(* So every name of a DNS message is octets of it.                         *)
LEMMA NamesText ==
    ASSUME NEW m \in Seq(ByteValues)
    PROVE  \A k \in 0..MaxDepth, p \in 0..Len(m) : Names(m)[<<k, p>>] \in NameText
<1> DEFINE f == Names(m)
           rank == Rank(m)
           Wrong == {x \in Places(m) : f[x] \notin NameText}
           T == {rank[x] : x \in Wrong}
<1>0. Len(m) \in Nat /\ m \in Seq(Nat)
    BY TextIsNat
<1>1. \A k \in 0..MaxDepth, p \in 0..Len(m) : f[<<k, p>>] = NameFrom(m, f, k, p)
    BY <1>0, NamesUnfold
<1>3. /\ rank \in [Places(m) -> Nat]
      /\ \A k, j \in 0..MaxDepth, p, q \in 0..Len(m) :
            Later(j, q, k, p) => rank[<<j, q>>] < rank[<<k, p>>]
    BY <1>0, RankFacts
<1>4. \A k \in 0..MaxDepth, p \in 0..Len(m) : <<k, p>> \in Places(m)
    BY DEF Places
<1>5. \A x \in Places(m) : \E k \in 0..MaxDepth, p \in 0..Len(m) : x = <<k, p>>
    BY DEF Places
<1> HIDE DEF f, rank
<1>6. Wrong = {}
    <2> SUFFICES ASSUME Wrong # {} PROVE FALSE
        OBVIOUS
    <2>1. T \in SUBSET Nat /\ T # {}
        BY <1>3
    <2>2. PICK r \in T : \A s \in T : r <= s
        <3> HIDE DEF T
        <3> QED BY <2>1, LeastNumber
    <2>3. PICK x \in Wrong : rank[x] = r
        OBVIOUS
    <2>4. PICK k \in 0..MaxDepth, p \in 0..Len(m) : x = <<k, p>>
        BY <1>5
    <2>5. LaterTexts(m, f, k, p)
        <3> SUFFICES ASSUME NEW j \in 0..MaxDepth, NEW q \in 0..Len(m),
                            Later(j, q, k, p), f[<<j, q>>] \notin NameText
                     PROVE  FALSE
            BY DEF LaterTexts
        <3>1. <<j, q>> \in Wrong
            BY <1>4
        <3>2. rank[<<j, q>>] < rank[<<k, p>>]
            BY <1>3
        <3>3. rank[<<j, q>>] \in T /\ rank[<<j, q>>] \in Nat /\ rank[<<k, p>>] \in Nat
            BY <1>3, <1>4, <3>1
        <3>4. rank[<<k, p>>] <= rank[<<j, q>>]
            <4> HIDE DEF T
            <4> QED BY <2>2, <2>3, <2>4, <3>3
        <3> QED BY <3>2, <3>3, <3>4
    <2>6. f[x] = NameFrom(m, f, k, p)
        BY <1>1, <2>4
    <2>7. f[x] \in NameText
        BY <2>5, <2>6, NameFromText
    <2> QED BY <2>7
<1> QED BY <1>4, <1>6 DEF f

(* The fields of a DNS message are octets of the message.                  *)
LEMMA DnsTexts ==
    ASSUME NEW d \in Seq(ByteValues), NEW protocol
    PROVE  Texts(decode_dns_message_as(d, protocol).app.fields)
<1> DEFINE v == DnsVerdict(d)
<1>0. decode_dns_message_as(d, protocol) =
         IF v.result # "OK" THEN Verdict(v.result) ELSE Decoded(protocol, [query |-> Text(v.name)])
    BY Zenon DEF decode_dns_message_as
<1>1. CASE v.result # "OK"
    <2> HIDE DEF v
    <2>1. decode_dns_message_as(d, protocol) = Verdict(v.result)
        BY <1>0, <1>1
    <2> QED BY <2>1, VerdictTexts
<1>2. CASE v.result = "OK"
    <2>0. d \in Seq(Nat) /\ Len(d) \in Nat /\ HeaderLen \in Nat /\ HeaderLen > 0 /\ MaxDepth \in Nat
          /\ CountAt \in 1..HeaderLen /\ MaxCount \in Nat
        BY TextIsNat, DnsAssumption
    <2>1. v.name \in Seq(ByteValues)
        <3>1. CASE v.name = <<>>
            BY <3>1, EmptySeq
        <3>2. CASE v.name # <<>>
            <4>1. Len(d) >= HeaderLen /\ GoodQuestion(d) /\ v.name = WholeName(d)
                <5> DEFINE none(r) == [result |-> r, name |-> <<>>]
                           c == d[CountAt]
                           w == WholeName(d)
                           g == GoodQuestion(d)
                <5>1. \/ \E r : v = none(r)
                      \/ Len(d) >= HeaderLen /\ g /\ v = [result |-> "OK", name |-> w]
                    <6>1. CASE d = <<>>
                        <7>1. Len(d) = 0
                            BY <6>1
                        <7>2. ~(Len(d) >= HeaderLen)
                            BY <2>0, <7>1
                        <7>3. v = none("NO_MATCH")
                            BY <6>1, <7>2, Zenon DEF DnsVerdict
                        <7> QED BY <7>3
                    <6>2. CASE d # <<>> /\ Len(d) < HeaderLen
                        <7>1. ~(Len(d) >= HeaderLen)
                            BY <2>0, <6>2
                        <7>2. v = none("NEED_MORE")
                            BY <6>2, <7>1, Zenon DEF DnsVerdict
                        <7> QED BY <7>2
                    <6>3. CASE d # <<>> /\ ~(Len(d) < HeaderLen)
                        <7>0. Len(d) >= HeaderLen /\ c \in Nat
                            BY <2>0, <6>3
                        <7>1. CASE c > MaxCount
                            <8>1. c # 0 /\ c \notin 1..MaxCount
                                <9> HIDE DEF c
                                <9> QED BY <2>0, <7>0, <7>1
                            <8>2. v = none("NO_MATCH")
                                BY <6>3, <7>0, <7>1, <8>1, Zenon DEF DnsVerdict
                            <8> QED BY <8>2
                        <7>2. CASE c = 0
                            <8>1. ~(c > MaxCount) /\ c \notin 1..MaxCount
                                <9> HIDE DEF c
                                <9> QED BY <2>0, <7>2
                            <8>2. v = none("OK")
                                BY <6>3, <7>0, <7>2, <8>1, Zenon DEF DnsVerdict
                            <8> QED BY <8>2
                        <7>3. CASE ~(c > MaxCount) /\ c # 0
                            <8>1. c \in 1..MaxCount
                                <9> HIDE DEF c
                                <9> QED BY <2>0, <7>0, <7>3
                            <8>2. v = IF g THEN [result |-> "OK", name |-> w] ELSE none("MALFORMED")
                                BY <6>3, <7>0, <7>3, <8>1, Zenon DEF DnsVerdict
                            <8> HIDE DEF v, g, w
                            <8> QED BY <7>0, <8>2
                        <7> QED BY <7>1, <7>2, <7>3
                    <6> QED BY <6>1, <6>2, <6>3
                <5> HIDE DEF v, g, w
                <5>2. \A r : v = none(r) => v.name = <<>>
                    OBVIOUS
                <5>3. v = [result |-> "OK", name |-> w] => v.name = w
                    OBVIOUS
                <5> QED BY <3>2, <5>1, <5>2, <5>3 DEF g, w
            <4>2. MaxDepth \in 0..MaxDepth /\ HeaderLen \in 0..Len(d)
                BY <2>0, <4>1
            <4>3. NameAt(d) \in NameText
                BY <4>2, NamesText DEF NameAt
            <4>4. NameAt(d) \in Seq(ByteValues)
                BY <4>1, <4>3 DEF GoodQuestion, NameText
            <4>5. <<Dot>> \in Seq(ByteValues)
                BY DEF Dot, ByteValues
            <4> QED BY <4>1, <4>4, <4>5 DEF WholeName
        <3> QED BY <3>1, <3>2
    <2> DEFINE x == Text(v.name)
               f == [query |-> x]
    <2>2. x \in Seq(ByteValues)
        BY <2>1, TextType
    <2>3. decode_dns_message_as(d, protocol) = Decoded(protocol, f)
        BY <1>0, <1>2
    <2> HIDE DEF x, v
    <2>4. Texts(f)
        BY <2>2 DEF Texts
    <2> HIDE DEF f
    <2>5. Texts(Decoded(protocol, f).app.fields)
        BY <2>4, DecodedTexts
    <2> QED BY <2>3, <2>5
<1> QED BY <1>1, <1>2

----------------------------------------------------------------------------
(* All decoders, and the theorem on terminal and JSON text.                *)

\* The fields of a verdict are texts.
TextVerdict(v) == Texts(v.app.fields)

(* Whatever decoder is chosen, the fields are octets of the buffer.        *)
LEMMA DispatchTexts ==
    ASSUME NEW d \in Seq(ByteValues), NEW ports
    PROVE  /\ TextVerdict(app_decode_stream(ports, d))
           /\ \A transport : TextVerdict(app_decode_packet(transport, ports, d))
<1>1. /\ TextVerdict(app_http_decode(d)) /\ TextVerdict(app_tls_decode_client_hello(d))
      /\ TextVerdict(app_quic_decode_initial(d)) /\ TextVerdict(app_dhcp_decode_udp(d))
    BY HttpTexts, TlsTexts, QuicTexts, DhcpTexts, Zenon DEF TextVerdict
<1>2. \A r : TextVerdict(Verdict(r))
    BY VerdictTexts, Zenon DEF TextVerdict
<1>3. \A p : TextVerdict(decode_dns_message_as(d, p))
    BY DnsTexts, Zenon DEF TextVerdict
<1>4. TextVerdict(app_dns_decode_tcp_frame(d))
    <2>1. Len(d) \in Nat /\ d \in Seq(Nat)
        BY TextIsNat
    <2>2. CASE ~(Len(d) < 2) /\ Number(d, 0, 2) # 0 /\ Has(d, 2, Number(d, 0, 2))
        <3> DEFINE n == Number(d, 0, 2)
        <3>1. 0 \in Nat /\ 2 \in 1..3 /\ 0 + 2 <= Len(d) /\ 2 \in Nat
            BY <2>1, <2>2
        <3>2. n \in Nat
            BY <2>1, <3>1, NumberIs, Zenon
        <3>3. 2 + n <= Len(d)
            <4> HIDE DEF n
            <4> QED BY <2>2, <3>1, <3>2 DEF Has, n
        <3>4. Bytes(d, 2, n) \in Seq(ByteValues)
            <4> HIDE DEF n
            <4> QED BY <3>1, <3>2, <3>3, BytesAre
        <3>5. d # <<>>
            BY <2>2
        <3>6. app_dns_decode_tcp_frame(d) = decode_dns_message_as(Bytes(d, 2, n), "DNS")
            BY <2>2, <3>5, Zenon DEF app_dns_decode_tcp_frame
        <3> HIDE DEF n
        <3> QED BY <3>4, <3>6, DnsTexts, Zenon DEF TextVerdict
    <2>3. CASE ~(~(Len(d) < 2) /\ Number(d, 0, 2) # 0 /\ Has(d, 2, Number(d, 0, 2)))
        BY <1>2, <2>3, Zenon DEF app_dns_decode_tcp_frame
    <2> QED BY <2>2, <2>3
<1>5. TextVerdict(StrongDns(d))
    BY <1>2, <1>3, Zenon DEF StrongDns
<1>6. TextVerdict(app_decode_buffer(d))
    BY <1>1, <1>2, <1>5, Zenon DEF app_decode_buffer
<1>7. \A v : TextVerdict(v) => TextVerdict(Preferred(v))
    BY <1>2, Zenon DEF Preferred
<1>8. TextVerdict(app_decode_stream(ports, d))
    BY <1>1, <1>2, <1>4, <1>6, <1>7, Zenon DEF app_decode_stream
<1>9. TextVerdict(SniffPacket(d))
    BY <1>1, <1>5, Zenon DEF SniffPacket, SniffElse
<1>10. TextVerdict(DecodeUdp(ports, d))
    BY <1>1, <1>3, Zenon DEF DecodeUdp
<1> QED BY <1>2, <1>7, <1>8, <1>9, <1>10, Zenon DEF app_decode_packet

(* What is shown of the last packet and of the flow are texts.             *)
TextInv ==
    /\ Texts(packet.app.fields) /\ Texts(flow.app.fields)
    /\ packet.octets \in Seq(ByteValues)

(* The traffic is octets.                                                  *)
LEMMA TrafficTexts == \A t \in Traffic : t.octets \in Seq(ByteValues)
BY TrafficAssumption DEF ByteValues

(* And so is what is decoded from one packet.                              *)
LEMMA PacketTexts ==
    ASSUME NEW octets \in Seq(ByteValues), window \in Windows
    PROVE  LET p == DecodePacket(octets)
           IN  Texts(p.app.fields) /\ p.octets \in Seq(ByteValues)
<1> DEFINE n == Min({window, Len(octets)})
           x == Bytes(octets, 0, n)
           v == app_decode_packet(sent.transport, sent.ports, x)
           cut == Len(x) < Len(octets)
<1>1. window \in Nat /\ Len(octets) \in Nat
    BY TrafficAssumption
<1>2. n \in Nat /\ n <= Len(octets)
    <2>1. {window, Len(octets)} \in SUBSET Nat /\ {window, Len(octets)} # {}
        BY <1>1
    <2>2. n \in {window, Len(octets)} /\ \A k \in {window, Len(octets)} : n <= k
        BY <2>1, MinIs
    <2> HIDE DEF n
    <2> QED BY <1>1, <2>2
<1>3. DecodePacket(octets) =
         [app |-> v.app, octets |-> x, status |-> app_decode_status_from_result(v, cut)]
    BY Zenon DEF DecodePacket, n
<1> HIDE DEF n
<1>4. x \in Seq(ByteValues)
    <2>1. 0 \in Nat /\ 0 + n <= Len(octets)
        BY <1>2
    <2> QED BY <1>2, <2>1, BytesAre
<1>5. TextVerdict(v)
    <2> HIDE DEF x
    <2> QED BY <1>4, DispatchTexts, Zenon
<1> HIDE DEF x, v, cut
<1>6. DecodePacket(octets).app = v.app /\ DecodePacket(octets).octets = x
    BY <1>3
<1> QED BY <1>4, <1>5, <1>6 DEF TextVerdict

(* So the metadata of the packet and of the flow is octets throughout.     *)
LEMMA TextInvariant == StreamSpec => []TextInv
<1>1. StreamInit => TextInv
    <2> SUFFICES ASSUME StreamInit PROVE TextInv
        OBVIOUS
    <2>1. /\ flow.app = Unknown /\ packet.app = Unknown /\ packet.octets = <<>>
        BY DEF StreamInit, Unclassified
    <2>2. Texts(Unknown.fields)
        BY VerdictTexts, VerdictResult
    <2>3. <<>> \in Seq(ByteValues)
        BY EmptySeq
    <2> QED BY <2>1, <2>2, <2>3 DEF TextInv
<1>2. TextInv /\ StreamInv /\ [StreamNext]_streamVars => TextInv'
    <2> SUFFICES ASSUME TextInv, StreamInv, [StreamNext]_streamVars PROVE TextInv'
        OBVIOUS
    <2> DEFINE o == sent.octets
    <2>0. /\ sent \in Traffic /\ window \in Windows /\ begin \in Nat /\ end \in Nat /\ begin <= end
          /\ begin < Len(o) /\ o \in Seq(ByteValues)
        BY TrafficTexts DEF StreamInv, PositionsInv
    <2>1. ASSUME NEW n \in SegmentSizes, Segment(n) PROVE TextInv'
        <3> DEFINE stream == Bytes(o, begin, end + n - begin)
                   v == app_decode_stream(sent.ports, stream)
                   f == StreamDecoded(stream)
                   piece == Bytes(o, end, n)
        <3>1. /\ end + n <= Len(o) /\ packet' = DecodePacket(piece)
              /\ flow' = PacketDecoded(f, packet')
            BY <2>1 DEF Segment
        <3>2. n \in Nat
            BY TrafficAssumption
        <3> HIDE DEF o
        <3>3. piece \in Seq(ByteValues)
            BY <2>0, <3>1, <3>2, BytesAre
        <3>4. stream \in Seq(ByteValues)
            <4>1. end + n - begin \in Nat /\ begin + (end + n - begin) <= Len(o)
                BY <2>0, <3>1, <3>2
            <4> QED BY <2>0, <4>1, BytesAre
        <3>5. f = IF flow.by = "none" /\ v.result = "OK"
                  THEN [app |-> v.app, by |-> "stream", octets |-> stream] ELSE flow
            BY Zenon DEF StreamDecoded
        <3> HIDE DEF stream, piece, f
        <3>6. TextVerdict(v)
            BY <3>4, DispatchTexts, Zenon
        <3> HIDE DEF v
        <3>7. Texts(packet'.app.fields) /\ packet'.octets \in Seq(ByteValues)
            BY <2>0, <3>1, <3>3, PacketTexts, Zenon
        <3>8. Texts(f.app.fields)
            <4>1. CASE flow.by = "none" /\ v.result = "OK"
                <5>1. f.app = v.app
                    BY <3>5, <4>1
                <5> QED BY <3>6, <5>1 DEF TextVerdict
            <4>2. CASE ~(flow.by = "none" /\ v.result = "OK")
                <5>1. f = flow
                    BY <3>5, <4>2
                <5> QED BY <5>1 DEF TextInv
            <4> QED BY <4>1, <4>2
        <3>9. Texts(flow'.app.fields)
            <4> DEFINE q == packet'
            <4>1. flow' = PacketDecoded(f, q) /\ Texts(q.app.fields)
                BY <3>1, <3>7
            <4> HIDE DEF q
            <4>2. CASE f.by = "none" /\ q.status = "DECODED"
                <5>1. flow'.app = q.app
                    BY <4>1, <4>2 DEF PacketDecoded
                <5> QED BY <4>1, <5>1
            <4>3. CASE ~(f.by = "none" /\ q.status = "DECODED")
                <5>1. flow' = f
                    BY <4>1, <4>3 DEF PacketDecoded
                <5> QED BY <3>8, <5>1
            <4> QED BY <4>2, <4>3
        <3> QED BY <3>7, <3>9 DEF TextInv
    <2>2. CASE Datagram
        <3>1. packet' = DecodePacket(o) /\ flow' = flow
            BY <2>2 DEF Datagram
        <3> HIDE DEF o
        <3>2. Texts(packet'.app.fields) /\ packet'.octets \in Seq(ByteValues)
            BY <2>0, <3>1, PacketTexts, Zenon
        <3> QED BY <3>1, <3>2 DEF TextInv
    <2>3. CASE UNCHANGED streamVars
        BY <2>3 DEF streamVars, TextInv
    <2> QED BY <2>1, <2>2, <2>3 DEF StreamNext, Done
<1> QED BY <1>1, <1>2, StreamInvariant, PTL DEF StreamSpec

(* Terminal and JSON text give back what was captured, without a control   *)
(* octet on the terminal or a quote that ends a JSON string (TextIntact):  *)
(* for every traffic, and so for every text a decoder can find in it.      *)
THEOREM TextIsIntact == StreamSpec => []TextIntact
<1>1. TextInv => TextIntact
    <2> SUFFICES ASSUME TextInv, NEW f \in DOMAIN Shown.fields
                 PROVE  LET t == Shown.fields[f]
                        IN  /\ Unescaped(print_escaped_text(t)) = t
                            /\ ToSet(print_escaped_text(t)) \subseteq Printable
                            /\ JsonContent(print_json_string(t)) = t
                            /\ \A o \in ToSet(print_json_string(t)) : o >= 32 /\ o # 127
                            /\ JsonContent(print_json_payload_ascii(t)) # Malformed
        BY DEF TextIntact
    <2> DEFINE t == Shown.fields[f]
    <2>1. Texts(Shown.fields)
        BY DEF TextInv, Shown
    <2>2. t \in Seq(ByteValues)
        BY <2>1 DEF Texts
    <2> HIDE DEF t
    <2>3. /\ Unescaped(print_escaped_text(t)) = t
          /\ ToSet(print_escaped_text(t)) \subseteq Printable
        BY <2>2, TerminalReads, Zenon
    <2>4. /\ JsonContent(print_json_string(t)) = t
          /\ \A o \in ToSet(print_json_string(t)) : o >= 32 /\ o # 127
        BY <2>2, JsonReads, Zenon
    <2>5. JsonContent(print_json_payload_ascii(t)) # Malformed
        BY <2>2, JsonPayloadReads, Zenon
    <2> QED BY <2>3, <2>4, <2>5 DEF t
<1> QED BY <1>1, TextInvariant, PTL

----------------------------------------------------------------------------
(* Reading CSV rows.                                                       *)

(* Reading a quoted cell.                                                  *)
Cell == [text : Seq(Int), end : Nat]

\* What a step of the reading at p can be.
QuotedCase(row, from, p, c) ==
    \/ p = Len(row) /\ c = [text |-> Malformed, end |-> p]
    \/ p + 1 <= Len(row) /\ row[p + 1] # Quote /\ c = Preceded(row[p + 1], from[p + 1])
    \/ /\ p + 2 <= Len(row) /\ row[p + 1] = Quote /\ row[p + 2] = Quote
       /\ c = Preceded(Quote, from[p + 2])
    \/ p + 1 <= Len(row) /\ row[p + 1] = Quote /\ c = [text |-> <<>>, end |-> p + 1]

(* A step of the reading takes one of these forms.                         *)
LEMMA QuotedSteps ==
    ASSUME NEW row \in Seq(Nat), NEW p \in 0..Len(row), NEW f
    PROVE  QuotedCase(row, f, p, QuotedFrom(row, f, p))
<1>0. Len(row) \in Nat /\ p \in Nat
    OBVIOUS
<1>1. CASE p = Len(row)
    <2>1. QuotedFrom(row, f, p) = [text |-> Malformed, end |-> p]
        BY <1>1, Zenon DEF QuotedFrom
    <2> QED BY <1>1, <2>1, Zenon DEF QuotedCase
<1>2. CASE p # Len(row) /\ row[p + 1] # Quote
    <2>1. QuotedFrom(row, f, p) = Preceded(row[p + 1], f[p + 1])
        BY <1>2, Zenon DEF QuotedFrom
    <2>2. p + 1 <= Len(row)
        BY <1>0, <1>2
    <2> QED BY <1>2, <2>1, <2>2, Zenon DEF QuotedCase
<1>3. CASE p # Len(row) /\ row[p + 1] = Quote /\ p + 1 < Len(row) /\ row[p + 2] = Quote
    <2>1. QuotedFrom(row, f, p) = Preceded(Quote, f[p + 2])
        BY <1>3, Zenon DEF QuotedFrom
    <2>2. p + 2 <= Len(row)
        BY <1>0, <1>3
    <2> QED BY <1>3, <2>1, <2>2, Zenon DEF QuotedCase
<1>4. CASE p # Len(row) /\ row[p + 1] = Quote /\ ~(p + 1 < Len(row) /\ row[p + 2] = Quote)
    <2>1. QuotedFrom(row, f, p) = [text |-> <<>>, end |-> p + 1]
        BY <1>4, Zenon DEF QuotedFrom
    <2>2. p + 1 <= Len(row)
        BY <1>0, <1>4
    <2> QED BY <1>4, <2>1, <2>2, Zenon DEF QuotedCase
<1> QED BY <1>1, <1>2, <1>3, <1>4

(* An octet in front of what was read.                                     *)
LEMMA PrecededIs ==
    ASSUME NEW o \in Int, NEW c \in Cell
    PROVE  /\ Preceded(o, c) \in Cell /\ Preceded(o, c).end = c.end
           /\ Preceded(o, c).text = <<o>> \o c.text
<1> DEFINE t == c.text
           x == <<o>> \o t
           y == c.end
<1>1. t \in Seq(Int) /\ y \in Nat
    BY DEF Cell
<1>2. Preceded(o, c) = [text |-> x, end |-> y]
    BY DEF Preceded
<1> HIDE DEF t, y
<1>3. x \in Seq(Int)
    BY <1>1
<1> HIDE DEF x
<1>4. Preceded(o, c) \in Cell /\ Preceded(o, c).text = x /\ Preceded(o, c).end = y
    BY <1>1, <1>2, <1>3 DEF Cell
<1> QED BY <1>4 DEF x, t, y

(* A step depends only on what is read further on.                         *)
LEMMA QuotedStepLocal ==
    ASSUME NEW row \in Seq(Nat), NEW p \in 0..Len(row), NEW f, NEW g, AgreeBehind(f, g, Len(row), p)
    PROVE  QuotedFrom(row, f, p) = QuotedFrom(row, g, p)
<1>0. Len(row) \in Nat /\ p \in Nat
    OBVIOUS
<1>1. CASE p = Len(row)
    BY <1>1, Zenon DEF QuotedFrom
<1>2. CASE p # Len(row)
    <2>1. f[p + 1] = g[p + 1]
        <3>1. p + 1 \in 0..Len(row) /\ p < p + 1
            BY <1>0, <1>2
        <3> QED BY <3>1, Zenon DEF AgreeBehind
    <2>2. p + 1 < Len(row) => f[p + 2] = g[p + 2]
        <3> SUFFICES ASSUME p + 1 < Len(row) PROVE f[p + 2] = g[p + 2]
            OBVIOUS
        <3>1. p + 2 \in 0..Len(row) /\ p < p + 2
            BY <1>0
        <3> QED BY <3>1, Zenon DEF AgreeBehind
    <2> QED BY <1>2, <2>1, <2>2, Zenon DEF QuotedFrom
<1> QED BY <1>1, <1>2

(* The reading of a quoted cell follows its definition at every position,  *)
(* and ends inside the row.                                                *)
LEMMA QuotedUnfold ==
    ASSUME NEW row \in Seq(Nat)
    PROVE  \A p \in 0..Len(row) :
               /\ Quoted(row)[p] = QuotedFrom(row, Quoted(row), p) /\ Quoted(row)[p] \in Cell
               /\ p <= Quoted(row)[p].end /\ Quoted(row)[p].end <= Len(row)
<1> DEFINE L == Len(row)
           V == Cell
           body(f) == [p \in 0..L |-> QuotedFrom(row, f, p)]
           F == [f \in [0..L -> V] |-> body(f)]
           E == Quoted(row)
<1>0. L \in Nat /\ [text |-> <<>>, end |-> 0] \in V
    <2>1. <<>> \in Seq(Int)
        BY EmptySeq
    <2>2. [text |-> <<>>, end |-> 0] \in V
        BY <2>1 DEF Cell
    <2> QED BY <2>2
<1>1. ASSUME NEW f \in [0..L -> V], NEW p \in 0..L PROVE QuotedFrom(row, f, p) \in V
    <2> DEFINE c == QuotedFrom(row, f, p)
    <2>0. QuotedCase(row, f, p, c)
        BY QuotedSteps
    <2>p. p \in Nat
        BY <1>0
    <2> HIDE DEF c
    <2>1. ASSUME p = Len(row) /\ c = [text |-> Malformed, end |-> p] PROVE c \in Cell
        <3>1. Malformed \in Seq(Int)
            BY DEF Malformed
        <3> QED BY <2>1, <2>p, <3>1 DEF Cell
    <2>2. ASSUME p + 1 <= Len(row) /\ c = Preceded(row[p + 1], f[p + 1]) PROVE c \in Cell
        <3>1. p + 1 \in 0..L /\ row[p + 1] \in Int
            BY <1>0, <2>2
        <3> HIDE DEF L, V
        <3>2. f[p + 1] \in V
            BY <3>1
        <3> QED BY <2>2, <3>1, <3>2, PrecededIs, Zenon DEF V
    <2>3. ASSUME p + 2 <= Len(row) /\ c = Preceded(Quote, f[p + 2]) PROVE c \in Cell
        <3>1. p + 2 \in 0..L /\ Quote \in Int
            BY <1>0, <2>3 DEF Quote
        <3> HIDE DEF L, V
        <3>2. f[p + 2] \in V
            BY <3>1
        <3> QED BY <2>3, <3>1, <3>2, PrecededIs, Zenon DEF V
    <2>4. ASSUME p + 1 <= Len(row) /\ c = [text |-> <<>>, end |-> p + 1] PROVE c \in Cell
        <3>1. <<>> \in Seq(Int)
            BY EmptySeq
        <3> QED BY <2>4, <2>p, <3>1 DEF Cell
    <2>5. c \in Cell
        BY <2>0, <2>1, <2>2, <2>3, <2>4, Zenon DEF QuotedCase
    <2> QED BY SMTT(30), <2>5 DEF c
<1>2. F \in [[0..L -> V] -> [0..L -> V]] /\ \A f \in [0..L -> V] : F[f] = body(f)
    <2> HIDE DEF V
    <2> QED BY <1>1
<1>3. \A f, g \in [0..L -> V], p \in 0..L :
         (\A q \in 0..L : p < q => f[q] = g[q]) => F[f][p] = F[g][p]
    <2> SUFFICES ASSUME NEW f \in [0..L -> V], NEW g \in [0..L -> V], NEW p \in 0..L,
                        \A q \in 0..L : p < q => f[q] = g[q]
                 PROVE  F[f][p] = F[g][p]
        OBVIOUS
    <2>0. F[f] = body(f) /\ F[g] = body(g)
        BY <1>2
    <2>1. F[f][p] = QuotedFrom(row, f, p) /\ F[g][p] = QuotedFrom(row, g, p)
        <3> HIDE DEF F
        <3> QED BY <2>0
    <2>2. AgreeBehind(f, g, Len(row), p)
        BY Zenon DEF AgreeBehind
    <2> QED BY <2>1, <2>2, QuotedStepLocal
<1>4. \E f : f = body(f)
    <2>0. V # {}
        BY <1>0
    <2> HIDE DEF F, V, body, L
    <2>1. DefinesDownward(L, V, F)
        BY <1>0, <1>2, <1>3, <2>0, Zenon DEF DefinesDownward
    <2>2. \E f \in [0..L -> V] : f = F[f]
        BY <2>1, DownwardSolution
    <2> QED BY <1>2, <2>2
<1>5. E = body(E)
    <2>1. E = CHOOSE f : f = body(f)
        BY DEF Quoted
    <2> HIDE DEF body, E
    <2> QED BY <1>4, <2>1, Zenon
<1> HIDE DEF E
<1>6. \A p \in 0..L : E[p] = QuotedFrom(row, E, p)
    BY <1>5
<1> DEFINE Good(p) == E[p] \in Cell /\ p <= E[p].end /\ E[p].end <= L
           T == {k \in 0..L : ~Good(L - k)}
<1>7. T = {}
    <2> SUFFICES ASSUME T # {} PROVE FALSE
        OBVIOUS
    <2>1. T \in SUBSET Nat
        OBVIOUS
    <2>2. PICK k \in T : \A j \in T : k <= j
        <3> HIDE DEF T
        <3> QED BY <2>1, LeastNumber
    <2> DEFINE p == L - k
    <2>3. p \in 0..L /\ ~Good(p) /\ k \in 0..L
        BY <1>0
    <2>4. \A q \in 0..L : q > p => Good(q)
        <3> SUFFICES ASSUME NEW q \in 0..L, q > p PROVE Good(q)
            OBVIOUS
        <3>1. L - q \in 0..L /\ ~(k <= L - q) /\ L - (L - q) = q
            BY <1>0, <2>3
        <3>2. L - q \notin T
            <4> HIDE DEF T
            <4> QED BY <2>2, <3>1
        <3> HIDE DEF Good
        <3> QED BY <3>1, <3>2
    <2> HIDE DEF T, p
    <2>5. QuotedCase(row, E, p, E[p])
        BY <1>6, <2>3, QuotedSteps
    <2>6. CASE p = Len(row) /\ E[p] = [text |-> Malformed, end |-> p]
        <3>1. Malformed \in Seq(Int)
            BY DEF Malformed
        <3>2. E[p] \in Cell /\ E[p].end = p
            BY <2>3, <2>6, <3>1 DEF Cell
        <3> QED BY <1>0, <2>3, <3>2
    <2>7. CASE p + 1 <= Len(row) /\ E[p] = Preceded(row[p + 1], E[p + 1])
        <3>1. p + 1 \in 0..L /\ row[p + 1] \in Int /\ p + 1 > p
            BY <1>0, <2>3, <2>7
        <3>2. Good(p + 1)
            BY <2>4, <3>1
        <3>3. E[p] \in Cell /\ E[p].end = E[p + 1].end
            BY ZenonT(40), <2>7, <3>1, <3>2, PrecededIs
        <3>4. E[p + 1].end \in Nat
            BY <3>2 DEF Cell
        <3> QED BY <2>3, <3>1, <3>2, <3>3, <3>4
    <2>8. CASE p + 2 <= Len(row) /\ E[p] = Preceded(Quote, E[p + 2])
        <3>1. p + 2 \in 0..L /\ Quote \in Int /\ p + 2 > p
            BY <1>0, <2>3, <2>8 DEF Quote
        <3>2. Good(p + 2)
            BY <2>4, <3>1
        <3>3. E[p] \in Cell /\ E[p].end = E[p + 2].end
            BY <2>8, <3>1, <3>2, PrecededIs
        <3>4. E[p + 2].end \in Nat
            BY <3>2 DEF Cell
        <3> QED BY <2>3, <3>1, <3>2, <3>3, <3>4
    <2>9. CASE p + 1 <= Len(row) /\ E[p] = [text |-> <<>>, end |-> p + 1]
        <3>1. <<>> \in Seq(Int)
            BY EmptySeq
        <3>2. E[p] \in Cell /\ E[p].end = p + 1
            BY <2>3, <2>9, <3>1 DEF Cell
        <3> QED BY <1>0, <2>3, <2>9, <3>2
    <2> QED BY <2>5, <2>6, <2>7, <2>8, <2>9, Zenon DEF QuotedCase
<1>8. \A p \in 0..L : Good(p)
    <2> SUFFICES ASSUME NEW p \in 0..L PROVE Good(p)
        OBVIOUS
    <2>1. L - p \in 0..L /\ L - (L - p) = p
        BY <1>0
    <2>2. L - p \notin T
        <3> HIDE DEF T
        <3> QED BY <1>7
    <2> HIDE DEF Good
    <2> QED BY <2>1, <2>2
<1> QED BY <1>6, <1>8 DEF E

(* From position q the reader of the row sees the octets of u behind r, and *)
(* the cell ends at e.                                                     *)
ReadsAs(row, q, u, r, e) ==
    Quoted(row)[q].text = SubSeq(u, r + 1, Len(u)) /\ Quoted(row)[q].end = e

\* An octet that is no quote is read as itself.
LEMMA PlainRead ==
    ASSUME NEW row \in Seq(Nat), NEW u \in Seq(Nat), NEW q \in Nat, NEW r \in Nat, NEW e,
           q < Len(row), r < Len(u), row[q + 1] = u[r + 1], row[q + 1] # Quote,
           ReadsAs(row, q + 1, u, r + 1, e)
    PROVE  ReadsAs(row, q, u, r, e)
<1> DEFINE E == Quoted(row)
           c == E[q + 1]
           o == row[q + 1]
           k == r + 1
<1>1. q \in 0..Len(row) /\ q + 1 \in 0..Len(row) /\ q # Len(row) /\ Len(row) \in Nat
    OBVIOUS
<1>2. E[q] = QuotedFrom(row, E, q) /\ c \in Cell
    BY <1>1, QuotedUnfold
<1>3. E[q] = Preceded(o, c)
    BY <1>1, <1>2, Zenon DEF QuotedFrom
<1>4. o \in Int /\ o = u[k] /\ k \in 1..Len(u)
    OBVIOUS
<1>5. c.text = SubSeq(u, k + 1, Len(u)) /\ c.end = e
    BY DEF ReadsAs
<1>6. E[q].text = <<o>> \o c.text /\ E[q].end = c.end
    <2> HIDE DEF c, o, E
    <2> QED BY <1>2, <1>3, <1>4, PrecededIs
<1>7. <<u[k]>> \o SubSeq(u, k + 1, Len(u)) = SubSeq(u, k, Len(u))
    <2> HIDE DEF k
    <2> QED BY <1>4, SuffixStep
<1>8. E[q].text = SubSeq(u, k, Len(u)) /\ E[q].end = e
    <2> HIDE DEF k, c, o, E
    <2> QED BY <1>4, <1>5, <1>6, <1>7
<1> QED BY <1>8 DEF ReadsAs

\* Two quotes are read as one.
LEMMA PairRead ==
    ASSUME NEW row \in Seq(Nat), NEW u \in Seq(Nat), NEW q \in Nat, NEW r \in Nat, NEW e,
           q + 2 <= Len(row), r < Len(u), row[q + 1] = Quote, row[q + 2] = Quote,
           u[r + 1] = Quote, ReadsAs(row, q + 2, u, r + 1, e)
    PROVE  ReadsAs(row, q, u, r, e)
<1> DEFINE E == Quoted(row)
           c == E[q + 2]
           k == r + 1
<1>1. q \in 0..Len(row) /\ q + 2 \in 0..Len(row) /\ q # Len(row) /\ Len(row) \in Nat /\ q + 1 < Len(row)
    OBVIOUS
<1>2. E[q] = QuotedFrom(row, E, q) /\ c \in Cell
    BY <1>1, QuotedUnfold
<1>3. E[q] = Preceded(Quote, c)
    BY <1>1, <1>2, Zenon DEF QuotedFrom
<1>4. Quote \in Int /\ Quote = u[k] /\ k \in 1..Len(u)
    BY DEF Quote
<1>5. c.text = SubSeq(u, k + 1, Len(u)) /\ c.end = e
    BY DEF ReadsAs
<1>6. E[q].text = <<Quote>> \o c.text /\ E[q].end = c.end
    <2> HIDE DEF c, E
    <2> QED BY <1>2, <1>3, <1>4, PrecededIs
<1>7. <<u[k]>> \o SubSeq(u, k + 1, Len(u)) = SubSeq(u, k, Len(u))
    <2> HIDE DEF k
    <2> QED BY <1>4, SuffixStep
<1>8. E[q].text = SubSeq(u, k, Len(u)) /\ E[q].end = e
    <2> HIDE DEF k, c, E
    <2> QED BY <1>4, <1>5, <1>6, <1>7
<1> QED BY <1>8 DEF ReadsAs

\* A run of octets without a quote is read as it stands.
LEMMA RunRead ==
    ASSUME NEW row \in Seq(Nat), NEW u \in Seq(Nat), NEW q \in Nat, NEW r \in Nat, NEW n \in Nat, NEW e,
           q + n <= Len(row), r + n <= Len(u),
           \A j \in 1..n : row[q + j] = u[r + j] /\ u[r + j] # Quote,
           ReadsAs(row, q + n, u, r + n, e)
    PROVE  ReadsAs(row, q, u, r, e)
<1> DEFINE S == {i \in 0..n : ReadsAs(row, q + (n - i), u, r + (n - i), e)}
<1>1. 0 \in S
    <2>1. n - 0 = n /\ 0 \in 0..n
        OBVIOUS
    <2> QED BY <2>1, Zenon
<1>2. ASSUME NEW i \in 0..n, i \in S, i < n PROVE i + 1 \in S
    <2> DEFINE j == n - i
               m == n - (i + 1)
               a == q + m
               b == r + m
    <2>0. ReadsAs(row, q + j, u, r + j, e)
        BY <1>2
    <2> HIDE DEF S
    <2>1. /\ j \in 1..n /\ m \in Nat /\ a \in Nat /\ b \in Nat /\ q + j = a + 1 /\ r + j = b + 1
          /\ a < Len(row) /\ b < Len(u) /\ i + 1 \in 0..n
        BY <1>2
    <2> HIDE DEF a, b, j
    <2>2. row[a + 1] = u[b + 1] /\ row[a + 1] # Quote
        BY <2>1
    <2>3. ReadsAs(row, a + 1, u, b + 1, e)
        BY <2>0, <2>1
    <2>4. ReadsAs(row, a, u, b, e)
        BY <2>1, <2>2, <2>3, PlainRead
    <2> QED BY <2>1, <2>4 DEF S, a, b
<1>3. n \in S
    <2>1. n \in 0..n /\ 0 \in Nat
        OBVIOUS
    <2>2. \A i \in 0..n : i \in S /\ i < n => i + 1 \in S
        BY <1>2
    <2> HIDE DEF S
    <2> QED BY <1>1, <2>1, <2>2, IntervalInduction
<1>4. q + (n - n) = q /\ r + (n - n) = r
    OBVIOUS
<1>5. ReadsAs(row, q + (n - n), u, r + (n - n), e)
    BY <1>3
<1> QED BY <1>4, <1>5

\* How a piece d of a text is written in a cell: as it is, or a quote as two.
CellPiece(d, c) ==
    \/ c = d /\ \A j \in 1..Len(d) : d[j] # Quote
    \/ c = <<Quote, Quote>> /\ d = <<Quote>>

(* A piece of a cell is read as the piece of the text it was written for.  *)
LEMMA PieceReadAs ==
    ASSUME NEW row \in Seq(Nat), NEW u \in Seq(Nat), NEW q \in Nat, NEW r \in Nat, NEW e,
           NEW c \in Seq(Nat), NEW d \in Seq(Nat), CellPiece(d, c),
           StandsAt(row, q, c), StandsAt(u, r, d), ReadsAs(row, q + Len(c), u, r + Len(d), e)
    PROVE  ReadsAs(row, q, u, r, e)
<1>1. CASE c = d /\ \A j \in 1..Len(d) : d[j] # Quote
    <2> DEFINE n == Len(d)
    <2>0. n \in Nat /\ Len(c) = n /\ \A j \in 1..n : c[j] = d[j] /\ d[j] # Quote
        BY <1>1
    <2>1. /\ n \in Nat /\ q + n <= Len(row) /\ r + n <= Len(u)
          /\ \A j \in 1..n : row[q + j] = u[r + j] /\ u[r + j] # Quote
          /\ ReadsAs(row, q + n, u, r + n, e)
        <3>1. q + Len(c) <= Len(row) /\ \A j \in 1..Len(c) : row[q + j] = c[j]
            BY Zenon DEF StandsAt
        <3>2. r + Len(d) <= Len(u) /\ \A j \in 1..Len(d) : u[r + j] = d[j]
            BY Zenon DEF StandsAt
        <3> QED BY <2>0, <3>1, <3>2
    <2> HIDE DEF n
    <2> QED BY <2>1, RunRead
<1>2. CASE c = <<Quote, Quote>> /\ d = <<Quote>>
    <2>1. Len(c) = 2 /\ Len(d) = 1 /\ c[1] = Quote /\ c[2] = Quote /\ d[1] = Quote
        BY <1>2
    <2>2. /\ q + 2 <= Len(row) /\ r < Len(u) /\ row[q + 1] = Quote /\ row[q + 2] = Quote
          /\ u[r + 1] = Quote
        BY <2>1 DEF StandsAt
    <2>3. ReadsAs(row, q + 2, u, r + 1, e)
        BY <2>1
    <2> QED BY <2>2, <2>3, PairRead
<1> QED BY <1>1, <1>2 DEF CellPiece

\* A cell: a without quotes, then the pieces s, which stand for m.
CellText(a, s) == <<Quote>> \o a \o FlattenSeq(s) \o <<Quote>>

Written(a, s, m) ==
    /\ \A j \in 1..Len(a) : a[j] # Quote
    /\ Len(m) = Len(s) /\ \A k \in 1..Len(s) : CellPiece(m[k], s[k])

(* A whole cell that stands in a row, with something other than a quote    *)
(* behind it, is read as its text and ends where it ends: no quote inside  *)
(* it ends it.                                                             *)
LEMMA CellRead ==
    ASSUME NEW row \in Seq(Nat), NEW p \in Nat, NEW a \in Seq(Nat),
           NEW s \in Seq(Seq(Nat)), NEW m \in Seq(Seq(Nat)), Written(a, s, m),
           StandsAt(row, p, CellText(a, s)), p + Len(CellText(a, s)) < Len(row),
           row[p + Len(CellText(a, s)) + 1] # Quote
    PROVE  /\ Len(CellText(a, s)) \in Nat /\ row[p + 1] = Quote
           /\ Quoted(row)[p + 1].text = a \o FlattenSeq(m)
           /\ Quoted(row)[p + 1].end = p + Len(CellText(a, s))
<1> DEFINE w == FlattenSeq(s)
           v == FlattenSeq(m)
           q1 == <<Quote>>
           c == CellText(a, s)
           u == a \o v
           la == Len(a)
           e == p + Len(c)
           x == p + 1
           y == x + la
           z == y + Len(w)
<1>1. w \in Seq(Nat) /\ v \in Seq(Nat) /\ q1 \in Seq(Nat) /\ Len(q1) = 1 /\ q1[1] = Quote /\ la \in Nat
    <2>1. w \in Seq(Nat) /\ v \in Seq(Nat)
        BY FlattenIs, Zenon
    <2>2. Quote \in Nat
        BY DEF Quote
    <2>3. q1 \in Seq(Nat) /\ Len(q1) = 1 /\ q1[1] = Quote /\ la \in Nat
        BY <2>2
    <2> QED BY <2>1, <2>3
<1>0. /\ \A j \in 1..Len(a) : a[j] # Quote
      /\ Len(m) = Len(s) /\ \A k \in 1..Len(s) : CellPiece(m[k], s[k])
    BY Zenon DEF Written
<1>a. PICK at : LaidOut(s, w, at)
    BY FlattenIs, Zenon
<1>b. PICK bt : LaidOut(m, v, bt)
    BY FlattenIs, Zenon
<1>2. c = ((q1 \o a) \o w) \o q1
    BY Zenon DEF CellText
<1>c. StandsAt(row, p, c)
    OBVIOUS
<1> HIDE DEF w, v, q1, c, la
<1>3. /\ StandsAt(row, p, q1) /\ StandsAt(row, x, a) /\ StandsAt(row, y, w) /\ StandsAt(row, z, q1)
      /\ e = z + 1 /\ Len(c) \in Nat
    <2> DEFINE c2 == q1 \o a
               c3 == c2 \o w
    <2>1. c2 \in Seq(Nat) /\ c3 \in Seq(Nat) /\ c3 \o q1 \in Seq(Nat)
        BY <1>1
    <2>2. c = c3 \o q1
        BY <1>2
    <2> HIDE DEF c3
    <2>3. StandsAt(row, p, c3) /\ StandsAt(row, p + Len(c3), q1) /\ Len(c) = Len(c3) + Len(q1)
        BY <1>1, <1>c, <2>1, <2>2, StandsInFirst
    <2>4. StandsAt(row, p, c2) /\ StandsAt(row, p + Len(c2), w) /\ Len(c3) = Len(c2) + Len(w)
        <3>1. c3 = c2 \o w
            BY DEF c3
        <3> HIDE DEF c2
        <3> QED BY <1>1, <2>1, <2>3, <3>1, StandsInFirst
    <2>5. StandsAt(row, p, q1) /\ StandsAt(row, p + Len(q1), a) /\ Len(c2) = Len(q1) + Len(a)
        BY <1>1, <2>1, <2>4, StandsInFirst
    <2>6. Len(c2) = 1 + la /\ Len(w) \in Nat
        BY <1>1, <2>5 DEF la
    <2>7. p + Len(q1) = x /\ p + Len(c2) = y /\ p + Len(c3) = z /\ e = z + 1 /\ Len(c) \in Nat
        <3> HIDE DEF c2
        <3> QED BY <1>1, <2>3, <2>4, <2>6
    <2> QED BY <2>3, <2>4, <2>5, <2>7
<1>4. row[x] = Quote /\ x \in Nat /\ y \in Nat /\ z \in Nat /\ Len(w) \in Nat /\ Len(v) \in Nat
    <2>1. row[p + 1] = q1[1]
        BY <1>1, <1>3 DEF StandsAt
    <2> QED BY SMTT(30), <1>1, <2>1
<1>5. u \in Seq(Nat) /\ Len(u) = la + Len(v) /\ StandsAt(u, 0, a) /\ StandsAt(u, la, v)
    <2>1. u \in Seq(Nat) /\ Len(u) = Len(a) + Len(v) /\ u = a \o v
        BY <1>1
    <2>2. StandsAt(u, 0, u)
        BY <2>1, StandsAtNothing
    <2>3. StandsAt(u, 0, a) /\ StandsAt(u, 0 + Len(a), v)
        <3> HIDE DEF u
        <3>1. 0 \in Nat
            OBVIOUS
        <3> QED BY <1>1, <2>1, <2>2, <3>1, StandsInFirst
    <2>4. 0 + Len(a) = la
        BY DEF la
    <2> QED BY <2>1, <2>3, <2>4 DEF la
<1> HIDE DEF u
<1>6. ReadsAs(row, z, u, Len(u), e)
    <2>1. row[z + 1] = Quote /\ z + 1 < Len(row) /\ row[z + 2] # Quote /\ z # Len(row) /\ z \in 0..Len(row)
        <3>1. row[z + 1] = q1[1]
            <4>1. StandsAt(row, z, q1) /\ 1 \in 1..Len(q1)
                BY <1>1, <1>3
            <4> QED BY <4>1, Zenon DEF StandsAt
        <3>2. e < Len(row) /\ row[e + 1] # Quote
            BY DEF c
        <3>3. z + 1 + 1 = z + 2
            BY <1>4
        <3> HIDE DEF z, e
        <3> QED BY <1>1, <1>3, <1>4, <3>1, <3>2, <3>3
    <2>2. Quoted(row)[z] = QuotedFrom(row, Quoted(row), z)
        BY <2>1, QuotedUnfold
    <2>3. Quoted(row)[z] = [text |-> <<>>, end |-> z + 1]
        BY <2>1, <2>2, Zenon DEF QuotedFrom
    <2>4. SubSeq(u, Len(u) + 1, Len(u)) = <<>>
        BY <1>5
    <2> HIDE DEF z, e
    <2> QED BY <1>3, <2>3, <2>4 DEF ReadsAs
<1> DEFINE G == {i \in 0..Len(s) : ReadsAs(row, y + at[Len(s) - i], u, la + bt[Len(s) - i], e)}
<1>7. \A i \in 0..Len(s) : i \in G
    <2>1. 0 \in G
        <3>1. at[Len(s)] = Len(w) /\ bt[Len(s)] = Len(v) /\ Len(s) - 0 = Len(s) /\ 0 \in 0..Len(s)
            BY <1>0, <1>a, <1>b DEF LaidOut
        <3> QED BY <1>5, <1>6, <3>1
    <2>2. ASSUME NEW i \in 0..Len(s), i \in G, i < Len(s) PROVE i + 1 \in G
        <3> DEFINE k == Len(s) - (i + 1)
                   sp == s[k + 1]
                   mp == m[k + 1]
        <3>0. Len(s) \in Nat /\ i \in Nat
            OBVIOUS
        <3>1. k \in 0..(Len(s) - 1) /\ k + 1 = Len(s) - i /\ k + 1 \in 1..Len(s) /\ i + 1 \in 0..Len(s)
            <4> HIDE DEF G
            <4> QED BY <2>2, <3>0
        <3>2. ReadsAs(row, y + at[k + 1], u, la + bt[k + 1], e)
            BY <2>2, <3>1
        <3> HIDE DEF G, k
        <3>3. sp \in Seq(Nat) /\ mp \in Seq(Nat) /\ CellPiece(mp, sp)
            <4>1. k + 1 \in 1..Len(m)
                BY <1>0, <3>1
            <4>2. sp \in Seq(Nat) /\ mp \in Seq(Nat)
                BY SMTT(30), <3>1, <4>1
            <4> QED BY <1>0, <3>1, <4>2
        <3>4. at[k] \in Nat /\ at[k + 1] = at[k] + Len(sp) /\ StandsAt(w, at[k], sp)
            BY <1>a, <3>1, PlacedAt
        <3>5. bt[k] \in Nat /\ bt[k + 1] = bt[k] + Len(mp) /\ StandsAt(v, bt[k], mp)
            <4>1. k \in 0..(Len(m) - 1)
                BY <1>0, <3>1
            <4> QED BY <1>b, <4>1, PlacedAt
        <3> DEFINE ak == at[k]
                   bk == bt[k]
        <3> HIDE DEF sp, mp, y, z, e
        <3>6. StandsAt(row, y + ak, sp) /\ StandsAt(u, la + bk, mp)
            BY <1>1, <1>3, <1>4, <1>5, <3>3, <3>4, <3>5, StandsWithin
        <3>7. /\ y + (ak + Len(sp)) = (y + ak) + Len(sp) /\ y + ak \in Nat /\ la + bk \in Nat
              /\ la + (bk + Len(mp)) = (la + bk) + Len(mp)
            <4>1. Len(sp) \in Nat /\ Len(mp) \in Nat
                BY <3>3
            <4>2. ak \in Nat /\ bk \in Nat
                BY <3>4, <3>5
            <4>3. la \in Nat /\ y \in Nat
                BY <1>1, <1>4
            <4> DEFINE ls == Len(sp)
                       lm == Len(mp)
            <4> HIDE DEF ak, bk, ls, lm, G
            <4>4. ls \in Nat /\ lm \in Nat
                BY <4>1 DEF ls, lm
            <4>5. /\ y + (ak + ls) = (y + ak) + ls /\ y + ak \in Nat /\ la + bk \in Nat
                  /\ la + (bk + lm) = (la + bk) + lm
                BY <4>2, <4>3, <4>4
            <4> QED BY <4>5 DEF ls, lm
        <3>8. ReadsAs(row, (y + ak) + Len(sp), u, (la + bk) + Len(mp), e)
            BY <3>2, <3>4, <3>5, <3>7
        <3>9. ReadsAs(row, y + ak, u, la + bk, e)
            <4> HIDE DEF ak, bk
            <4> QED BY <1>5, <3>3, <3>6, <3>7, <3>8, PieceReadAs
        <3> QED BY <3>1, <3>9 DEF G, k
    <2>3. \A i \in 0..Len(s) : i \in G /\ i < Len(s) => i + 1 \in G
        BY <2>2
    <2>4. 0 \in Nat /\ Len(s) \in Nat
        OBVIOUS
    <2> HIDE DEF G
    <2> QED BY <2>1, <2>3, <2>4, IntervalInduction
<1>8. ReadsAs(row, y, u, la, e)
    <2>1. Len(s) \in 0..Len(s) /\ Len(s) - Len(s) = 0 /\ at[0] = 0 /\ bt[0] = 0
        BY <1>a, <1>b DEF LaidOut
    <2>2. Len(s) \in G
        <3> HIDE DEF G
        <3> QED BY <1>7, <2>1
    <2>3. ReadsAs(row, y + 0, u, la + 0, e)
        <3> HIDE DEF y, e
        <3> QED BY <2>1, <2>2
    <2>4. y + 0 = y /\ la + 0 = la
        BY <1>1, <1>4
    <2> QED BY <2>3, <2>4
<1>9. ReadsAs(row, x, u, 0, e)
    <2>1. CellPiece(a, a) /\ 0 \in Nat /\ 0 + la = la
        BY <1>0, <1>1 DEF CellPiece
    <2> HIDE DEF x, e
    <2>2. ReadsAs(row, x + Len(a), u, 0 + Len(a), e)
        BY <1>8, <2>1 DEF la
    <2> QED BY <1>3, <1>4, <1>5, <2>1, <2>2, PieceReadAs
<1>10. SubSeq(u, 1, Len(u)) = u /\ 0 + 1 = 1
    BY <1>5
<1> QED BY <1>3, <1>4, <1>9, <1>10 DEF ReadsAs, u, v, c

\* c is a cell that holds u.
CellOf(c, u) ==
    \E a \in Seq(Nat), s, m \in Seq(Seq(Nat)) :
        Written(a, s, m) /\ c = CellText(a, s) /\ u = a \o FlattenSeq(m)

(* A cell that stands in a row is read as what it holds.                   *)
LEMMA CellIsRead ==
    ASSUME NEW row \in Seq(Nat), NEW p \in Nat, NEW c, NEW u, CellOf(c, u),
           StandsAt(row, p, c), p + Len(c) < Len(row), row[p + Len(c) + 1] # Quote
    PROVE  /\ Len(c) \in Nat /\ row[p + 1] = Quote
           /\ Quoted(row)[p + 1].text = u /\ Quoted(row)[p + 1].end = p + Len(c)
<1>1. PICK a \in Seq(Nat), s \in Seq(Seq(Nat)), m \in Seq(Seq(Nat)) :
        Written(a, s, m) /\ c = CellText(a, s) /\ u = a \o FlattenSeq(m)
    BY Zenon DEF CellOf
<1>2. /\ StandsAt(row, p, CellText(a, s)) /\ p + Len(CellText(a, s)) < Len(row)
      /\ row[p + Len(CellText(a, s)) + 1] # Quote
    BY <1>1, Zenon
<1> DEFINE d == CellText(a, s)
<1>3. /\ Len(d) \in Nat /\ row[p + 1] = Quote
      /\ Quoted(row)[p + 1].text = a \o FlattenSeq(m) /\ Quoted(row)[p + 1].end = p + Len(d)
    BY ZenonT(40), <1>1, <1>2, CellRead
<1> QED BY <1>1, <1>3, Zenon

\* The cell that CellsFrom reads at p, and what follows it.
CellAt(row, p) == Quoted(row)[p + 1]

LastCell(row, p) == CellAt(row, p).end + 1 = Len(row) /\ row[CellAt(row, p).end + 1] = Newline

InnerCell(row, p) == CellAt(row, p).end + 1 < Len(row) /\ row[CellAt(row, p).end + 1] = Comma

NoCell(row, p) == p = Len(row) \/ row[p + 1] # Quote

CellHead(row, p) ==
    IF NoCell(row, p) THEN <<Malformed>>
    ELSE IF LastCell(row, p) \/ InnerCell(row, p) THEN <<CellAt(row, p).text>>
    ELSE <<CellAt(row, p).text, Malformed>>

CellNext(row, p) ==
    IF ~NoCell(row, p) /\ ~LastCell(row, p) /\ InnerCell(row, p)
    THEN CellAt(row, p).end + 1 ELSE Len(row) + 1

\* The function that CsvCells reads with.
RowScan(row) == CHOOSE f : f = [p \in 0..Len(row) |-> CellsFrom(row, f, p)]

(* The cells of a row are a chain.                                         *)
LEMMA CellsChain ==
    ASSUME NEW row \in Seq(Nat)
    PROVE  LET head == [p \in 0..Len(row) |-> CellHead(row, p)]
               next == [p \in 0..Len(row) |-> CellNext(row, p)]
           IN  /\ Chain(Len(row), Seq(Int), head, next)
               /\ \A f : \A p \in 0..Len(row) : CellsFrom(row, f, p) = Link(f, Len(row), head, next, p)
<1> DEFINE L == Len(row)
           head == [p \in 0..L |-> CellHead(row, p)]
           next == [p \in 0..L |-> CellNext(row, p)]
<1>0. L \in Nat /\ Malformed \in Seq(Int)
    BY DEF Malformed
<1>1. \A p \in 0..L : p # L => /\ CellAt(row, p) \in Cell /\ CellAt(row, p).text \in Seq(Int)
                               /\ CellAt(row, p).end \in Nat /\ CellAt(row, p).end > p
    <2> SUFFICES ASSUME NEW p \in 0..L, p # L
                 PROVE  /\ CellAt(row, p) \in Cell /\ CellAt(row, p).text \in Seq(Int)
                        /\ CellAt(row, p).end \in Nat /\ CellAt(row, p).end > p
        OBVIOUS
    <2>1. p + 1 \in 0..Len(row)
        BY <1>0
    <2> DEFINE c == CellAt(row, p)
    <2>2. c \in Cell /\ p + 1 <= c.end
        BY <2>1, QuotedUnfold DEF CellAt
    <2> HIDE DEF c
    <2>3. c.text \in Seq(Int) /\ c.end \in Nat
        BY <2>2 DEF Cell
    <2>4. c.end > p
        BY <2>2, <2>3
    <2> QED BY <2>2, <2>3, <2>4 DEF c
<1>2. ASSUME NEW p \in 0..L
      PROVE  CellHead(row, p) \in Seq(Seq(Int)) /\ CellNext(row, p) \in Nat /\ CellNext(row, p) > p
    <2>1. CASE NoCell(row, p)
        <3>1. CellHead(row, p) = <<Malformed>> /\ CellNext(row, p) = L + 1
            BY <2>1 DEF CellHead, CellNext
        <3> QED BY <1>0, <3>1
    <2>2. CASE ~NoCell(row, p)
        <3> DEFINE t == CellAt(row, p).text
                   e == CellAt(row, p).end
        <3>1. t \in Seq(Int) /\ e \in Nat /\ e > p
            BY <1>1, <2>2 DEF NoCell
        <3>2. CellHead(row, p) = <<t>> \/ CellHead(row, p) = <<t, Malformed>>
            BY <2>2 DEF CellHead
        <3>3. CellNext(row, p) = e + 1 \/ CellNext(row, p) = L + 1
            BY DEF CellNext
        <3> HIDE DEF t, e
        <3>4. <<t>> \in Seq(Seq(Int)) /\ <<t, Malformed>> \in Seq(Seq(Int))
            BY <1>0, <3>1
        <3>5. CellHead(row, p) \in Seq(Seq(Int))
            BY <3>2, <3>4, Zenon
        <3> QED BY <1>0, <3>1, <3>3, <3>5
    <2> QED BY <2>1, <2>2
<1>3. Chain(L, Seq(Int), head, next)
    <2>1. head \in [0..L -> Seq(Seq(Int))] /\ next \in [0..L -> Nat]
        BY <1>2
    <2>2. \A p \in 0..L : next[p] > p
        BY <1>2
    <2> HIDE DEF head, next, L
    <2> QED BY <1>0, <2>1, <2>2, Zenon DEF Chain
<1>4. ASSUME NEW f, NEW p \in 0..L PROVE CellsFrom(row, f, p) = Link(f, L, head, next, p)
    <2>0. head[p] = CellHead(row, p) /\ next[p] = CellNext(row, p)
        OBVIOUS
    <2> HIDE DEF head, next
    <2> DEFINE t == CellAt(row, p).text
               e == CellAt(row, p).end
    <2>1. CASE NoCell(row, p)
        <3>1. CellHead(row, p) = <<Malformed>> /\ CellNext(row, p) = L + 1
            BY <2>1 DEF CellHead, CellNext
        <3>2. CellsFrom(row, f, p) = <<Malformed>>
            BY <2>1, Zenon DEF NoCell, CellsFrom
        <3>3. next[p] > L
            BY <1>0, <2>0, <3>1
        <3> QED BY <2>0, <3>1, <3>2, <3>3, Zenon DEF Link
    <2>2. CASE ~NoCell(row, p) /\ LastCell(row, p)
        <3>1. CellHead(row, p) = <<t>> /\ CellNext(row, p) = L + 1
            BY <2>2 DEF CellHead, CellNext
        <3>2. CellsFrom(row, f, p) = <<t>>
            BY <2>2, Zenon DEF NoCell, LastCell, CellAt, CellsFrom
        <3>3. next[p] > L
            BY <1>0, <2>0, <3>1
        <3> QED BY <2>0, <3>1, <3>2, <3>3, Zenon DEF Link
    <2>3. CASE ~NoCell(row, p) /\ ~LastCell(row, p) /\ InnerCell(row, p)
        <3>1. CellHead(row, p) = <<t>> /\ CellNext(row, p) = e + 1
            BY <2>3 DEF CellHead, CellNext
        <3>2. CellsFrom(row, f, p) = <<t>> \o f[e + 1]
            BY <2>3, Zenon DEF NoCell, LastCell, InnerCell, CellAt, CellsFrom
        <3>3. ~(next[p] > L)
            <4>1. e + 1 < L /\ next[p] = e + 1 /\ e \in Nat
                BY <1>1, <2>0, <2>3, <3>1 DEF InnerCell, NoCell
            <4> HIDE DEF e, L
            <4> QED BY <1>0, <4>1
        <3> QED BY <2>0, <3>1, <3>2, <3>3, Zenon DEF Link
    <2>4. CASE ~NoCell(row, p) /\ ~LastCell(row, p) /\ ~InnerCell(row, p)
        <3>1. CellHead(row, p) = <<t, Malformed>> /\ CellNext(row, p) = L + 1
            BY <2>4 DEF CellHead, CellNext
        <3>2. CellsFrom(row, f, p) = <<t, Malformed>>
            BY <2>4, Zenon DEF NoCell, LastCell, InnerCell, CellAt, CellsFrom
        <3>3. next[p] > L
            BY <1>0, <2>0, <3>1
        <3> QED BY <2>0, <3>1, <3>2, <3>3, Zenon DEF Link
    <2> QED BY <2>1, <2>2, <2>3, <2>4
<1> QED BY <1>3, <1>4

(* The reader follows its definition at every position.                    *)
LEMMA CellsUnfold ==
    ASSUME NEW row \in Seq(Nat)
    PROVE  /\ CsvCells(row) = RowScan(row)[0]
           /\ \A p \in 0..Len(row) : RowScan(row)[p] = CellsFrom(row, RowScan(row), p)
<1> DEFINE L == Len(row)
           head == [p \in 0..L |-> CellHead(row, p)]
           next == [p \in 0..L |-> CellNext(row, p)]
           body(f) == [p \in 0..L |-> CellsFrom(row, f, p)]
<1>1. CsvCells(row) = RowScan(row)[0]
    BY DEF CsvCells, RowScan
<1>2. /\ Chain(L, Seq(Int), head, next)
      /\ \A f : \A p \in 0..L : CellsFrom(row, f, p) = Link(f, L, head, next, p)
    BY CellsChain
<1> HIDE DEF head, next
<1>3. \A f : body(f) = [p \in 0..L |-> Link(f, L, head, next, p)]
    BY <1>2, Zenon
<1>4. \E f : f = [p \in 0..L |-> Link(f, L, head, next, p)]
    <2>1. \E f \in [0..L -> Seq(Seq(Int))] : f = [p \in 0..L |-> Link(f, L, head, next, p)]
        <3> HIDE DEF L
        <3> QED BY <1>2, ChainSolution
    <2> QED BY <2>1, Zenon
<1>5. \E f : f = body(f)
    <2> HIDE DEF body
    <2> QED BY <1>3, <1>4
<1>6. RowScan(row) = body(RowScan(row))
    <2>1. RowScan(row) = CHOOSE f : f = body(f)
        BY DEF RowScan
    <2> HIDE DEF body
    <2> QED BY <1>5, <2>1, Zenon
<1>7. \A p \in 0..L : RowScan(row)[p] = CellsFrom(row, RowScan(row), p)
    BY <1>6
<1> QED BY <1>1, <1>7

\* Cells with a comma in front of each but the first.
WithCommas(parts) == [i \in 1..Len(parts) |-> IF i = 1 THEN parts[i] ELSE <<Comma>> \o parts[i]]

\* Where cell i begins.
CellStart(at, i) == IF i = 1 THEN 0 ELSE at[i - 1] + 1

(* Where the cells stand in a row, and what is behind each.                *)
LEMMA RowPlaces ==
    ASSUME NEW parts \in Seq(Seq(Nat)), Len(parts) > 0
    PROVE  LET row == Append(Separated(parts, <<Comma>>), Newline)
           IN  /\ row \in Seq(Nat)
               /\ \E at : /\ at[Len(parts)] + 1 = Len(row) /\ row[Len(row)] = Newline
                          /\ \A i \in 1..Len(parts) :
                                /\ CellStart(at, i) \in Nat
                                /\ at[i] = CellStart(at, i) + Len(parts[i])
                                /\ StandsAt(row, CellStart(at, i), parts[i])
                                /\ i < Len(parts) => row[at[i] + 1] = Comma /\ at[i] + 1 < Len(row)
<1> DEFINE g == WithCommas(parts)
           w == FlattenSeq(g)
           n == Len(parts)
           row == Append(w, Newline)
           comma == <<Comma>>
<1>0. n \in Nat /\ Newline \in Nat /\ comma \in Seq(Nat) /\ Len(comma) = 1 /\ comma[1] = Comma
    BY DEF Newline, Comma
<1>1. Append(Separated(parts, <<Comma>>), Newline) = row
    BY DEF Separated, WithCommas
<1>2. \A i \in 1..n : /\ g[i] = IF i = 1 THEN parts[i] ELSE comma \o parts[i]
                      /\ parts[i] \in Seq(Nat)
    BY DEF WithCommas
<1>3. g \in Seq(Seq(Nat)) /\ Len(g) = n
    <2>1. \A i \in 1..n : comma \o parts[i] \in Seq(Nat)
        <3> SUFFICES ASSUME NEW i \in 1..n PROVE comma \o parts[i] \in Seq(Nat)
            OBVIOUS
        <3> DEFINE c == parts[i]
        <3>1. c \in Seq(Nat)
            BY <1>2
        <3> HIDE DEF c, comma
        <3> QED BY <1>0, <3>1
    <2> HIDE DEF comma
    <2>2. \A i \in 1..n : g[i] \in Seq(Nat)
        BY <1>2, <2>1
    <2>3. g = [i \in 1..n |-> g[i]]
        BY DEF WithCommas
    <2> HIDE DEF g
    <2> QED BY <1>0, <2>2, <2>3
<1> HIDE DEF g, n, comma
<1>4. PICK at : LaidOut(g, w, at)
    BY <1>3, FlattenIs, Zenon
<1>5. w \in Seq(Nat)
    BY <1>3, FlattenIs, Zenon
<1> HIDE DEF w
<1>6. /\ row \in Seq(Nat) /\ Len(row) = Len(w) + 1 /\ row[Len(row)] = Newline
      /\ \A j \in 1..Len(w) : row[j] = w[j]
    BY <1>0, <1>5
<1>7. at[n] = Len(w) /\ at[0] = 0 /\ \A i \in 0..n : at[i] \in Nat
    BY <1>3, <1>4 DEF LaidOut
<1> HIDE DEF row
<1>8. \A i \in 1..n : /\ at[i] = at[i - 1] + Len(g[i]) /\ at[i] <= Len(w)
                      /\ \A j \in 1..Len(g[i]) : w[at[i - 1] + j] = g[i][j]
    BY <1>3, <1>4, Zenon DEF LaidOut
<1>a. Len(w) \in Nat
    BY <1>5
<1>9. ASSUME NEW i \in 1..n
      PROVE  /\ CellStart(at, i) \in Nat /\ at[i] = CellStart(at, i) + Len(parts[i])
             /\ StandsAt(row, CellStart(at, i), parts[i])
             /\ i > 1 => row[at[i - 1] + 1] = Comma
    <2> DEFINE c == parts[i]
               a == at[i - 1]
               b == at[i]
               h == g[i]
    <2>1. c \in Seq(Nat) /\ h = IF i = 1 THEN c ELSE comma \o c
        BY <1>2
    <2>2. a \in Nat /\ b = a + Len(h) /\ b <= Len(w) /\ \A j \in 1..Len(h) : w[a + j] = h[j]
        <3>1. i - 1 \in 0..n
            BY <1>0
        <3> QED BY <1>7, <1>8, <3>1
    <2>3. i = 1 => a = 0
        BY <1>7
    <2>4. CellStart(at, i) = IF i = 1 THEN 0 ELSE a + 1
        BY DEF CellStart
    <2> HIDE DEF c, a, b, h
    <2>5. Len(c) \in Nat
        BY <2>1
    <2>6. CASE i = 1
        <3>1. h = c /\ CellStart(at, i) = 0 /\ a = 0
            BY <2>1, <2>3, <2>4, <2>6
        <3>2. StandsAt(row, 0, c)
            <4>1. 0 + Len(c) <= Len(row)
                BY <1>6, <1>a, <2>2, <2>5, <3>1
            <4>2. ASSUME NEW j \in 1..Len(c) PROVE row[0 + j] = c[j]
                <5>1. j \in 1..Len(w) /\ a + j = j /\ 0 + j = j
                    BY <1>a, <2>2, <2>5, <3>1
                <5> QED BY <1>6, <2>2, <3>1, <5>1
            <4> QED BY <4>1, <4>2 DEF StandsAt
        <3>3. b = 0 + Len(c)
            BY <2>2, <3>1
        <3> QED BY <2>6, <3>1, <3>2, <3>3 DEF c, b
    <2>7. CASE i # 1
        <3>1. h = comma \o c /\ CellStart(at, i) = a + 1
            BY <2>1, <2>4, <2>7
        <3>2. /\ Len(h) = 1 + Len(c) /\ h[1] = Comma /\ \A j \in 1..Len(c) : h[1 + j] = c[j]
            <4>1. /\ Len(comma \o c) = Len(comma) + Len(c)
                  /\ \A j \in 1..Len(comma) : (comma \o c)[j] = comma[j]
                  /\ \A j \in 1..Len(c) : (comma \o c)[Len(comma) + j] = c[j]
                <5>1. comma \in Seq(Nat) /\ c \in Seq(Nat)
                    BY <1>0, <2>1
                <5> QED BY SMTT(30), <5>1, ConcatIs
            <4> QED BY SMTT(30), <1>0, <3>1, <4>1
        <3>3. StandsAt(row, a + 1, c)
            <4>1. (a + 1) + Len(c) <= Len(row)
                BY <1>6, <1>a, <2>2, <2>5, <3>2
            <4>2. ASSUME NEW j \in 1..Len(c) PROVE row[(a + 1) + j] = c[j]
                <5>1. /\ a + (1 + j) \in 1..Len(w) /\ (a + 1) + j = a + (1 + j)
                      /\ 1 + j \in 1..Len(h)
                    <6>1. /\ Len(h) = 1 + Len(c) /\ b = a + Len(h) /\ b <= Len(w) /\ a \in Nat
                          /\ j \in Nat /\ j <= Len(c) /\ j >= 1
                        BY <2>2, <2>5, <3>2
                    <6> QED BY <1>a, <2>5, <6>1
                <5> QED BY <1>6, <2>2, <3>2, <5>1
            <4> QED BY <4>1, <4>2 DEF StandsAt
        <3>4. row[a + 1] = Comma
            <4>1. a + 1 \in 1..Len(w) /\ 1 \in 1..Len(h)
                BY <1>a, <2>2, <2>5, <3>2
            <4> QED BY <1>6, <2>2, <3>2, <4>1
        <3>5. b = (a + 1) + Len(c) /\ a + 1 \in Nat
            BY <2>2, <2>5, <3>2
        <3> QED BY <3>1, <3>3, <3>4, <3>5 DEF a, b, c
    <2> QED BY <2>6, <2>7
<1>10. ASSUME NEW i \in 1..n, i < n PROVE row[at[i] + 1] = Comma /\ at[i] + 1 < Len(row)
    <2> DEFINE k == i + 1
    <2>1. k \in 1..n /\ k > 1 /\ k - 1 = i
        BY <1>0, <1>10
    <2> HIDE DEF k
    <2>2. row[at[k - 1] + 1] = Comma
        BY <1>9, <2>1
    <2>3. at[k] = at[k - 1] + Len(g[k]) /\ at[k] <= Len(w) /\ at[i] \in Nat /\ at[k] \in Nat
        <3>1. k \in 0..n /\ i \in 0..n
            BY <1>0, <2>1
        <3> QED BY <1>7, <1>8, <2>1, <3>1
    <2>4. Len(g[k]) > 0
        <3> DEFINE c == parts[k]
        <3>1. g[k] = comma \o c /\ c \in Seq(Nat)
            <4>1. k # 1
                BY <2>1
            <4> QED BY <1>2, <2>1, <4>1, Zenon
        <3> HIDE DEF c
        <3>2. Len(comma \o c) = Len(comma) + Len(c) /\ Len(c) \in Nat
            <4>1. comma \in Seq(Nat) /\ c \in Seq(Nat)
                BY <1>0, <3>1
            <4> QED BY <4>1
        <3> QED BY <1>0, <3>1, <3>2
    <2>5. Len(g[k]) \in Nat
        BY <1>3, <2>1
    <2> QED BY SMTT(30), <1>6, <1>a, <2>1, <2>2, <2>3, <2>4, <2>5
<1>11. at[n] + 1 = Len(row)
    BY <1>6, <1>7
<1> QED BY <1>1, <1>6, <1>9, <1>10, <1>11 DEF n

\* Every part is a cell, and holds the text of the same number.
CellsOf(parts, texts) == Len(parts) = Len(texts) /\ \A i \in 1..Len(parts) : CellOf(parts[i], texts[i])

(* A row of cells is read as what they hold.                               *)
LEMMA RowRead ==
    ASSUME NEW parts \in Seq(Seq(Nat)), NEW texts \in Seq(Seq(Nat)), Len(parts) > 0, CellsOf(parts, texts)
    PROVE  CsvCells(Append(Separated(parts, <<Comma>>), Newline)) = texts
<1> DEFINE row == Append(Separated(parts, <<Comma>>), Newline)
           n == Len(texts)
           f == RowScan(row)
<1>0. n \in Nat /\ n > 0 /\ Len(parts) = n /\ \A i \in 1..n : CellOf(parts[i], texts[i])
    BY DEF CellsOf
<1>1. PICK at : /\ at[n] + 1 = Len(row) /\ row[Len(row)] = Newline
                /\ \A i \in 1..n :
                      /\ CellStart(at, i) \in Nat
                      /\ at[i] = CellStart(at, i) + Len(parts[i])
                      /\ StandsAt(row, CellStart(at, i), parts[i])
                      /\ i < n => row[at[i] + 1] = Comma /\ at[i] + 1 < Len(row)
    BY <1>0, RowPlaces
<1>2. row \in Seq(Nat)
    BY RowPlaces
<1>3. CsvCells(row) = f[0] /\ \A p \in 0..Len(row) : f[p] = CellsFrom(row, f, p)
    BY <1>2, CellsUnfold
<1> HIDE DEF row, n, f
<1>4. ASSUME NEW i \in 1..n
      PROVE  /\ i = n => f[CellStart(at, i)] = <<texts[i]>>
             /\ i < n => f[CellStart(at, i)] = <<texts[i]>> \o f[CellStart(at, i + 1)]
    <2> DEFINE p == CellStart(at, i)
               c == parts[i]
               u == texts[i]
               e == at[i]
    <2>1. /\ p \in Nat /\ e = p + Len(c) /\ StandsAt(row, p, c) /\ CellOf(c, u)
          /\ i < n => row[e + 1] = Comma /\ e + 1 < Len(row)
          /\ i = n => row[e + 1] = Newline /\ e + 1 = Len(row)
        BY <1>0, <1>1
    <2>2. c \in Seq(Nat)
        BY <1>0
    <2>3. i < n \/ i = n
        BY <1>0
    <2>4. CellStart(at, i + 1) = e + 1
        <3>1. i + 1 # 1 /\ (i + 1) - 1 = i
            BY <1>0
        <3> QED BY <3>1 DEF CellStart
    <2> HIDE DEF p, c, u, e
    <2>5. Len(c) \in Nat /\ Len(row) \in Nat
        BY <1>2, <2>2
    <2>6. row[e + 1] # Quote /\ e < Len(row)
        <3>1. Comma # Quote /\ Newline # Quote
            BY DEF Comma, Newline, Quote
        <3> QED BY <2>1, <2>3, <2>5, <3>1
    <2>7. row[p + 1] = Quote /\ Quoted(row)[p + 1].text = u /\ Quoted(row)[p + 1].end = e
        <3>1. p + Len(c) < Len(row) /\ row[p + Len(c) + 1] # Quote
            BY <2>1, <2>6
        <3>2. row[p + 1] = Quote /\ Quoted(row)[p + 1].text = u /\ Quoted(row)[p + 1].end = p + Len(c)
            BY SMTT(30), <1>2, <2>1, <3>1, CellIsRead
        <3> QED BY <2>1, <3>2
    <2>8. p \in 0..Len(row) /\ p # Len(row)
        BY <2>1, <2>5, <2>6
    <2>9. f[p] = CellsFrom(row, f, p)
        BY <1>3, <2>8
    <2>10. CASE i = n
        <3>1. f[p] = <<u>>
            BY <2>1, <2>7, <2>8, <2>9, <2>10, Zenon DEF CellsFrom
        <3>2. ~(i < n)
            BY <1>0, <2>10
        <3> QED BY <3>1, <3>2 DEF p, u
    <2>11. CASE i < n
        <3>1. e + 1 # Len(row) /\ e + 1 < Len(row) /\ row[e + 1] = Comma
            BY <2>1, <2>5, <2>11
        <3>2. f[p] = <<u>> \o f[e + 1]
            BY <2>7, <2>8, <2>9, <3>1, Zenon DEF CellsFrom
        <3>3. i # n
            BY <1>0, <2>11
        <3> QED BY <2>4, <3>2, <3>3 DEF p, u
    <2> QED BY <2>3, <2>10, <2>11
<1> DEFINE G == {i \in 0..(n - 1) : f[CellStart(at, n - i)] = SubSeq(texts, n - i, n)}
<1>5. 0 \in G
    <2>1. n - 0 = n /\ 0 \in 0..(n - 1) /\ n \in 1..n
        BY <1>0
    <2>2. f[CellStart(at, n)] = <<texts[n]>>
        BY <1>4, <2>1
    <2>3. SubSeq(texts, n, n) = <<texts[n]>>
        <3> DEFINE x == texts[n]
        <3>1. <<x>> \o SubSeq(texts, n + 1, Len(texts)) = SubSeq(texts, n, Len(texts))
            BY <2>1, SuffixStep DEF n
        <3>2. SubSeq(texts, n + 1, Len(texts)) = <<>>
            BY <1>0 DEF n
        <3>3. x \in Seq(Nat)
            BY <2>1 DEF n
        <3> HIDE DEF x
        <3>4. <<x>> \o <<>> = <<x>>
            BY <3>3
        <3> QED BY <3>1, <3>2, <3>4 DEF x, n
    <2> QED BY <2>1, <2>2, <2>3
<1>6. ASSUME NEW i \in 0..(n - 1), i \in G, i < n - 1 PROVE i + 1 \in G
    <2> DEFINE k == n - (i + 1)
    <2>1. k \in 1..n /\ k < n /\ k + 1 = n - i /\ i + 1 \in 0..(n - 1)
        BY <1>0, <1>6
    <2>2. f[CellStart(at, k + 1)] = SubSeq(texts, k + 1, n)
        BY <1>6, <2>1
    <2> HIDE DEF G, k
    <2>3. f[CellStart(at, k)] = <<texts[k]>> \o f[CellStart(at, k + 1)]
        BY <1>4, <2>1
    <2>4. <<texts[k]>> \o SubSeq(texts, k + 1, Len(texts)) = SubSeq(texts, k, Len(texts))
        BY <2>1, SuffixStep DEF n
    <2>5. f[CellStart(at, k)] = SubSeq(texts, k, n)
        BY <2>2, <2>3, <2>4 DEF n
    <2> QED BY <2>1, <2>5 DEF G, k
<1>7. n - 1 \in G
    <2>1. n - 1 \in Nat /\ 0 \in Nat /\ n - 1 \in 0..(n - 1)
        BY <1>0
    <2>2. \A i \in 0..(n - 1) : i \in G /\ i < n - 1 => i + 1 \in G
        BY <1>6
    <2> DEFINE l == n - 1
    <2> HIDE DEF G, l
    <2>3. l \in G
        BY <1>5, <2>1, <2>2, IntervalInduction DEF l
    <2> QED BY <2>3 DEF l
<1>8. n - (n - 1) = 1 /\ CellStart(at, 1) = 0
    BY <1>0 DEF CellStart
<1>9. f[0] = SubSeq(texts, 1, n)
    BY <1>7, <1>8
<1>10. SubSeq(texts, 1, n) = texts
    BY DEF n
<1> QED BY <1>3, <1>9, <1>10 DEF row

----------------------------------------------------------------------------
(* Formulas in cells.                                                      *)

(* What a cell shows of a text: an octet that could begin a formula, or    *)
(* stand in front of one, as itself, and no other octet as such a one.     *)
Hot == FormulaStarts \cup {32}

OctetShown(o, d) ==
    \/ d = <<o>>
    \/ Len(d) > 0 /\ o \notin Hot /\ d[1] \notin Hot \cup {Apostrophe}

TextShown(t, m) == Len(m) = Len(t) /\ \A k \in 1..Len(t) : OctetShown(t[k], m[k])

\* Pieces of one octet stand where the octets stand.
LEMMA LeadingOctets ==
    ASSUME NEW t \in Seq(Nat), NEW m \in Seq(Seq(Nat)), Len(m) = Len(t), NEW n \in 0..Len(t),
           \A k \in 1..n : m[k] = <<t[k]>>
    PROVE  n <= Len(FlattenSeq(m)) /\ \A j \in 1..n : FlattenSeq(m)[j] = t[j]
<1> DEFINE w == FlattenSeq(m)
<1>0. Len(t) \in Nat /\ n \in Nat /\ w \in Seq(Nat)
    BY FlattenIs
<1>1. PICK at : LaidOut(m, w, at)
    BY FlattenIs, Zenon
<1> HIDE DEF w
<1> DEFINE S == {k \in 0..n : at[k] = k}
<1>2. 0 \in S
    BY <1>0, <1>1 DEF LaidOut
<1>3. \A k \in 0..n : k \in S /\ k < n => k + 1 \in S
    <2> SUFFICES ASSUME NEW k \in 0..n, k \in S, k < n PROVE k + 1 \in S
        OBVIOUS
    <2>1. k \in 0..(Len(m) - 1) /\ k + 1 \in 1..n /\ at[k] = k /\ k + 1 \in 0..n
        BY <1>0
    <2>2. at[k + 1] = at[k] + Len(m[k + 1])
        <3> HIDE DEF S
        <3> QED BY <1>1, <2>1, PlacedAt
    <2>3. Len(m[k + 1]) = 1
        <3>1. m[k + 1] = <<t[k + 1]>>
            BY <2>1
        <3> QED BY <3>1
    <2> QED BY <2>1, <2>2, <2>3
<1>4. \A k \in 0..n : at[k] = k
    <2>1. 0 \in Nat
        OBVIOUS
    <2> HIDE DEF S
    <2>2. \A k \in 0..n : k \in S
        BY <1>0, <1>2, <1>3, <2>1, IntervalInduction
    <2> QED BY <2>2 DEF S
<1>5. ASSUME NEW j \in 1..n PROVE w[j] = t[j] /\ j <= Len(w)
    <2> DEFINE k == j - 1
    <2>1. k \in 0..(Len(m) - 1) /\ k \in 0..n /\ j \in 0..n /\ k + 1 = j
        BY <1>0
    <2> HIDE DEF k
    <2>2. StandsAt(w, at[k], m[k + 1])
        BY <1>1, <2>1, PlacedAt
    <2>3. at[k] = k /\ m[j] = <<t[j]>>
        BY <1>4, <2>1
    <2>4. Len(m[j]) = 1 /\ m[j][1] = t[j]
        BY <2>3
    <2>5. k + Len(m[j]) <= Len(w) /\ \A i \in 1..Len(m[j]) : w[k + i] = m[j][i]
        BY <2>1, <2>2, <2>3 DEF StandsAt
    <2> QED BY SMTT(30), <2>1, <2>4, <2>5
<1>6. n <= Len(w)
    <2>1. CASE n = 0
        BY <1>0, <2>1
    <2>2. CASE n # 0
        <3>1. n \in 1..n
            BY <1>0, <2>2
        <3> QED BY <1>5, <3>1
    <2> QED BY <2>1, <2>2
<1> QED BY <1>5, <1>6 DEF w

(* A formula in the text is one in what is shown of it.                    *)
LEMMA FormulaStays ==
    ASSUME NEW t \in Seq(Nat), NEW m \in Seq(Seq(Nat)), TextShown(t, m),
           csv_text_needs_formula_prefix(t)
    PROVE  csv_text_needs_formula_prefix(FlattenSeq(m))
<1> DEFINE w == FlattenSeq(m)
<1>0. /\ Len(m) = Len(t) /\ Len(t) \in Nat
      /\ \A k \in 1..Len(t) : OctetShown(t[k], m[k])
    BY DEF TextShown
<1>1. PICK i \in 1..Len(t) : t[i] \in FormulaStarts /\ \A j \in 1..(i - 1) : t[j] = 32
    BY Zenon DEF csv_text_needs_formula_prefix
<1>2. \A k \in 1..i : m[k] = <<t[k]>>
    <2> SUFFICES ASSUME NEW k \in 1..i PROVE m[k] = <<t[k]>>
        OBVIOUS
    <2>1. k \in 1..Len(t) /\ (k = i \/ k \in 1..(i - 1))
        BY <1>0
    <2>2. t[k] \in Hot
        BY <1>1, <2>1 DEF Hot
    <2>3. OctetShown(t[k], m[k])
        BY <1>0, <2>1
    <2> QED BY <2>2, <2>3, Zenon DEF OctetShown
<1>3. i \in 0..Len(t)
    BY <1>0
<1>4. i <= Len(w) /\ \A j \in 1..i : w[j] = t[j]
    BY <1>0, <1>2, <1>3, LeadingOctets
<1>5. w \in Seq(Nat)
    BY FlattenIs, Zenon
<1> HIDE DEF w
<1>6. i \in 1..Len(w) /\ i \in 1..i /\ \A j \in 1..(i - 1) : j \in 1..i
    BY <1>4, <1>5
<1>7. w[i] \in FormulaStarts /\ \A j \in 1..(i - 1) : w[j] = 32
    BY <1>1, <1>4, <1>6
<1>8. csv_text_needs_formula_prefix(w)
    BY <1>6, <1>7, Zenon DEF csv_text_needs_formula_prefix
<1> QED BY <1>8 DEF w

(* And there is no other.                                                  *)
LEMMA FormulaWasThere ==
    ASSUME NEW t \in Seq(Nat), NEW m \in Seq(Seq(Nat)), TextShown(t, m),
           csv_text_needs_formula_prefix(FlattenSeq(m))
    PROVE  csv_text_needs_formula_prefix(t)
<1> DEFINE w == FlattenSeq(m)
<1>0. /\ Len(m) = Len(t) /\ Len(t) \in Nat /\ w \in Seq(Nat)
      /\ \A k \in 1..Len(t) : OctetShown(t[k], m[k])
    BY FlattenIs DEF TextShown
<1>1. PICK at : LaidOut(m, w, at)
    BY FlattenIs, Zenon
<1>2. PICK i \in 1..Len(w) : w[i] \in FormulaStarts /\ \A j \in 1..(i - 1) : w[j] = 32
    BY Zenon DEF csv_text_needs_formula_prefix
<1> HIDE DEF w
<1>3. i \in Nat /\ i >= 1 /\ i <= Len(w) /\ Len(w) \in Nat /\ i - 1 \in Nat
    BY <1>0
<1>4. at[Len(t)] = Len(w) /\ at[0] = 0
    BY <1>0, <1>1 DEF LaidOut
<1>5. ASSUME NEW k \in 0..(i - 1), k <= Len(t), at[k] = k
      PROVE  /\ k + 1 \in 1..Len(t) /\ at[k + 1] = k + 1 /\ t[k + 1] = w[k + 1]
    <2>1. k # Len(t) /\ k \in Nat
        BY <1>3, <1>4, <1>5
    <2>2. k \in 0..(Len(m) - 1) /\ k + 1 \in 1..Len(t)
        BY <1>0, <1>5, <2>1
    <2> DEFINE d == m[k + 1]
               o == t[k + 1]
    <2>3. at[k + 1] = k + Len(d) /\ StandsAt(w, k, d)
        BY <1>1, <1>5, <2>2, PlacedAt
    <2>4. OctetShown(o, d) /\ d \in Seq(Nat)
        <3>1. k + 1 \in 1..Len(m)
            BY <1>0, <2>2
        <3> QED BY <1>0, <2>2, <3>1
    <2>5. w[k + 1] \in Hot
        <3>1. k + 1 = i \/ k + 1 \in 1..(i - 1)
            BY <1>3, <2>1
        <3> QED BY <1>2, <3>1 DEF Hot
    <2> HIDE DEF d, o
    <2>6. Len(d) > 0 => w[k + 1] = d[1]
        BY <2>3, <2>4 DEF StandsAt
    <2>7. d = <<o>>
        BY <2>4, <2>5, <2>6, Zenon DEF OctetShown
    <2>8. Len(d) = 1 /\ d[1] = o
        BY <2>7
    <2>9. at[k + 1] = k + 1 /\ o = w[k + 1]
        BY <2>1, <2>3, <2>6, <2>8
    <2> QED BY <2>2, <2>9 DEF o
<1> DEFINE S == {k \in 0..(i - 1) : k <= Len(t) /\ at[k] = k}
<1>6. 0 \in S
    BY <1>0, <1>3, <1>4
<1>7. \A k \in 0..(i - 1) : k \in S /\ k < i - 1 => k + 1 \in S
    BY SMTT(30), <1>0, <1>3, <1>5
<1>8. \A k \in 0..(i - 1) : k \in S
    <2>1. 0 \in Nat
        OBVIOUS
    <2> DEFINE b == i - 1
    <2> HIDE DEF S
    <2>2. b \in Nat /\ \A k \in 0..b : k \in S /\ k < b => k + 1 \in S
        BY <1>3, <1>7
    <2> HIDE DEF b
    <2>3. \A k \in 0..b : k \in S
        BY <1>6, <2>1, <2>2, IntervalInduction
    <2> QED BY <2>3 DEF b
<1>9. \A j \in 1..i : j \in 1..Len(t) /\ t[j] = w[j]
    <2> SUFFICES ASSUME NEW j \in 1..i PROVE j \in 1..Len(t) /\ t[j] = w[j]
        OBVIOUS
    <2> DEFINE k == j - 1
    <2>1. k \in 0..(i - 1) /\ k + 1 = j
        BY <1>3
    <2>2. k <= Len(t) /\ at[k] = k
        BY <1>8, <2>1
    <2> HIDE DEF k
    <2> QED BY <1>5, <2>1, <2>2
<1>10. i \in 1..Len(t) /\ t[i] = w[i] /\ \A j \in 1..(i - 1) : t[j] = w[j]
    BY <1>3, <1>9
<1> QED BY <1>2, <1>10, ZenonT(40) DEF csv_text_needs_formula_prefix

\* What a spreadsheet takes from a cell: an apostrophe in front of a formula is no part of it.
CellContent(c) ==
    IF IsPrefix(<<Apostrophe>>, c) /\ csv_text_needs_formula_prefix(Tail(c)) THEN Tail(c) ELSE c

(* An apostrophe in front.                                                 *)
LEMMA ApostropheIs ==
    ASSUME NEW c \in Seq(Nat)
    PROVE  IsPrefix(<<Apostrophe>>, c) <=> Len(c) > 0 /\ c[1] = Apostrophe
<1> DEFINE a == <<Apostrophe>>
<1>1. a \in Seq(Int) /\ Len(a) = 1 /\ a[1] = Apostrophe
    BY DEF Apostrophe
<1>2. c \in Seq(Int) /\ Len(c) \in Nat
    <2>1. Nat \subseteq Int
        OBVIOUS
    <2> QED BY <2>1, SeqMonotonic
<1> HIDE DEF a
<1>3. IsPrefix(a, c) <=> Extends(c, a)
    BY <1>1, <1>2, PrefixIs
<1>4. Extends(c, a) <=> Len(c) > 0 /\ c[1] = Apostrophe
    BY <1>1, <1>2 DEF Extends
<1> QED BY <1>3, <1>4 DEF a

(* No cell starts a formula, and what is behind an apostrophe that the     *)
(* logger added, or the cell as it is, is what is shown of the text.       *)
LEMMA CellShows ==
    ASSUME NEW t \in Seq(Nat), NEW m \in Seq(Seq(Printable)), TextShown(t, m)
    PROVE  LET c == Prefix(t) \o FlattenSeq(m)
           IN  /\ c \in Seq(Printable) /\ ~csv_text_needs_formula_prefix(c)
               /\ ~IsPrefix(<<Apostrophe>>, t) => CellContent(c) = FlattenSeq(m)
<1> DEFINE w == FlattenSeq(m)
           a == Prefix(t)
           c == a \o w
           q == <<Apostrophe>>
<1>1. w \in Seq(Printable) /\ m \in Seq(Seq(Nat)) /\ Printable \subseteq Nat
    <2>1. Printable \subseteq Nat
        BY DEF Printable
    <2>2. Seq(Printable) \subseteq Seq(Nat)
        BY <2>1, SeqMonotonic, Zenon
    <2>3. m \in Seq(Seq(Nat))
        BY <2>2, SeqMonotonic, Zenon
    <2> QED BY <2>1, <2>3, FlattenIs, Zenon
<1>2. /\ csv_text_needs_formula_prefix(t) => csv_text_needs_formula_prefix(w)
      /\ csv_text_needs_formula_prefix(w) => csv_text_needs_formula_prefix(t)
    BY <1>1, FormulaStays, FormulaWasThere
<1>3. /\ Len(m) = Len(t) /\ Len(t) \in Nat
      /\ \A k \in 1..Len(t) : OctetShown(t[k], m[k])
    BY DEF TextShown
<1>4. Len(w) > 0 /\ w[1] = Apostrophe => Len(t) > 0 /\ t[1] = Apostrophe
    <2> SUFFICES ASSUME Len(w) > 0, w[1] = Apostrophe PROVE Len(t) > 0 /\ t[1] = Apostrophe
        OBVIOUS
    <2>1. PICK at : LaidOut(m, w, at)
        BY <1>1, FlattenIs, Zenon
    <2>2. Len(t) > 0
        <3>1. Len(m) = 0 => Len(w) = 0
            BY <2>1 DEF LaidOut
        <3> QED BY <1>3, <3>1
    <2> DEFINE d == m[0 + 1]
    <2>3. at[0] = 0 /\ 0 \in 0..(Len(m) - 1) /\ 1 \in 1..Len(t) /\ 0 + 1 = 1
        BY <1>3, <2>1, <2>2 DEF LaidOut
    <2> HIDE DEF w
    <2>4. StandsAt(w, 0, d)
        BY <1>1, <2>1, <2>3, PlacedAt
    <2>5. OctetShown(t[1], d) /\ d \in Seq(Nat)
        BY <1>1, <1>3, <2>3
    <2> HIDE DEF d
    <2>6. Len(d) > 0 => d[1] = Apostrophe
        <3> SUFFICES ASSUME Len(d) > 0 PROVE d[1] = Apostrophe
            OBVIOUS
        <3>1. 1 \in 1..Len(d) /\ 0 + 1 = 1
            BY <2>5
        <3>2. w[0 + 1] = d[1]
            BY <2>4, <3>1, Zenon DEF StandsAt
        <3> QED BY <3>1, <3>2
    <2>7. d = <<t[1]>>
        BY <2>5, <2>6, Zenon DEF OctetShown
    <2>8. d[1] = t[1] /\ Len(d) = 1
        BY <2>7
    <2> QED BY <2>2, <2>6, <2>8
<1> HIDE DEF w
<1>5. w \in Seq(Nat)
    BY <1>1, SeqMonotonic
<1>6. CASE csv_text_needs_formula_prefix(t)
    <2>1. a = q
        BY <1>6, Zenon DEF Prefix
    <2>2. q \in Seq(Printable) /\ Len(q) = 1 /\ q[1] = Apostrophe
        BY DEF Apostrophe, Printable
    <2> HIDE DEF q
    <2>3. c \in Seq(Printable) /\ c[1] = Apostrophe /\ Len(c) = 1 + Len(w)
        <3>1. /\ q \o w \in Seq(Printable) /\ Len(q \o w) = Len(q) + Len(w)
              /\ \A j \in 1..Len(q) : (q \o w)[j] = q[j]
            BY ZenonT(40), <1>1, <2>2, ConcatIs
        <3> QED BY <2>1, <2>2, <3>1
    <2>4. Tail(c) = w
        <3>1. Tail(q \o w) = w
            <4>1. w = <<>> \o w /\ Tail(q) = <<>>
                BY <1>1 DEF q
            <4> QED BY <1>1, <2>2, <4>1 DEF q
        <3> QED BY <2>1, <3>1
    <2> HIDE DEF c, a
    <2>5. c \in Seq(Nat) /\ Len(c) \in Nat /\ Len(w) \in Nat
        <3>1. Seq(Printable) \subseteq Seq(Nat)
            BY <1>1, SeqMonotonic
        <3> QED BY <1>1, <2>3, <3>1
    <2>6. ~csv_text_needs_formula_prefix(c)
        <3> SUFFICES ASSUME NEW i \in 1..Len(c), c[i] \in FormulaStarts, \A j \in 1..(i - 1) : c[j] = 32
                     PROVE  FALSE
            BY Zenon DEF csv_text_needs_formula_prefix
        <3>1. Apostrophe \notin FormulaStarts /\ Apostrophe # 32
            BY DEF Apostrophe, FormulaStarts
        <3>2. CASE i = 1
            BY <2>3, <3>1, <3>2
        <3>3. CASE i # 1
            <4>1. 1 \in 1..(i - 1)
                BY <2>5, <3>3
            <4> QED BY <2>3, <3>1, <4>1
        <3> QED BY <3>2, <3>3
    <2>7. CellContent(c) = w
        <3>1. IsPrefix(<<Apostrophe>>, c)
            <4>1. Len(c) > 0 /\ c[1] = Apostrophe
                BY <2>3, <2>5
            <4> QED BY <2>5, <4>1, ApostropheIs
        <3>2. csv_text_needs_formula_prefix(Tail(c))
            BY <1>2, <1>6, <2>4
        <3> QED BY <2>4, <3>1, <3>2 DEF CellContent
    <2> QED BY <2>3, <2>6, <2>7 DEF c, a, w
<1>7. CASE ~csv_text_needs_formula_prefix(t)
    <2>1. a = <<>>
        BY <1>7, Zenon DEF Prefix
    <2>2. c = w
        BY <1>1, <2>1
    <2>3. ~csv_text_needs_formula_prefix(c)
        BY <1>2, <1>7, <2>2
    <2>4. ~IsPrefix(<<Apostrophe>>, t) => CellContent(c) = w
        <3> SUFFICES ASSUME ~IsPrefix(<<Apostrophe>>, t) PROVE CellContent(c) = w
            OBVIOUS
        <3>1. ~IsPrefix(<<Apostrophe>>, w)
            BY <1>4, <1>5, ApostropheIs
        <3> QED BY <2>2, <3>1 DEF CellContent
    <2> QED BY <1>1, <2>2, <2>3, <2>4 DEF w
<1> QED BY <1>6, <1>7

----------------------------------------------------------------------------
(* The cells that csv_logger.c writes.                                     *)

\* What is shown of an octet in a text column and in the payload column.
CsvShown(o) == IF o \in Printable THEN <<o>> ELSE EscapedOctet(o)

DotShown(o) == IF o \in Printable THEN <<o>> ELSE <<46>>

(* Each octet of a text column is written as a piece of a cell, printable  *)
(* and no start of a formula unless it is one itself.                      *)
LEMMA CsvPiece ==
    ASSUME NEW o \in ByteValues
    PROVE  /\ CsvOctet(o) \in Seq(Nat) /\ CsvShown(o) \in Seq(Printable)
           /\ CellPiece(CsvShown(o), CsvOctet(o)) /\ OctetShown(o, CsvShown(o))
           /\ o # Backslash => Escape(o, CsvShown(o))
<1>0. Quote \in Printable /\ Backslash \in Printable /\ 120 \in Printable /\ o \in Nat /\ Quote \in Nat
    BY DEF Backslash, Quote, Printable, ByteValues
<1>1. CASE o = Quote
    <2>1. CsvOctet(o) = <<Quote, Quote>> /\ CsvShown(o) = <<o>>
        BY <1>0, <1>1 DEF CsvOctet, CsvShown
    <2>2. <<Quote, Quote>> \in Seq(Nat) /\ <<o>> \in Seq(Printable)
        BY <1>0, <1>1
    <2>3. CellPiece(CsvShown(o), CsvOctet(o)) /\ OctetShown(o, CsvShown(o))
        BY <1>1, <2>1, Zenon DEF CellPiece, OctetShown
    <2>4. o # Backslash => Escape(o, CsvShown(o))
        BY <1>0, <2>1, Zenon DEF Escape
    <2> QED BY <2>1, <2>2, <2>3, <2>4
<1>2. CASE o # Quote /\ o \in Printable
    <2>1. CsvOctet(o) = <<o>> /\ CsvShown(o) = <<o>>
        BY <1>2 DEF CsvOctet, CsvShown
    <2> DEFINE d == <<o>>
    <2>2. d \in Seq(Nat) /\ d \in Seq(Printable) /\ \A j \in 1..Len(d) : d[j] # Quote
        BY <1>0, <1>2
    <2> HIDE DEF d
    <2>3. CellPiece(d, d) /\ OctetShown(o, d)
        BY <2>2, Zenon DEF CellPiece, OctetShown, d
    <2>4. o # Backslash => Escape(o, d)
        BY <1>0, Zenon DEF Escape, d
    <2> QED BY <2>1, <2>2, <2>3, <2>4 DEF d
<1>3. CASE o # Quote /\ o \notin Printable
    <2> DEFINE a == <<Backslash, 120>>
               h == Hex(o)
               d == a \o h
    <2>1. CsvOctet(o) = d /\ CsvShown(o) = d
        BY <1>3, ZenonT(40) DEF CsvOctet, CsvShown, EscapedOctet
    <2>2. PICK x \in (48..57) \cup (97..102), y \in (48..57) \cup (97..102) : h = <<x, y>>
        BY ZenonT(40), HexIs DEF ByteValues
    <2>3. h \in Seq(Printable) /\ a \in Seq(Printable) /\ Len(a) = 2 /\ a[1] = Backslash /\ a[2] = 120
        BY <1>0, HexPrintable
    <2>4. Len(h) = 2 /\ h[1] = x /\ h[2] = y
        BY <2>2
    <2> HIDE DEF a, h
    <2>5. /\ d \in Seq(Printable) /\ Len(d) = 4 /\ d[1] = Backslash /\ d[2] = 120 /\ d[3] = x /\ d[4] = y
        <3>1. /\ d \in Seq(Printable) /\ Len(d) = Len(a) + Len(h)
              /\ \A j \in 1..Len(a) : d[j] = a[j]
              /\ \A j \in 1..Len(h) : d[Len(a) + j] = h[j]
            <4>1. a \in Seq(Printable) /\ h \in Seq(Printable)
                BY <2>3
            <4> HIDE DEF a, h
            <4> QED BY <4>1, ConcatIs
        <3>2. 1 \in 1..Len(a) /\ 2 \in 1..Len(a) /\ 1 \in 1..Len(h) /\ 2 \in 1..Len(h)
            BY <2>3, <2>4
        <3>3. d[1] = a[1] /\ d[2] = a[2] /\ d[Len(a) + 1] = h[1] /\ d[Len(a) + 2] = h[2]
            BY <3>1, <3>2, Zenon
        <3>4. Len(a) + 1 = 3 /\ Len(a) + 2 = 4 /\ Len(a) + Len(h) = 4
            BY <2>3, <2>4
        <3> HIDE DEF d
        <3> QED BY <2>3, <2>4, <3>1, <3>3, <3>4
    <2>6. Escape(o, d)
        BY Zenon DEF Escape, ByteValues, a, h
    <2> HIDE DEF d
    <2>7. \A j \in 1..Len(d) : d[j] # Quote
        <3>1. x # Quote /\ y # Quote /\ 120 # Quote /\ Backslash # Quote
            BY DEF Quote, Backslash
        <3>2. \A j \in 1..Len(d) : j = 1 \/ j = 2 \/ j = 3 \/ j = 4
            BY <2>5
        <3> QED BY <2>5, <3>1, <3>2
    <2>8. OctetShown(o, d)
        <3>1. Backslash \notin Hot \cup {Apostrophe}
            BY DEF Backslash, Hot, FormulaStarts, Apostrophe
        <3>2. o \notin Hot
            BY <1>3 DEF Hot, FormulaStarts, Printable
        <3>3. Len(d) > 0
            BY <2>5
        <3> QED BY <2>5, <3>1, <3>2, <3>3 DEF OctetShown
    <2>9. CellPiece(d, d)
        BY <2>7, Zenon DEF CellPiece
    <2>10. d \in Seq(Nat)
        <3>1. Printable \subseteq Nat
            BY DEF Printable
        <3> QED BY <2>5, <3>1, SeqMonotonic
    <2> QED BY <2>1, <2>5, <2>6, <2>8, <2>9, <2>10
<1> QED BY <1>1, <1>2, <1>3

(* And so is each octet of the payload column.                             *)
LEMMA DotPiece ==
    ASSUME NEW o \in ByteValues
    PROVE  /\ PayloadOctet(o) \in Seq(Nat) /\ DotShown(o) \in Seq(Printable)
           /\ CellPiece(DotShown(o), PayloadOctet(o)) /\ OctetShown(o, DotShown(o))
<1>0. Quote \in Printable /\ 46 \in Printable /\ o \in Nat /\ Quote \in Nat /\ 46 # Quote
    BY DEF Quote, Printable, ByteValues
<1>1. CASE o = Quote
    <2>1. PayloadOctet(o) = <<Quote, Quote>> /\ DotShown(o) = <<o>>
        BY <1>0, <1>1 DEF PayloadOctet, DotShown
    <2>2. <<Quote, Quote>> \in Seq(Nat) /\ <<o>> \in Seq(Printable)
        BY <1>0, <1>1
    <2>3. CellPiece(DotShown(o), PayloadOctet(o)) /\ OctetShown(o, DotShown(o))
        BY <1>1, <2>1, Zenon DEF CellPiece, OctetShown
    <2> QED BY <2>1, <2>2, <2>3
<1>2. CASE o # Quote /\ o \in Printable
    <2>1. PayloadOctet(o) = <<o>> /\ DotShown(o) = <<o>>
        BY <1>2 DEF PayloadOctet, DotShown
    <2> DEFINE d == <<o>>
    <2>2. d \in Seq(Nat) /\ d \in Seq(Printable) /\ \A j \in 1..Len(d) : d[j] # Quote
        BY <1>0, <1>2
    <2> HIDE DEF d
    <2>3. CellPiece(d, d) /\ OctetShown(o, d)
        BY <2>2, Zenon DEF CellPiece, OctetShown, d
    <2> QED BY <2>1, <2>2, <2>3 DEF d
<1>3. CASE o # Quote /\ o \notin Printable
    <2>1. PayloadOctet(o) = <<46>> /\ DotShown(o) = <<46>>
        BY <1>3 DEF PayloadOctet, DotShown
    <2> DEFINE d == <<46>>
    <2>2. d \in Seq(Nat) /\ d \in Seq(Printable) /\ Len(d) > 0 /\ d[1] = 46 /\ \A j \in 1..Len(d) : d[j] # Quote
        BY <1>0
    <2>3. o \notin Hot /\ 46 \notin Hot \cup {Apostrophe}
        BY <1>3 DEF Hot, FormulaStarts, Printable, Apostrophe
    <2> HIDE DEF d
    <2>4. CellPiece(d, d) /\ OctetShown(o, d)
        BY <2>2, <2>3, Zenon DEF CellPiece, OctetShown
    <2> QED BY <2>1, <2>2, <2>4 DEF d
<1> QED BY <1>1, <1>2, <1>3

\* A cell that no reader takes for a formula, or for anything but text.
HarmlessText(u) == u \in Seq(Printable) /\ ~csv_text_needs_formula_prefix(u)

(* Text of one piece for each octet is a cell that holds what is shown.    *)
LEMMA ShownCell ==
    ASSUME NEW t \in Seq(Nat), NEW s \in Seq(Seq(Nat)), NEW m \in Seq(Seq(Printable)),
           TextShown(t, m), Len(s) = Len(m), \A k \in 1..Len(s) : CellPiece(m[k], s[k])
    PROVE  LET c == <<Quote>> \o Prefix(t) \o FlattenSeq(s) \o <<Quote>>
               u == Prefix(t) \o FlattenSeq(m)
           IN  /\ c \in Seq(Nat) /\ CellOf(c, u) /\ HarmlessText(u)
               /\ ~IsPrefix(<<Apostrophe>>, t) => CellContent(u) = FlattenSeq(m)
<1> DEFINE a == Prefix(t)
           u == a \o FlattenSeq(m)
           q == <<Quote>>
           w == FlattenSeq(s)
<1>1. a \in Seq(Nat) /\ \A j \in 1..Len(a) : a[j] # Quote
    <2>1. a = <<>> \/ a = <<Apostrophe>>
        BY DEF Prefix
    <2>2. CASE a = <<>>
        <3>1. <<>> \in Seq(Nat) /\ \A j \in 1..Len(<<>>) : <<>>[j] # Quote
            BY EmptySeq
        <3> QED BY <2>2, <3>1
    <2>3. CASE a = <<Apostrophe>>
        <3> HIDE DEF a
        <3> QED BY <2>3 DEF Apostrophe, Quote
    <2> QED BY <2>1, <2>2, <2>3
<1>2. m \in Seq(Seq(Nat))
    <2>1. Printable \subseteq Nat
        BY DEF Printable
    <2>2. Seq(Printable) \subseteq Seq(Nat)
        BY <2>1, SeqMonotonic, Zenon
    <2> QED BY <2>2, SeqMonotonic, Zenon
<1>3. /\ u \in Seq(Printable) /\ ~csv_text_needs_formula_prefix(u)
      /\ ~IsPrefix(<<Apostrophe>>, t) => CellContent(u) = FlattenSeq(m)
    BY CellShows
<1>4. CellOf(CellText(a, s), u)
    <2> HIDE DEF a
    <2>1. Written(a, s, m)
        BY <1>1, Zenon DEF Written
    <2> QED BY <1>1, <1>2, <2>1, Zenon DEF CellOf
<1>5. CellText(a, s) \in Seq(Nat) /\ CellText(a, s) = q \o a \o w \o q
    <2>1. w \in Seq(Nat)
        BY FlattenIs, Zenon
    <2>2. q \in Seq(Nat)
        BY DEF Quote
    <2>3. CellText(a, s) = q \o a \o w \o q
        BY Zenon DEF CellText
    <2> HIDE DEF a, w, q
    <2>4. q \o a \in Seq(Nat)
        BY <1>1, <2>2
    <2> DEFINE v == q \o a
    <2> HIDE DEF v
    <2>5. v \o w \in Seq(Nat)
        BY <2>1, <2>4 DEF v
    <2> DEFINE x == v \o w
    <2> HIDE DEF x
    <2>6. x \o q \in Seq(Nat)
        BY <2>2, <2>5 DEF x
    <2> QED BY <2>3, <2>6 DEF v, x
<1> QED BY <1>3, <1>4, <1>5 DEF HarmlessText

\* What the cells of the two text columns hold.
TextHeld(t) == Prefix(t) \o FlattenSeq([i \in 1..Len(t) |-> CsvShown(t[i])])

PayloadHeld(t) == Prefix(t) \o FlattenSeq([i \in 1..Len(t) |-> DotShown(t[i])])

(* A text column: harmless, and without backslashes and leading            *)
(* apostrophes it gives back its text.                                     *)
LEMMA TextCell ==
    ASSUME NEW t \in Seq(ByteValues)
    PROVE  /\ write_csv_text(t) \in Seq(Nat) /\ CellOf(write_csv_text(t), TextHeld(t))
           /\ HarmlessText(TextHeld(t))
           /\ (Backslash \notin ToSet(t) /\ ~IsPrefix(<<Apostrophe>>, t))
                 => Unescaped(CellContent(TextHeld(t))) = t
<1> DEFINE f == [o \in ByteValues |-> CsvOctet(o)]
           g == [o \in ByteValues |-> CsvShown(o)]
           s == [i \in 1..Len(t) |-> f[t[i]]]
           m == [i \in 1..Len(t) |-> g[t[i]]]
<1>0. \A o \in ByteValues : /\ f[o] \in Seq(Nat) /\ f[o] = CsvOctet(o)
                            /\ g[o] \in Seq(Printable) /\ g[o] = CsvShown(o)
    BY CsvPiece
<1> HIDE DEF f, g
<1>1. /\ s \in Seq(Seq(Nat)) /\ Len(s) = Len(t)
      /\ \A i \in 1..Len(t) : s[i] = f[t[i]] /\ t[i] \in ByteValues
    BY <1>0, PiecesAre
<1>2. /\ m \in Seq(Seq(Printable)) /\ Len(m) = Len(t)
      /\ \A i \in 1..Len(t) : m[i] = g[t[i]] /\ t[i] \in ByteValues
    BY <1>0, PiecesAre
<1>3. write_csv_text(t) = <<Quote>> \o Prefix(t) \o FlattenSeq(s) \o <<Quote>>
    <2>1. \A i \in 1..Len(t) : f[t[i]] = CsvOctet(t[i])
        BY <1>0, <1>1
    <2>2. s = [i \in 1..Len(t) |-> CsvOctet(t[i])]
        BY <2>1, Zenon
    <2> HIDE DEF s
    <2> QED BY <2>2, Zenon DEF write_csv_text
<1>4. TextHeld(t) = Prefix(t) \o FlattenSeq(m)
    <2>1. \A i \in 1..Len(t) : g[t[i]] = CsvShown(t[i])
        BY <1>0, <1>1
    <2>2. m = [i \in 1..Len(t) |-> CsvShown(t[i])]
        BY <2>1, Zenon
    <2> HIDE DEF m
    <2> QED BY <2>2, Zenon DEF TextHeld
<1> HIDE DEF s, m
<1>5. TextShown(t, m) /\ \A k \in 1..Len(s) : CellPiece(m[k], s[k])
    <2>1. \A k \in 1..Len(t) : OctetShown(t[k], m[k]) /\ CellPiece(m[k], s[k])
        BY <1>0, <1>1, <1>2, CsvPiece
    <2> QED BY <1>1, <1>2, <2>1 DEF TextShown
<1>6. t \in Seq(Nat) /\ Len(s) = Len(m)
    BY <1>1, <1>2, TextIsNat
<1>7. LET c == <<Quote>> \o Prefix(t) \o FlattenSeq(s) \o <<Quote>>
          u == Prefix(t) \o FlattenSeq(m)
      IN  /\ c \in Seq(Nat) /\ CellOf(c, u) /\ HarmlessText(u)
          /\ ~IsPrefix(<<Apostrophe>>, t) => CellContent(u) = FlattenSeq(m)
    BY <1>1, <1>2, <1>5, <1>6, ShownCell, Zenon
<1>8. ASSUME Backslash \notin ToSet(t) PROVE Unescaped(FlattenSeq(m)) = t
    <2>1. \A k \in 1..Len(t) : t[k] # Backslash
        <3>1. DOMAIN t = 1..Len(t)
            OBVIOUS
        <3> QED BY <1>8, <3>1 DEF ToSet
    <2>2. \A k \in 1..Len(t) : Escape(t[k], m[k])
        <3> SUFFICES ASSUME NEW k \in 1..Len(t) PROVE Escape(t[k], m[k])
            OBVIOUS
        <3>1. t[k] \in ByteValues /\ t[k] # Backslash /\ m[k] = CsvShown(t[k])
            BY <1>0, <1>2, <2>1
        <3> QED BY <3>1, CsvPiece, Zenon
    <2>3. t \in Seq(Int) /\ m \in Seq(Seq(Nat))
        <3>1. ByteValues \subseteq Int /\ Printable \subseteq Nat
            BY DEF ByteValues, Printable
        <3>2. Seq(Printable) \subseteq Seq(Nat) /\ t \in Seq(Int)
            BY <3>1, SeqMonotonic, Zenon
        <3> QED BY <1>2, <3>2, SeqMonotonic, Zenon
    <2> QED BY <1>2, <2>2, <2>3, UnescapedIs
<1>9. ASSUME Backslash \notin ToSet(t), ~IsPrefix(<<Apostrophe>>, t)
      PROVE  Unescaped(CellContent(TextHeld(t))) = t
    BY <1>4, <1>7, <1>8, <1>9, Zenon
<1> QED BY <1>3, <1>4, <1>7, <1>9, Zenon

(* The payload column is harmless.                                         *)
LEMMA PayloadCell ==
    ASSUME NEW t \in Seq(ByteValues)
    PROVE  /\ write_payload_ascii(t) \in Seq(Nat) /\ CellOf(write_payload_ascii(t), PayloadHeld(t))
           /\ HarmlessText(PayloadHeld(t))
<1> DEFINE f == [o \in ByteValues |-> PayloadOctet(o)]
           g == [o \in ByteValues |-> DotShown(o)]
           s == [i \in 1..Len(t) |-> f[t[i]]]
           m == [i \in 1..Len(t) |-> g[t[i]]]
<1>0. \A o \in ByteValues : /\ f[o] \in Seq(Nat) /\ f[o] = PayloadOctet(o)
                            /\ g[o] \in Seq(Printable) /\ g[o] = DotShown(o)
    BY DotPiece
<1> HIDE DEF f, g
<1>1. /\ s \in Seq(Seq(Nat)) /\ Len(s) = Len(t)
      /\ \A i \in 1..Len(t) : s[i] = f[t[i]] /\ t[i] \in ByteValues
    BY <1>0, PiecesAre
<1>2. /\ m \in Seq(Seq(Printable)) /\ Len(m) = Len(t)
      /\ \A i \in 1..Len(t) : m[i] = g[t[i]] /\ t[i] \in ByteValues
    BY <1>0, PiecesAre
<1>3. write_payload_ascii(t) = <<Quote>> \o Prefix(t) \o FlattenSeq(s) \o <<Quote>>
    <2>1. \A i \in 1..Len(t) : f[t[i]] = PayloadOctet(t[i])
        BY <1>0, <1>1
    <2>2. s = [i \in 1..Len(t) |-> PayloadOctet(t[i])]
        BY <2>1, Zenon
    <2> HIDE DEF s
    <2> QED BY <2>2, Zenon DEF write_payload_ascii
<1>4. PayloadHeld(t) = Prefix(t) \o FlattenSeq(m)
    <2>1. \A i \in 1..Len(t) : g[t[i]] = DotShown(t[i])
        BY <1>0, <1>1
    <2>2. m = [i \in 1..Len(t) |-> DotShown(t[i])]
        BY <2>1, Zenon
    <2> HIDE DEF m
    <2> QED BY <2>2, Zenon DEF PayloadHeld
<1> HIDE DEF s, m
<1>5. TextShown(t, m) /\ \A k \in 1..Len(s) : CellPiece(m[k], s[k])
    <2>1. \A k \in 1..Len(t) : OctetShown(t[k], m[k]) /\ CellPiece(m[k], s[k])
        BY <1>0, <1>1, <1>2, DotPiece
    <2> QED BY <1>1, <1>2, <2>1 DEF TextShown
<1>6. t \in Seq(Nat) /\ Len(s) = Len(m)
    BY <1>1, <1>2, TextIsNat
<1>7. LET c == <<Quote>> \o Prefix(t) \o FlattenSeq(s) \o <<Quote>>
          u == Prefix(t) \o FlattenSeq(m)
      IN  /\ c \in Seq(Nat) /\ CellOf(c, u) /\ HarmlessText(u)
          /\ ~IsPrefix(<<Apostrophe>>, t) => CellContent(u) = FlattenSeq(m)
    BY <1>1, <1>2, <1>5, <1>6, ShownCell, Zenon
<1> QED BY <1>3, <1>4, <1>7, Zenon

\* The octets of the hexadecimal column, and what its cell holds.
HexOctets == (48..57) \cup (97..102) \cup {32}

HexHeld(t) == Separated([i \in 1..Len(t) |-> Hex(t[i])], <<32>>)

(* The hexadecimal column is harmless.                                     *)
LEMMA HexCell ==
    ASSUME NEW t \in Seq(ByteValues)
    PROVE  /\ write_payload_hex(t) \in Seq(Nat) /\ CellOf(write_payload_hex(t), HexHeld(t))
           /\ HarmlessText(HexHeld(t))
<1> DEFINE f == [o \in ByteValues |-> Hex(o)]
           parts == [i \in 1..Len(t) |-> f[t[i]]]
           blank == <<32>>
           s == [i \in 1..Len(parts) |-> IF i = 1 THEN parts[i] ELSE blank \o parts[i]]
           w == FlattenSeq(s)
           q == <<Quote>>
<1>0. \A o \in ByteValues : f[o] \in Seq(HexOctets) /\ f[o] = Hex(o)
    <2> SUFFICES ASSUME NEW o \in ByteValues PROVE f[o] \in Seq(HexOctets) /\ f[o] = Hex(o)
        OBVIOUS
    <2>1. PICK x \in (48..57) \cup (97..102), y \in (48..57) \cup (97..102) : Hex(o) = <<x, y>>
        BY ZenonT(40), HexIs DEF ByteValues
    <2>2. x \in HexOctets /\ y \in HexOctets
        BY DEF HexOctets
    <2>3. <<x, y>> \in Seq(HexOctets)
        BY <2>2
    <2> QED BY ZenonT(40), <2>1, <2>3
<1> HIDE DEF f
<1>1. /\ parts \in Seq(Seq(HexOctets)) /\ Len(parts) = Len(t)
      /\ \A i \in 1..Len(t) : parts[i] = f[t[i]] /\ t[i] \in ByteValues
    BY <1>0, PiecesAre
<1>2. parts = [i \in 1..Len(t) |-> Hex(t[i])]
    <2>1. \A i \in 1..Len(t) : f[t[i]] = Hex(t[i])
        BY <1>0, <1>1
    <2> QED BY <2>1, Zenon
<1> HIDE DEF parts
<1>3. HexHeld(t) = w /\ write_payload_hex(t) = q \o w \o q
    <2>1. Separated(parts, blank) = w
        BY DEF Separated
    <2>2. HexHeld(t) = Separated(parts, blank)
        BY <1>2, Zenon DEF HexHeld
    <2>3. write_payload_hex(t) = q \o Separated(parts, blank) \o q
        BY <1>2, Zenon DEF write_payload_hex
    <2> QED BY <2>1, <2>2, <2>3, Zenon
<1>4. s \in Seq(Seq(HexOctets))
    <2>1. blank \in Seq(HexOctets)
        BY DEF HexOctets
    <2> HIDE DEF blank
    <2>2. ASSUME NEW i \in 1..Len(parts)
          PROVE  (IF i = 1 THEN parts[i] ELSE blank \o parts[i]) \in Seq(HexOctets)
        <3> DEFINE p == parts[i]
        <3>1. p \in Seq(HexOctets)
            BY <1>1
        <3> HIDE DEF p
        <3>2. blank \o p \in Seq(HexOctets)
            BY <2>1, <3>1
        <3> QED BY <3>1, <3>2 DEF p
    <2>3. Len(parts) \in Nat
        BY <1>1
    <2> QED BY <2>2, <2>3
<1> HIDE DEF s
<1>5. w \in Seq(HexOctets)
    BY <1>4, FlattenIs, Zenon
<1>6. HexOctets \subseteq Nat /\ HexOctets \subseteq Printable /\ Quote \notin HexOctets
    BY DEF HexOctets, Printable, Quote
<1>7. s \in Seq(Seq(Nat)) /\ w \in Seq(Nat) /\ w \in Seq(Printable)
    <2>1. Seq(HexOctets) \subseteq Seq(Nat) /\ Seq(HexOctets) \subseteq Seq(Printable)
        BY <1>6, SeqMonotonic, Zenon
    <2> QED BY <1>4, <1>5, <2>1, SeqMonotonic, Zenon
<1>8. q \in Seq(Nat)
    BY DEF Quote
<1> DEFINE e == <<>>
<1>9. e \in Seq(Nat) /\ Len(e) = 0
    BY EmptySeq
<1>10. Written(e, s, s)
    <2>1. \A j \in 1..Len(e) : e[j] # Quote
        BY <1>9
    <2>2. ASSUME NEW k \in 1..Len(s) PROVE CellPiece(s[k], s[k])
        <3> DEFINE d == s[k]
        <3>1. d \in Seq(HexOctets)
            BY <1>4
        <3> HIDE DEF d
        <3>2. \A j \in 1..Len(d) : d[j] # Quote
            BY <1>6, <3>1
        <3>3. CellPiece(d, d)
            BY <3>2, Zenon DEF CellPiece
        <3> QED BY <3>3 DEF d
    <2> HIDE DEF e
    <2> QED BY <2>1, <2>2, Zenon DEF Written
<1>11. CellText(e, s) = q \o w \o q /\ e \o w = w /\ q \o w \o q \in Seq(Nat)
    <2>1. CellText(e, s) = q \o e \o w \o q
        BY Zenon DEF CellText
    <2>2. q \o e = q
        BY <1>8
    <2> HIDE DEF w, q
    <2>3. e \o w = w
        BY <1>7
    <2>4. q \o w \in Seq(Nat)
        BY <1>7, <1>8
    <2> DEFINE x == q \o w
    <2> HIDE DEF x
    <2>5. x \o q \in Seq(Nat)
        BY <1>8, <2>4 DEF x
    <2> QED BY <2>1, <2>2, <2>3, <2>5 DEF x
<1>12. CellOf(q \o w \o q, w)
    <2>1. q \o w \o q = CellText(e, s) /\ w = e \o FlattenSeq(s)
        BY <1>11
    <2> HIDE DEF q, w, e
    <2> QED BY <1>7, <1>9, <1>10, <2>1, Zenon DEF CellOf
<1>13. ~csv_text_needs_formula_prefix(w)
    <2>1. \A o \in FormulaStarts : o \notin HexOctets
        BY DEF FormulaStarts, HexOctets
    <2> HIDE DEF w
    <2>2. \A i \in 1..Len(w) : w[i] \in HexOctets
        BY <1>5
    <2> QED BY <2>1, <2>2, Zenon DEF csv_text_needs_formula_prefix
<1> HIDE DEF w, q
<1> QED BY <1>3, <1>7, <1>11, <1>12, <1>13, Zenon DEF HarmlessText

(* What a column shows is octets.                                          *)
LEMMA ColumnText ==
    ASSUME NEW app, Texts(app.fields), NEW column
    PROVE  Column(app, column) \in Seq(ByteValues)
<1> DEFINE t == FieldOf(app, column)
           f == [o \in ByteValues |-> Hex(o)]
           s == [i \in 1..Len(t) |-> f[t[i]]]
<1>1. t \in Seq(ByteValues)
    <2>1. <<>> \in Seq(ByteValues)
        BY EmptySeq
    <2> QED BY <2>1 DEF FieldOf, Texts
<1> HIDE DEF t
<1>2. \A o \in ByteValues : f[o] \in Seq(ByteValues) /\ f[o] = Hex(o)
    <2>1. Printable \subseteq ByteValues
        BY DEF Printable, ByteValues
    <2>2. Seq(Printable) \subseteq Seq(ByteValues)
        BY <2>1, SeqMonotonic, Zenon
    <2> QED BY <2>2, HexPrintable
<1> HIDE DEF f
<1>3. /\ s \in Seq(Seq(ByteValues))
      /\ \A i \in 1..Len(t) : s[i] = f[t[i]] /\ t[i] \in ByteValues
    BY <1>1, <1>2, PiecesAre
<1>4. s = [i \in 1..Len(t) |-> Hex(t[i])]
    <2>1. \A i \in 1..Len(t) : f[t[i]] = Hex(t[i])
        BY <1>2, <1>3
    <2> QED BY <2>1, Zenon
<1>5. FlattenSeq(s) \in Seq(ByteValues)
    <2> HIDE DEF s
    <2> QED BY <1>3, FlattenIs, Zenon
<1>6. Column(app, column) = FlattenSeq([i \in 1..Len(t) |-> Hex(t[i])]) \/ Column(app, column) = t
    BY Zenon DEF Column, t
<1> HIDE DEF s
<1> QED BY <1>1, <1>4, <1>5, <1>6, Zenon

\* Cells that no reader takes for formulas.
HarmlessCells(cells) == \A i \in 1..Len(cells) : HarmlessText(cells[i])

(* The same of the set of their texts.                                     *)
LEMMA HarmlessSet ==
    ASSUME NEW cells \in Seq(Seq(Nat)), HarmlessCells(cells)
    PROVE  \A c \in ToSet(cells) : ~csv_text_needs_formula_prefix(c) /\ ToSet(c) \subseteq Printable
<1> SUFFICES ASSUME NEW c \in ToSet(cells)
             PROVE  ~csv_text_needs_formula_prefix(c) /\ ToSet(c) \subseteq Printable
    OBVIOUS
<1>1. PICK i \in 1..Len(cells) : c = cells[i]
    <2>1. DOMAIN cells = 1..Len(cells)
        OBVIOUS
    <2>2. \E i \in DOMAIN cells : c = cells[i]
        BY Zenon DEF ToSet
    <2> QED BY <2>1, <2>2, Zenon
<1>2. c \in Seq(Printable) /\ ~csv_text_needs_formula_prefix(c)
    BY <1>1 DEF HarmlessCells, HarmlessText
<1>3. ToSet(c) \subseteq Printable
    BY <1>2 DEF ToSet
<1> QED BY <1>2, <1>3

----------------------------------------------------------------------------
(* The rows, and the theorem on CSV.                                       *)

\* The cells of a row with app columns, and what they hold.
AppCells(app) == [i \in 1..Len(AppColumns) |-> write_csv_text(Column(app, AppColumns[i]))]

AppHeld(app) == [i \in 1..Len(AppColumns) |-> TextHeld(Column(app, AppColumns[i]))]

(* Printable octets are numbers.                                           *)
LEMMA PrintableText ==
    ASSUME NEW u, HarmlessText(u)
    PROVE  u \in Seq(Nat)
<1>1. Printable \subseteq Nat
    BY DEF Printable
<1>2. u \in Seq(Printable)
    BY DEF HarmlessText
<1> QED BY <1>1, <1>2, SeqMonotonic

(* A row with app columns is read as what its cells hold.                  *)
LEMMA AppRowRead ==
    ASSUME NEW app, Texts(app.fields)
    PROVE  LET cells == CsvCells(write_app_packet(app))
           IN  /\ cells \in Seq(Seq(Nat)) /\ Len(cells) = Len(AppColumns) /\ HarmlessCells(cells)
               /\ \A i \in 1..Len(AppColumns) : cells[i] = TextHeld(Column(app, AppColumns[i]))
<1> DEFINE n == Len(AppColumns)
           parts == AppCells(app)
           texts == AppHeld(app)
<1>0. n \in Nat /\ n > 0
    BY DEF AppColumns
<1>1. write_app_packet(app) = Append(Separated(parts, <<Comma>>), Newline)
    BY Zenon DEF write_app_packet, AppCells
<1>2. \A i \in 1..n : /\ write_csv_text(Column(app, AppColumns[i])) \in Seq(Nat)
                      /\ CellOf(write_csv_text(Column(app, AppColumns[i])), TextHeld(Column(app, AppColumns[i])))
                      /\ HarmlessText(TextHeld(Column(app, AppColumns[i])))
                      /\ TextHeld(Column(app, AppColumns[i])) \in Seq(Nat)
    <2> SUFFICES ASSUME NEW i \in 1..n
                 PROVE  /\ write_csv_text(Column(app, AppColumns[i])) \in Seq(Nat)
                        /\ CellOf(write_csv_text(Column(app, AppColumns[i])), TextHeld(Column(app, AppColumns[i])))
                        /\ HarmlessText(TextHeld(Column(app, AppColumns[i])))
                        /\ TextHeld(Column(app, AppColumns[i])) \in Seq(Nat)
        OBVIOUS
    <2> DEFINE t == Column(app, AppColumns[i])
    <2>1. t \in Seq(ByteValues)
        BY ColumnText, Zenon
    <2> HIDE DEF t
    <2>2. write_csv_text(t) \in Seq(Nat) /\ CellOf(write_csv_text(t), TextHeld(t)) /\ HarmlessText(TextHeld(t))
        BY <2>1, TextCell, Zenon
    <2>3. TextHeld(t) \in Seq(Nat)
        BY <2>2, PrintableText, Zenon
    <2> QED BY <2>2, <2>3 DEF t
<1> HIDE DEF n
<1>3. /\ parts \in Seq(Seq(Nat)) /\ Len(parts) = n
      /\ \A i \in 1..n : parts[i] = write_csv_text(Column(app, AppColumns[i]))
    <2>1. parts = [i \in 1..n |-> write_csv_text(Column(app, AppColumns[i]))]
        BY DEF AppCells, n
    <2> HIDE DEF parts
    <2> QED BY <1>0, <1>2, <2>1
<1>4. /\ texts \in Seq(Seq(Nat)) /\ Len(texts) = n
      /\ \A i \in 1..n : texts[i] = TextHeld(Column(app, AppColumns[i]))
    <2>1. texts = [i \in 1..n |-> TextHeld(Column(app, AppColumns[i]))]
        BY DEF AppHeld, n
    <2> HIDE DEF texts
    <2> QED BY <1>0, <1>2, <2>1
<1> HIDE DEF parts, texts
<1>5. CellsOf(parts, texts)
    BY <1>2, <1>3, <1>4 DEF CellsOf
<1>6. CsvCells(Append(Separated(parts, <<Comma>>), Newline)) = texts
    BY <1>0, <1>3, <1>4, <1>5, RowRead
<1>7. HarmlessCells(texts)
    BY <1>2, <1>4 DEF HarmlessCells
<1> QED BY <1>1, <1>4, <1>6, <1>7 DEF n

(* And so is one with payload columns.                                     *)
LEMMA LegacyRowRead ==
    ASSUME NEW t \in Seq(ByteValues)
    PROVE  LET cells == CsvCells(write_legacy_packet(t))
           IN  cells \in Seq(Seq(Nat)) /\ Len(cells) = 2 /\ HarmlessCells(cells)
<1> DEFINE c == write_payload_hex(t)
           d == write_payload_ascii(t)
           x == HexHeld(t)
           y == PayloadHeld(t)
           parts == <<c, d>>
           texts == <<x, y>>
<1>1. c \in Seq(Nat) /\ CellOf(c, x) /\ HarmlessText(x)
    BY HexCell, Zenon
<1>2. d \in Seq(Nat) /\ CellOf(d, y) /\ HarmlessText(y)
    BY PayloadCell, Zenon
<1>3. x \in Seq(Nat) /\ y \in Seq(Nat)
    BY <1>1, <1>2, PrintableText, Zenon
<1>4. write_legacy_packet(t) = Append(Separated(parts, <<Comma>>), Newline)
    BY Zenon DEF write_legacy_packet
<1> HIDE DEF c, d, x, y
<1>5. parts \in Seq(Seq(Nat)) /\ Len(parts) = 2 /\ parts[1] = c /\ parts[2] = d
    BY <1>1, <1>2
<1>6. texts \in Seq(Seq(Nat)) /\ Len(texts) = 2 /\ texts[1] = x /\ texts[2] = y
    BY <1>3
<1> HIDE DEF parts, texts
<1>7. \A i \in 1..2 : CellOf(parts[i], texts[i]) /\ HarmlessText(texts[i])
    <2>1. \A i \in 1..2 : i = 1 \/ i = 2
        OBVIOUS
    <2> QED BY <1>1, <1>2, <1>5, <1>6, <2>1, Zenon
<1>8. CellsOf(parts, texts) /\ HarmlessCells(texts)
    BY <1>5, <1>6, <1>7, Zenon DEF CellsOf, HarmlessCells
<1>9. CsvCells(Append(Separated(parts, <<Comma>>), Newline)) = texts
    <2>1. Len(parts) > 0
        BY <1>5
    <2> QED BY <1>5, <1>6, <1>8, <2>1, RowRead
<1> QED BY <1>4, <1>6, <1>8, <1>9, Zenon

(* Whatever octets the metadata and the payload hold, a CSV row is read    *)
(* back as its columns: no quote, comma, newline or control octet of the   *)
(* traffic ends a cell or adds one, no cell starts a formula, and a text   *)
(* without backslashes and leading apostrophes is given back.              *)
THEOREM CsvRowIsIntact == StreamSpec => []CsvRowIntact
<1>1. TextInv => CsvRowIntact
    <2> SUFFICES ASSUME TextInv PROVE CsvRowIntact
        OBVIOUS
    <2> DEFINE app == Shown
               t == Preview
               row == CsvCells(write_app_packet(app))
               old == CsvCells(write_legacy_packet(t))
    <2>1. Texts(app.fields)
        BY DEF TextInv, Shown
    <2>2. t \in Seq(ByteValues)
        <3> DEFINE o == packet.octets
                   m == Min({Len(o), PreviewBytes})
        <3>1. o \in Seq(ByteValues) /\ Len(o) \in Nat /\ PreviewBytes \in Nat
            BY TrafficAssumption DEF TextInv
        <3>2. t = SubSeq(o, 1, m)
            BY DEF Preview
        <3> HIDE DEF o
        <3>3. m \in {Len(o), PreviewBytes} /\ m <= Len(o)
            <4> DEFINE S == {Len(o), PreviewBytes}
            <4>1. S \in SUBSET Nat /\ S # {} /\ Len(o) \in S
                BY <3>1
            <4> HIDE DEF S
            <4>2. Min(S) \in S /\ \A k \in S : Min(S) <= k
                BY <4>1, MinIs
            <4> QED BY <4>1, <4>2 DEF S
        <3>4. m \in Nat /\ m <= Len(o)
            BY <3>1, <3>3
        <3> HIDE DEF m
        <3>5. SubSeq(o, 1, m) \in Seq(ByteValues)
            BY <3>1, <3>4
        <3> QED BY <3>2, <3>5
    <2> HIDE DEF app, t
    <2>3. /\ row \in Seq(Seq(Nat)) /\ Len(row) = Len(AppColumns) /\ HarmlessCells(row)
          /\ \A i \in 1..Len(AppColumns) : row[i] = TextHeld(Column(app, AppColumns[i]))
        BY <2>1, AppRowRead, Zenon
    <2>4. old \in Seq(Seq(Nat)) /\ Len(old) = 2 /\ HarmlessCells(old)
        BY <2>2, LegacyRowRead, Zenon
    <2> HIDE DEF row, old
    <2>5. /\ \A c \in ToSet(row) : ~csv_text_needs_formula_prefix(c) /\ ToSet(c) \subseteq Printable
          /\ \A c \in ToSet(old) : ~csv_text_needs_formula_prefix(c) /\ ToSet(c) \subseteq Printable
        BY <2>3, <2>4, HarmlessSet, Zenon
    <2>6. \A i \in 1..Len(row) :
             (Backslash \notin ToSet(Column(app, AppColumns[i])) /\ ~IsPrefix(<<Apostrophe>>, Column(app, AppColumns[i])))
                => Unescaped(CellContent(row[i])) = Column(app, AppColumns[i])
        <3> SUFFICES ASSUME NEW i \in 1..Len(row), Backslash \notin ToSet(Column(app, AppColumns[i])),
                            ~IsPrefix(<<Apostrophe>>, Column(app, AppColumns[i]))
                     PROVE  Unescaped(CellContent(row[i])) = Column(app, AppColumns[i])
            OBVIOUS
        <3> DEFINE u == Column(app, AppColumns[i])
        <3>1. u \in Seq(ByteValues)
            BY <2>1, ColumnText, Zenon
        <3>2. row[i] = TextHeld(u)
            BY <2>3
        <3>3. Unescaped(CellContent(TextHeld(u))) = u
            <4> HIDE DEF u
            <4>1. Backslash \notin ToSet(u) /\ ~IsPrefix(<<Apostrophe>>, u)
                BY DEF u
            <4> QED BY <3>1, <4>1, TextCell, Zenon
        <3> QED BY <3>2, <3>3
    <2> QED BY <2>3, <2>4, <2>5, <2>6, Zenon DEF CsvRowIntact, CellContent, row, old, app, t
<1> QED BY <1>1, TextInvariant, PTL
=============================================================================
