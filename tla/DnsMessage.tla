----------------------------- MODULE DnsMessage -----------------------------
(***************************************************************************)
(* The DNS decoder of src/app_dns.c on one buffer: a UDP payload, or the   *)
(* bytes of a TCP stream reassembled so far, which start with a length     *)
(* prefix. parse_dns_name runs one iteration of its loop per step. The id, *)
(* flags and text summary are left out.                                    *)
(***************************************************************************)
EXTENDS DnsName

CONSTANTS
    Octets,         \* octet values
    Buffers         \* the buffers to decode

ASSUME BufferAssumption == Octets \subseteq Nat /\ Buffers \subseteq Seq(Octets) \X BOOLEAN

VARIABLES
    data, framed,       \* the buffer, and whether its length prefix is still there
    pc,
    cursor, offset,     \* zero-based; offset is where the caller reads on
    name,               \* out[0 .. output_length-1]
    jumped, depth,
    result,             \* AppDecodeResult
    decoded             \* AppInfo: the name, or Cleared

vars == <<data, framed, pc, cursor, offset, name, jumped, depth, result, decoded>>

Cleared == [protocol |-> "UNKNOWN", name |-> <<>>]

\* data[i] of the code.
Octet(i) == IF i < Len(data) THEN data[i + 1] ELSE Outside
Slice(i, n) == [k \in 1..n |-> Octet(i + k - 1)]
----------------------------------------------------------------------------
Init ==
    /\ \E b \in Buffers : data = b[1] /\ framed = b[2]
    /\ pc = "frame"
    /\ cursor = 0 /\ offset = 0 /\ name = <<>>
    /\ jumped = FALSE /\ depth = 0
    /\ result = "NONE" /\ decoded = Cleared

Return(r, info) ==
    /\ result' = r /\ decoded' = info
    /\ pc' = "done"

\* The two octets before a framed message.
FrameLength == Octet(0) * 256 + Octet(1)

\* A framed buffer is cut to its first frame once that is complete.
Frame ==
    /\ pc = "frame"
    /\ \/ /\ ~framed \/ data = <<>>
          /\ pc' = "message"
          /\ UNCHANGED <<data, framed, result, decoded>>
       \/ /\ framed /\ data # <<>>
          /\ Len(data) < 2 \/ (FrameLength # 0 /\ Len(data) < 2 + FrameLength)
          /\ Return("NEED_MORE", Cleared)
          /\ UNCHANGED <<data, framed>>
       \/ /\ framed /\ Len(data) >= 2 /\ FrameLength = 0
          /\ Return("MALFORMED", Cleared)
          /\ UNCHANGED <<data, framed>>
       \/ /\ framed /\ Len(data) >= 2 /\ FrameLength \in 1..(Len(data) - 2)
          /\ data' = SubSeq(data, 3, 2 + FrameLength) /\ framed' = FALSE
          /\ pc' = "message"
          /\ UNCHANGED <<result, decoded>>
    /\ UNCHANGED <<cursor, offset, name, jumped, depth>>

decode_dns_message ==
    /\ pc = "message"
    /\ \/ /\ data = <<>>
          /\ Return("NO_MATCH", Cleared)
          /\ UNCHANGED <<cursor, offset>>
       \/ /\ data # <<>> /\ Len(data) < HeaderLen
          /\ Return("NEED_MORE", Cleared)
          /\ UNCHANGED <<cursor, offset>>
       \/ /\ Len(data) >= HeaderLen /\ data[CountAt] > MaxCount
          /\ Return("NO_MATCH", Cleared)
          /\ UNCHANGED <<cursor, offset>>
       \/ /\ Len(data) >= HeaderLen /\ data[CountAt] = 0
          /\ Return("OK", [protocol |-> "DNS", name |-> <<>>])
          /\ UNCHANGED <<cursor, offset>>
       \/ /\ Len(data) >= HeaderLen /\ data[CountAt] \in 1..MaxCount
          /\ cursor' = HeaderLen /\ offset' = HeaderLen
          /\ pc' = "name"
          /\ UNCHANGED <<result, decoded>>
    /\ UNCHANGED <<data, framed, name, jumped, depth>>
----------------------------------------------------------------------------
(* parse_dns_name.                                                         *)

Reading == pc = "name" /\ cursor < Len(data)

\* The buffer ends before the name does.
NameEnds ==
    /\ pc = "name" /\ cursor >= Len(data)
    /\ Return("MALFORMED", Cleared)
    /\ UNCHANGED <<data, framed, cursor, offset, name, jumped, depth>>

\* Mutant: the caller reads on behind whatever the last pointer led to.
RootMovesOffset ==
    /\ Reading /\ Octet(cursor) = 0
    /\ offset' = cursor + 1
    /\ name' = IF name = <<>> THEN <<Dot>> ELSE name
    /\ pc' = "question"
    /\ UNCHANGED <<data, framed, cursor, jumped, depth, result, decoded>>

\* The name is complete; an empty one is the root.
RootLabel ==
    /\ Reading /\ Octet(cursor) = 0
    /\ offset' = IF jumped THEN offset ELSE cursor + 1
    /\ name' = IF name = <<>> THEN <<Dot>> ELSE name
    /\ pc' = "question"
    /\ UNCHANGED <<data, framed, cursor, jumped, depth, result, decoded>>

PointerTarget == (Octet(cursor) - PointerBase) * 256 + Octet(cursor + 1)

PointerAllowed ==
    /\ cursor + 1 < Len(data) /\ depth < MaxDepth
    /\ PointerTarget < Len(data)

\* Mutant: pointers are followed without counting them.
PointerUncounted ==
    /\ Reading /\ Octet(cursor) >= PointerBase
    /\ \/ /\ PointerAllowed
          /\ offset' = IF jumped THEN offset ELSE cursor + 2
          /\ cursor' = PointerTarget
          /\ jumped' = TRUE
          /\ UNCHANGED <<depth, pc, result, decoded>>
       \/ /\ ~PointerAllowed
          /\ Return("MALFORMED", Cleared)
          /\ UNCHANGED <<offset, cursor, jumped, depth>>
    /\ UNCHANGED <<data, framed, name>>

Pointer ==
    /\ Reading /\ Octet(cursor) >= PointerBase
    /\ \/ /\ PointerAllowed
          /\ offset' = IF jumped THEN offset ELSE cursor + 2
          /\ cursor' = PointerTarget
          /\ jumped' = TRUE /\ depth' = depth + 1
          /\ UNCHANGED <<pc, result, decoded>>
       \/ /\ ~PointerAllowed
          /\ Return("MALFORMED", Cleared)
          /\ UNCHANGED <<offset, cursor, jumped, depth>>
    /\ UNCHANGED <<data, framed, name>>

\* The copy of out with the label behind it, and a dot between the two.
Extended(n) ==
    (IF name = <<>> THEN name ELSE Append(name, Dot)) \o Slice(cursor + 1, n)

\* Mutant: only the destination is tested.
LabelInOutput(n) ==
    LET at == IF name = <<>> THEN 0 ELSE Len(name) + 1
    IN  at + n < OutSize /\ at + n <= MaxName

LabelFits(n) ==
    /\ cursor + 1 + n <= Len(data)
    /\ name # <<>> => Len(name) + 1 < OutSize /\ Len(name) + 1 <= MaxName
    /\ LET at == IF name = <<>> THEN 0 ELSE Len(name) + 1
       IN  at + n < OutSize /\ at + n <= MaxName

Label ==
    /\ Reading /\ Octet(cursor) \in 1..(PointerBase - 1)
    /\ \/ /\ Octet(cursor) < Reserved /\ LabelFits(Octet(cursor))
          /\ name' = Extended(Octet(cursor))
          /\ cursor' = cursor + 1 + Octet(cursor)
          /\ UNCHANGED <<pc, result, decoded>>
       \/ /\ Octet(cursor) >= Reserved \/ ~LabelFits(Octet(cursor))
          /\ Return("MALFORMED", Cleared)
          /\ UNCHANGED <<name, cursor>>
    /\ UNCHANGED <<data, framed, offset, jumped, depth>>

\* br_init over the rest of the message, then the type and the class.
Question ==
    /\ pc = "question"
    /\ \/ /\ TailLen <= Len(data) - offset
          /\ Return("OK", [protocol |-> "DNS", name |-> name])
       \/ /\ TailLen > Len(data) - offset
          /\ Return("MALFORMED", Cleared)
    /\ UNCHANGED <<data, framed, cursor, offset, name, jumped, depth>>

Step == Frame \/ decode_dns_message \/ NameEnds \/ RootLabel \/ Pointer \/ Label \/ Question

Finished == pc = "done" /\ UNCHANGED vars

Next == Step \/ Finished

(* The decoder is sequential code that waits for nothing.                  *)
Spec == Init /\ [][Next]_vars /\ WF_vars(Step)
----------------------------------------------------------------------------
(* Whatever lengths and pointers a message contains, no octet beyond it is *)
(* read, the name leaves room for its terminator, and the caller's         *)
(* "length - question_offset" does not wrap.                               *)
StaysInside ==
    /\ Outside \notin ToSet(name) /\ cursor <= Len(data)
    /\ Len(name) < OutSize
    /\ offset <= Len(data)

(* The one-pass loop with its jumped flag, depth counter and incremental   *)
(* length tests decodes a question exactly when the message holds a name   *)
(* that fits, followed in place (not behind the last pointer) by type and  *)
(* class; it then reports that name, and otherwise nothing at all.         *)
DecodesTheName ==
    pc = "done" /\ ~framed =>
        /\ result = DnsVerdict(data).result
        /\ decoded = IF result = "OK" THEN [protocol |-> "DNS", name |-> DnsVerdict(data).name]
                     ELSE Cleared

(* A name whose pointers form a cycle is given up, so decoding ends.       *)
DecodingEnds == <>(pc = "done")
=============================================================================
