------------------------------ MODULE DnsName ------------------------------
(***************************************************************************)
(* The first question of a DNS message, read off the octets: what          *)
(* decode_dns_message_as of src/app_dns.c must return for a buffer. The    *)
(* run of DnsMessage checks the decoder's loop against it; AppDecoder uses *)
(* it in place of that loop.                                               *)
(*                                                                         *)
(* An octet is a number below 256. Its two top bits (PointerBase, 0xc0)    *)
(* mark a compression pointer, one of them alone is reserved; below that   *)
(* an octet is a label length or label content. The section counts of the  *)
(* header are one octet; the question's type and class are TailLen octets. *)
(***************************************************************************)
EXTENDS Integers, Sequences, SequencesExt

CONSTANTS
    HeaderLen,      \* DNS_HEADER_LEN (12)
    CountAt,        \* where in the header the section counts are
    TailLen,        \* qtype and qclass (4)
    MaxCount,       \* the largest plausible section count
    Reserved,       \* 0x40: the smallest octet with one of the two top bits
    PointerBase,    \* 0xc0: the smallest octet with both
    OutSize,        \* sizeof dns_query_name
    MaxName,        \* DNS_MAX_NAME_LEN (253)
    MaxDepth        \* DNS_MAX_POINTER_DEPTH (16)

ASSUME DnsAssumption ==
    /\ HeaderLen \in Nat \ {0} /\ CountAt \in 1..HeaderLen
    /\ TailLen \in Nat /\ MaxCount \in Nat
    /\ Reserved \in Nat \ {0} /\ PointerBase \in Nat /\ Reserved < PointerBase
    /\ OutSize \in Nat \ {0, 1} /\ MaxName \in Nat /\ MaxDepth \in Nat

Dot == 46
Outside == -1           \* what a read beyond a buffer would return

(* What a name at position p is: the octets of its labels with dots        *)
(* between, reached through at most d pointers, or Bad.                    *)
Bad == <<Outside>>
Joined(label, rest) ==
    CASE rest = Bad -> Bad
      [] rest = <<>> -> label
      [] rest \notin {Bad, <<>>} -> label \o <<Dot>> \o rest

\* One step of the reading, given what is read at later places.
NameFrom(m, at, d, p) ==
    IF p = Len(m) THEN Bad
    ELSE LET n == m[p + 1]
         IN  CASE n = 0 -> <<>>
               [] n \in 1..(Reserved - 1) ->
                     IF p + 1 + n > Len(m) THEN Bad
                     ELSE Joined(SubSeq(m, p + 2, p + 1 + n), at[<<d, p + 1 + n>>])
               [] n \in Reserved..(PointerBase - 1) -> Bad
               [] n >= PointerBase ->
                     IF d = 0 \/ p + 1 = Len(m) THEN Bad
                     ELSE LET t == (n - PointerBase) * 256 + m[p + 2]
                          IN  IF t >= Len(m) THEN Bad ELSE at[<<d - 1, t>>]

Names(m) ==
    LET at[x \in (0..MaxDepth) \X (0..Len(m))] == NameFrom(m, at, x[1], x[2])
    IN  at

NameAt(m) == Names(m)[<<MaxDepth, HeaderLen>>]

\* Where the name ends in place: behind its root label or its first pointer.
EndFrom(m, end, p) ==
    IF p = Len(m) THEN Len(m) + 1
    ELSE IF m[p + 1] = 0 THEN p + 1
    ELSE IF m[p + 1] >= PointerBase THEN p + 2
    ELSE IF p + 1 + m[p + 1] > Len(m) THEN Len(m) + 1
    ELSE end[p + 1 + m[p + 1]]

Ends(m) ==
    LET end[p \in 0..Len(m)] == EndFrom(m, end, p)
    IN  end

InlineEnd(m) == Ends(m)[HeaderLen]

\* An empty name is shown as the root.
WholeName(m) == IF NameAt(m) = <<>> THEN <<Dot>> ELSE NameAt(m)

(* The message holds a name that fits, followed in place (not behind the   *)
(* last pointer) by type and class.                                        *)
GoodQuestion(m) ==
    /\ NameAt(m) # Bad /\ InlineEnd(m) + TailLen <= Len(m)
    /\ NameAt(m) = <<>> \/ (Len(NameAt(m)) < OutSize /\ Len(NameAt(m)) <= MaxName)

(* AppDecodeResult and name for a message.                                 *)
DnsVerdict(m) ==
    LET none(r) == [result |-> r, name |-> <<>>]
    IN  CASE m = <<>> -> none("NO_MATCH")
          [] m # <<>> /\ Len(m) < HeaderLen -> none("NEED_MORE")
          [] Len(m) >= HeaderLen /\ m[CountAt] > MaxCount -> none("NO_MATCH")
          [] Len(m) >= HeaderLen /\ m[CountAt] = 0 -> none("OK")
          [] Len(m) >= HeaderLen /\ m[CountAt] \in 1..MaxCount ->
                IF GoodQuestion(m) THEN [result |-> "OK", name |-> WholeName(m)]
                ELSE none("MALFORMED")
=============================================================================
