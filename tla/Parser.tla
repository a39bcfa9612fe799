------------------------------- MODULE Parser -------------------------------
(***************************************************************************)
(* The packet parser of src/parser.c on one captured frame: link header,   *)
(* IPv4 or IPv6 (with its extension headers, one loop iteration per step)  *)
(* or ARP, then the transport header and the payload behind it.            *)
(*                                                                         *)
(* A frame is a record of the fields the parser reads, with the real       *)
(* header sizes in octets: the octets exist up to "captured", whatever the *)
(* length fields claim. Addresses, ports, sequence numbers and payload     *)
(* contents are left out; "reads" is one past the furthest octet read.     *)
(***************************************************************************)
EXTENDS Integers, Sequences

CONSTANTS
    Frames,         \* the frames to parse
    DecodeLimit     \* payload_decode_limit

\* The supported link types; DLT_LOOP is treated as DLT_NULL is.
LinkLength ==
    [EN10MB |-> 14, RAW |-> 0, IPV4 |-> 0, IPV6 |-> 0, NULL |-> 4,
     LINUX_SLL |-> 16, LINUX_SLL2 |-> 20]

\* The octets of the link header that hold the type of the network layer.
LinkReads ==
    [EN10MB |-> 14, RAW |-> 1, IPV4 |-> 0, IPV6 |-> 0, NULL |-> 4,
     LINUX_SLL |-> 16, LINUX_SLL2 |-> 2]

Skippable == {"HOPOPTS", "ROUTING", "DEST_OPTS", "AH"}
Hidden == {"FRAGMENT", "ESP", "NO_NEXT"}
Kinds == Skippable \cup Hidden \cup {"ICMP", "ICMPV6", "TCP", "UDP", "OTHER"}

FrameType ==
    [link : DOMAIN LinkLength,
     captured : Nat,
     type : {"IPV4", "IPV6", "ARP", "UNKNOWN"},  \* ethertype or address family
     version : 0..15, ihl : 0..15,
     length : Nat,              \* IPv4 total length, IPv6 payload length
     next : Kinds,
     fragment : BOOLEAN,        \* IPv4: more fragments, or an offset
     chain : Seq([units : 0..255, next : Kinds]),  \* IPv6 extension headers
     size : Nat,                \* TCP data offset in words, or the UDP length
     arp : BOOLEAN]             \* ARP for Ethernet and IPv4

ASSUME ParserAssumption ==
    /\ Frames \subseteq FrameType
    /\ DecodeLimit \in Nat \ {0}
    \* the header behind the last extension header is not one of them
    /\ \A f \in Frames :
          (IF f.chain = <<>> THEN f.next ELSE f.chain[Len(f.chain)].next)
              \notin Skippable \cup {"FRAGMENT"}

VARIABLES
    frame,
    pc,
    header,         \* how many extension headers are behind us
    next, offset,   \* IPv6Transport: next_header, transport_offset
    limit,          \* parsed_packet_len: where the datagram ends
    reads,
    info            \* PacketInfo

vars == <<frame, pc, header, next, offset, limit, reads, info>>

Smaller(a, b) == IF a < b THEN a ELSE b
Further(n) == IF n > reads THEN n ELSE reads
NoRange == [start |-> 0, length |-> 0, decode |-> 0]

initialize_packet_info ==
    [protocol |-> "OTHER", version |-> 0, ports |-> FALSE, sequence |-> FALSE,
     icmp |-> FALSE, fragment |-> FALSE, fragmentPayload |-> NoRange, payload |-> NoRange]
----------------------------------------------------------------------------
Init ==
    /\ frame \in Frames
    /\ pc = "link"
    /\ header = 0 /\ next = "OTHER" /\ offset = 0 /\ limit = 0 /\ reads = 0
    /\ info = initialize_packet_info

\* The network layer a complete link header announces.
Network ==
    LET byVersion == IF frame.version = 4 THEN "IPV4"
                     ELSE IF frame.version = 6 THEN "IPV6" ELSE "UNKNOWN"
    IN  CASE frame.link = "RAW" -> byVersion
          [] frame.link \in {"IPV4", "IPV6"} -> frame.link
          [] frame.link = "NULL" -> IF frame.type = "ARP" THEN "UNKNOWN" ELSE frame.type
          [] frame.link \in {"EN10MB", "LINUX_SLL", "LINUX_SLL2"} -> frame.type

select_network_layer ==
    /\ pc = "link"
    /\ \/ /\ frame.captured = 0 \/ frame.captured < LinkLength[frame.link]
          /\ pc' = "done"
          /\ UNCHANGED <<offset, reads>>
       \/ /\ frame.captured > 0 /\ frame.captured >= LinkLength[frame.link]
          /\ offset' = LinkLength[frame.link] /\ reads' = LinkReads[frame.link]
          /\ pc' = IF Network = "UNKNOWN" THEN "done" ELSE Network
    /\ UNCHANGED <<frame, header, next, limit, info>>

parse_arp_packet ==
    /\ pc = "ARP"
    /\ \/ /\ frame.captured < offset + 28
          /\ UNCHANGED <<reads, info>>
       \/ /\ frame.captured >= offset + 28 /\ ~frame.arp
          /\ reads' = Further(offset + 6)
          /\ UNCHANGED info
       \/ /\ frame.captured >= offset + 28 /\ frame.arp
          /\ reads' = Further(offset + 28)
          /\ info' = [info EXCEPT !.protocol = "ARP"]
    /\ pc' = "done"
    /\ UNCHANGED <<frame, header, next, offset, limit>>

\* Mutant: link-layer padding counts as part of the datagram.
CapturedEnd(claimed) == frame.captured

\* Where the datagram ends: the captured octets, or fewer when the frame is
\* padded.
DatagramEnd(claimed) == offset + Smaller(frame.captured - offset, claimed)

set_ipv4_protocol(kind) == IF kind \in {"ICMP", "TCP", "UDP"} THEN kind ELSE "OTHER"
set_ip_protocol(kind) == IF kind = "ICMPV6" THEN "ICMP" ELSE set_ipv4_protocol(kind)

Ipv4HeaderBad ==
    \/ frame.version # 4 \/ frame.ihl < 5
    \/ frame.captured < offset + frame.ihl * 4
    \/ frame.length < frame.ihl * 4

parse_ipv4_packet ==
    /\ pc = "IPV4"
    /\ \/ /\ frame.captured < offset + 20
          /\ pc' = "done"
          /\ UNCHANGED <<offset, limit, next, reads, info>>
       \/ /\ frame.captured >= offset + 20 /\ Ipv4HeaderBad
          /\ reads' = Further(offset + 4)
          /\ pc' = "done"
          /\ UNCHANGED <<offset, limit, next, info>>
       \/ /\ frame.captured >= offset + 20 /\ ~Ipv4HeaderBad
          /\ limit' = DatagramEnd(frame.length)
          /\ offset' = offset + frame.ihl * 4
          /\ next' = frame.next
          /\ reads' = Further(offset')
          /\ info' = [info EXCEPT !.version = 4, !.protocol = set_ipv4_protocol(frame.next),
                        !.fragment = frame.fragment,
                        !.fragmentPayload = [start |-> offset', length |-> limit' - offset',
                                             decode |-> 0]]
          /\ pc' = IF frame.fragment THEN "done" ELSE "transport"
    /\ UNCHANGED <<frame, header>>

parse_ipv6_packet ==
    /\ pc = "IPV6"
    /\ \/ /\ frame.captured < offset + 40
          /\ pc' = "done"
          /\ UNCHANGED <<offset, limit, next, reads, info>>
       \/ /\ frame.captured >= offset + 40 /\ frame.version # 6
          /\ reads' = Further(offset + 1)
          /\ pc' = "done"
          /\ UNCHANGED <<offset, limit, next, info>>
       \/ /\ frame.captured >= offset + 40 /\ frame.version = 6
          /\ limit' = DatagramEnd(40 + frame.length)
          /\ offset' = offset + 40
          /\ next' = frame.next
          /\ reads' = Further(offset')
          /\ info' = [info EXCEPT !.version = 6]
          /\ pc' = "extensions"
    /\ UNCHANGED <<frame, header>>
----------------------------------------------------------------------------
(* find_ipv6_transport.                                                    *)

\* Mutant: the length of an authentication header is taken for units of 8.
UniformHeaderLength(h, kind) == (h.units + 1) * 8

ipv6_extension_header_length(h, kind) ==
    IF kind = "AH" THEN (h.units + 2) * 4 ELSE (h.units + 1) * 8

\* The walk ended; nothing behind it is parsed unless it is a transport.
EndOfChain(kind, reachable) ==
    /\ info' = [info EXCEPT !.protocol = set_ip_protocol(kind)]
    /\ pc' = IF reachable THEN "transport" ELSE "done"

\* Mutant: the header's length is read without a look at what was captured.
HeaderOpen == TRUE
\* The two octets every extension header starts with.
HeaderReadable == limit >= offset + 2

SkipHeader ==
    LET h == frame.chain[header + 1]
        length == ipv6_extension_header_length(h, next)
    IN  /\ HeaderReadable /\ length >= 8 /\ limit >= offset + length
        /\ next' = h.next
        /\ offset' = offset + length
        /\ header' = header + 1
        /\ UNCHANGED <<pc, info>>

HeaderCut ==
    LET length == ipv6_extension_header_length(frame.chain[header + 1], next)
    IN  ~HeaderReadable \/ length < 8 \/ limit < offset + length

ExtensionHeader ==
    /\ pc = "extensions" /\ next \in Skippable
    /\ \/ SkipHeader
       \/ HeaderCut /\ EndOfChain(next, FALSE) /\ UNCHANGED <<offset, header, next>>
    /\ reads' = IF HeaderReadable THEN Further(offset + 2) ELSE reads
    /\ UNCHANGED <<frame, limit>>

LastHeader ==
    /\ pc = "extensions" /\ next \notin Skippable
    /\ \/ /\ next = "FRAGMENT" /\ limit >= offset + 8
          /\ next' = frame.chain[header + 1].next
          /\ reads' = Further(offset + 1)
          /\ EndOfChain(next', FALSE)
       \/ /\ next # "FRAGMENT" \/ limit < offset + 8
          /\ EndOfChain(next, next \notin Hidden)
          /\ UNCHANGED <<next, reads>>
    /\ UNCHANGED <<frame, header, offset, limit>>
----------------------------------------------------------------------------
parse_payload(start, end) ==
    IF end <= start THEN NoRange
    ELSE [start |-> start, length |-> end - start,
          decode |-> Smaller(end - start, DecodeLimit)]

\* Behind a complete header of the length its data offset gives.
parse_tcp_payload ==
    IF frame.size < 5 \/ limit < offset + frame.size * 4 THEN NoRange
    ELSE parse_payload(offset + frame.size * 4, limit)

\* parse_tcp_ports, parse_tcp_sequence_and_flags, then the payload.
parse_tcp ==
    /\ info.protocol = "TCP"
    /\ \/ /\ limit < offset + 20
          /\ UNCHANGED <<reads, info>>
       \/ /\ limit >= offset + 20
          /\ reads' = Further(offset + 14)
          /\ info' = [info EXCEPT !.ports = TRUE, !.sequence = TRUE,
                        !.payload = parse_tcp_payload]

\* Only when all of what the UDP length claims was captured.
parse_udp_payload ==
    IF frame.size > limit - offset THEN NoRange
    ELSE parse_payload(offset + 8, offset + frame.size)

\* parse_udp_ports, then the payload.
parse_udp ==
    /\ info.protocol = "UDP"
    /\ \/ /\ limit < offset + 8
          /\ UNCHANGED <<reads, info>>
       \/ /\ limit >= offset + 8 /\ frame.size < 8
          /\ reads' = Further(offset + 6)
          /\ UNCHANGED info
       \/ /\ limit >= offset + 8 /\ frame.size >= 8
          /\ reads' = Further(offset + 6)
          /\ info' = [info EXCEPT !.ports = TRUE,
                        !.payload = parse_udp_payload]

parse_icmp_payload ==
    /\ info.protocol = "ICMP"
    /\ \/ /\ limit < offset + 8
          /\ UNCHANGED <<reads, info>>
       \/ /\ limit >= offset + 8
          /\ reads' = Further(offset + 2)
          /\ info' = [info EXCEPT !.icmp = TRUE, !.payload = parse_payload(offset + 8, limit)]

ParseTransport ==
    /\ pc = "transport"
    /\ \/ parse_tcp \/ parse_udp \/ parse_icmp_payload
       \/ info.protocol = "OTHER" /\ UNCHANGED <<reads, info>>
    /\ pc' = "done"
    /\ UNCHANGED <<frame, header, next, offset, limit>>

Step ==
    \/ select_network_layer \/ parse_arp_packet \/ parse_ipv4_packet \/ parse_ipv6_packet
    \/ ExtensionHeader \/ LastHeader \/ ParseTransport

Done == pc = "done" /\ UNCHANGED vars

Next == Step \/ Done

Spec == Init /\ [][Next]_vars
----------------------------------------------------------------------------
(* No octet beyond the captured ones is read, nor handed to a decoder,     *)
(* whatever the header lengths, total lengths and UDP lengths say.         *)
ReadsInside ==
    /\ reads <= frame.captured
    /\ \A range \in {info.payload, info.fragmentPayload} :
          range.start + range.length <= frame.captured

(* A payload lies inside its datagram, so that link-layer padding is never *)
(* shown or reassembled as data, and it comes with what a flow needs: the  *)
(* ports, and for TCP the sequence number.                                 *)
PayloadInDatagram ==
    info.payload # NoRange =>
        /\ info.payload.start + info.payload.length <=
              LinkLength[frame.link] + frame.length + IF info.version = 6 THEN 40 ELSE 0
        /\ info.protocol \in {"TCP", "UDP"} => info.ports
        /\ info.protocol = "TCP" => info.sequence

\* The kind of the i-th header behind the fixed IPv6 header, and its start.
KindAt(i) == IF i = 1 THEN frame.next ELSE frame.chain[i - 1].next
StartAt ==
    LET start[i \in 1..(Len(frame.chain) + 1)] ==
            IF i = 1 THEN LinkLength[frame.link] + 40
            ELSE start[i - 1] + (IF KindAt(i - 1) = "AH" THEN 4 * (frame.chain[i - 1].units + 2)
                                 ELSE 8 * (frame.chain[i - 1].units + 1))
    IN  start

(* Of an IPv6 datagram the transport is parsed exactly when the datagram   *)
(* holds every extension header before it and none of them encrypts or     *)
(* fragments it, and it is parsed where those headers end.                 *)
TransportFound ==
    (pc = "transport" \/ pc = "done") /\ info.version = 6 =>
        LET last == CHOOSE i \in 1..(Len(frame.chain) + 1) :
                        /\ KindAt(i) \notin Skippable
                        /\ \A j \in 1..(i - 1) : KindAt(j) \in Skippable
            whole == StartAt[last] <= limit
        IN  /\ pc = "transport" => whole /\ KindAt(last) \notin Hidden
            /\ pc = "done" => (info.ports \/ info.icmp => whole /\ KindAt(last) \notin Hidden)
            /\ whole /\ KindAt(last) \notin Hidden =>
                  offset = StartAt[last] /\ info.protocol = set_ip_protocol(KindAt(last))

=============================================================================
