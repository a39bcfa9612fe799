---------------------------- MODULE ParserProofs ----------------------------
(***************************************************************************)
(* Proofs about Parser for every captured frame: whatever its length       *)
(* fields claim, however many extension headers it holds and wherever the  *)
(* capture cut it.                                                         *)
(***************************************************************************)
EXTENDS Parser, SequenceLemmas, TLAPS

Networks == {"IPV4", "IPV6", "ARP"}
PcValues == Networks \cup {"link", "extensions", "transport", "done"}
OctetRange == [start : Nat, length : Nat, decode : Nat]

InfoType ==
    [protocol : {"OTHER", "ICMP", "TCP", "UDP", "ARP"}, version : {0, 4, 6},
     ports : BOOLEAN, sequence : BOOLEAN, icmp : BOOLEAN, fragment : BOOLEAN,
     fragmentPayload : OctetRange, payload : OctetRange]

TypeOK ==
    /\ frame \in Frames
    /\ pc \in PcValues
    /\ header \in Nat /\ offset \in Nat /\ limit \in Nat /\ reads \in Nat
    /\ next \in Kinds
    /\ info \in InfoType

(* Where the datagram ends according to its own length field.              *)
Claimed == LinkLength[frame.link] + frame.length + IF info.version = 6 THEN 40 ELSE 0

(* The offset stays inside the datagram and the datagram inside what was   *)
(* captured, as long as something remains to be parsed.                    *)
Bounds ==
    /\ ReadsInside
    /\ pc \in Networks => offset = LinkLength[frame.link] /\ offset <= frame.captured
    /\ pc \in {"extensions", "transport"} =>
          offset <= limit /\ limit <= frame.captured /\ limit <= Claimed

(* Nothing is handed to a decoder before the transport header is parsed.   *)
Payload ==
    /\ PayloadInDatagram
    /\ pc # "done" => info.payload = NoRange /\ ~info.ports /\ ~info.icmp
    /\ pc \in Networks \cup {"link"} => info = initialize_packet_info

(* The walk of the extension headers knows which header it is at, and      *)
(* there is one behind every header that is not the last.                  *)
Walk ==
    /\ pc \in Networks \cup {"link"} => header = 0
    /\ pc = "extensions" =>
          /\ info.version = 6
          /\ header <= Len(frame.chain)
          /\ next = KindAt(header + 1)
          /\ \A i \in 1..header : KindAt(i) \in Skippable

(* The walk is where the headers skipped so far end.                       *)
Position == pc = "extensions" => offset = StartAt[header + 1]

IInv == TypeOK /\ Bounds /\ Payload /\ Walk /\ Position /\ TransportFound
----------------------------------------------------------------------------
(* The octets of a link header that are read are part of it, except that   *)
(* of a raw IP frame the first octet is read.                              *)
LEMMA LinkFacts ==
    \A d \in DOMAIN LinkLength :
        /\ LinkLength[d] \in Nat /\ LinkReads[d] \in Nat
        /\ LinkReads[d] <= LinkLength[d] \/ LinkReads[d] <= 1
BY DEF LinkLength, LinkReads

(* What the proofs use of a frame.                                         *)
LEMMA FrameFacts ==
    ASSUME TypeOK
    PROVE  /\ frame.link \in DOMAIN LinkLength
           /\ LinkLength[frame.link] \in Nat
           /\ frame.captured \in Nat /\ frame.length \in Nat /\ frame.size \in Nat
           /\ frame.ihl \in 0..15 /\ frame.version \in 0..15
           /\ frame.next \in Kinds /\ frame.fragment \in BOOLEAN
           /\ frame.chain \in Seq([units : 0..255, next : Kinds])
<1>1. frame \in FrameType
    BY ParserAssumption DEF TypeOK
<1>2. frame.link \in DOMAIN LinkLength
    BY <1>1 DEF FrameType
<1> QED
    BY <1>1, <1>2, LinkFacts DEF FrameType

(* A header that is not the last has one behind it.                        *)
LEMMA ChainFacts ==
    ASSUME TypeOK, Walk, pc = "extensions", next \in Skippable \cup {"FRAGMENT"}
    PROVE  /\ header + 1 \in 1..Len(frame.chain)
           /\ frame.chain[header + 1].units \in 0..255
           /\ frame.chain[header + 1].next \in Kinds
<1>1. header # Len(frame.chain)
    <2>1. /\ header \in Nat
          /\ next = IF header = 0 THEN frame.next ELSE frame.chain[header].next
        BY DEF TypeOK, Walk, KindAt
    <2>2. (IF frame.chain = <<>> THEN frame.next ELSE frame.chain[Len(frame.chain)].next)
              \notin Skippable \cup {"FRAGMENT"}
        BY ParserAssumption DEF TypeOK
    <2>3. frame.chain = <<>> <=> Len(frame.chain) = 0
        BY FrameFacts
    <2> QED
        BY <2>1, <2>2, <2>3
<1>2. header + 1 \in 1..Len(frame.chain)
    <2>1. Len(frame.chain) \in Nat
        BY FrameFacts
    <2>2. header \in Nat /\ header <= Len(frame.chain)
        BY DEF TypeOK, Walk
    <2> QED
        BY <1>1, <2>1, <2>2
<1>3. frame.chain[header + 1] \in [units : 0..255, next : Kinds]
    <2>1. \A S : \A s \in Seq(S) : \A i \in 1..Len(s) : s[i] \in S
        OBVIOUS
    <2>2. frame.chain \in Seq([units : 0..255, next : Kinds])
        BY FrameFacts
    <2> QED
        BY <1>2, <2>1, <2>2
<1> QED
    BY <1>2, <1>3

(* Every extension header is longer than nothing.                          *)
LEMMA HeaderLengthType ==
    ASSUME NEW h, h.units \in 0..255, NEW kind
    PROVE  ipv6_extension_header_length(h, kind) \in Nat
<1>1. (h.units + 2) * 4 \in Nat /\ (h.units + 1) * 8 \in Nat
    OBVIOUS
<1> QED
    BY <1>1 DEF ipv6_extension_header_length

(* Every protocol the parser records is one of its enumeration.            *)
LEMMA ProtocolType ==
    ASSUME NEW kind
    PROVE  /\ set_ipv4_protocol(kind) \in {"OTHER", "ICMP", "TCP", "UDP"}
           /\ set_ip_protocol(kind) \in {"OTHER", "ICMP", "TCP", "UDP"}
BY DEF set_ipv4_protocol, set_ip_protocol

(* A payload is what lies between the two offsets, if anything does.       *)
LEMMA PayloadRange ==
    ASSUME NEW a \in Nat, NEW b \in Nat
    PROVE  /\ parse_payload(a, b) \in OctetRange
           /\ NoRange \in OctetRange /\ NoRange.start = 0 /\ NoRange.length = 0
           /\ parse_payload(a, b) # NoRange =>
                 parse_payload(a, b).start + parse_payload(a, b).length <= b
           /\ parse_payload(a, b).start + parse_payload(a, b).length <= b
BY ParserAssumption DEF parse_payload, OctetRange, NoRange, Smaller

(* The record a frame starts with.                                         *)
LEMMA InitialInfo ==
    /\ initialize_packet_info \in InfoType
    /\ initialize_packet_info.payload = NoRange
    /\ initialize_packet_info.fragmentPayload = NoRange
    /\ initialize_packet_info.version = 0
BY DEF initialize_packet_info, InfoType, NoRange, OctetRange

(* What the transport step hands to the decoders: a range that ends inside *)
(* the datagram, with the ports and the sequence number of the packet.     *)
LEMMA TransportPayload ==
    ASSUME TypeOK, Bounds, Payload, ParseTransport
    PROVE  /\ info'.fragmentPayload = info.fragmentPayload
           /\ info'.version = info.version
           /\ info'.payload.start + info'.payload.length <= limit
           /\ info'.payload # NoRange =>
                 /\ info'.protocol \in {"TCP", "UDP"} => info'.ports
                 /\ info'.protocol = "TCP" => info'.sequence
<1>0. /\ info \in InfoType /\ offset \in Nat /\ limit \in Nat
      /\ pc = "transport" /\ info.payload = NoRange
    BY DEF TypeOK, Payload, ParseTransport
<1>1. frame.size \in Nat /\ offset <= limit
    BY <1>0, FrameFacts DEF Bounds
<1>2. NoRange.start + NoRange.length = 0
    BY DEF NoRange
<1>3. CASE parse_tcp
    <2>1. parse_tcp_payload.start + parse_tcp_payload.length <= limit
        BY <1>0, <1>1, <1>2, PayloadRange DEF parse_tcp_payload
    <2>2. CASE UNCHANGED info
        BY <1>0, <1>2, <2>2
    <2>3. CASE info' = [info EXCEPT !.ports = TRUE, !.sequence = TRUE,
                          !.payload = parse_tcp_payload]
        BY <1>0, <2>1, <2>3 DEF InfoType
    <2> QED
        BY <1>3, <2>2, <2>3 DEF parse_tcp
<1>4. CASE parse_udp
    <2>1. limit >= offset + 8 /\ frame.size >= 8 =>
             parse_udp_payload.start + parse_udp_payload.length <= limit
        <3> SUFFICES ASSUME limit >= offset + 8, frame.size >= 8
                     PROVE  parse_udp_payload.start + parse_udp_payload.length <= limit
            OBVIOUS
        <3>1. CASE frame.size > limit - offset
            BY <1>0, <1>2, <3>1 DEF parse_udp_payload
        <3>2. CASE ~(frame.size > limit - offset)
            <4>1. parse_udp_payload = parse_payload(offset + 8, offset + frame.size)
                BY <3>2 DEF parse_udp_payload
            <4>2. offset + frame.size <= limit
                BY <1>0, <1>1, <3>2
            <4>3. parse_udp_payload.start + parse_udp_payload.length <= offset + frame.size
                BY <1>0, <1>1, <4>1, PayloadRange
            <4>4. parse_udp_payload \in OctetRange
                BY <1>0, <1>1, <4>1, PayloadRange
            <4> QED
                BY <1>0, <1>1, <4>2, <4>3, <4>4 DEF OctetRange
        <3> QED
            BY <3>1, <3>2
    <2>2. CASE UNCHANGED info
        BY <1>0, <1>2, <2>2
    <2>3. CASE /\ limit >= offset + 8 /\ frame.size >= 8
               /\ info' = [info EXCEPT !.ports = TRUE, !.payload = parse_udp_payload]
        <3>1. /\ info'.payload = parse_udp_payload /\ info'.ports
              /\ info'.fragmentPayload = info.fragmentPayload
              /\ info'.version = info.version /\ info'.protocol = info.protocol
            BY <1>0, <2>3 DEF InfoType
        <3> QED
            BY <1>4, <2>1, <2>3, <3>1 DEF parse_udp
    <2> QED
        BY <1>4, <2>2, <2>3 DEF parse_udp
<1>5. CASE parse_icmp_payload
    <2>1. parse_payload(offset + 8, limit).start
             + parse_payload(offset + 8, limit).length <= limit
        BY <1>0, PayloadRange
    <2>2. CASE UNCHANGED info
        BY <1>0, <1>2, <2>2
    <2>3. CASE info' = [info EXCEPT !.icmp = TRUE, !.payload = parse_payload(offset + 8, limit)]
        <3>1. /\ info'.payload = parse_payload(offset + 8, limit)
              /\ info'.fragmentPayload = info.fragmentPayload
              /\ info'.version = info.version /\ info'.protocol = info.protocol
            BY <1>0, <2>3 DEF InfoType
        <3> QED
            BY <1>5, <2>1, <3>1 DEF parse_icmp_payload
    <2> QED
        BY <1>5, <2>2, <2>3 DEF parse_icmp_payload
<1>6. CASE UNCHANGED info
    BY <1>0, <1>2, <1>6
<1> QED
    BY <1>3, <1>4, <1>5, <1>6 DEF ParseTransport

(* Every step keeps the variables' types.                                  *)
LEMMA TypeStep ==
    ASSUME TypeOK, Bounds, Payload, Walk, [Next]_vars
    PROVE  TypeOK'
<1>0. /\ frame \in Frames /\ pc \in PcValues /\ next \in Kinds /\ info \in InfoType
      /\ header \in Nat /\ offset \in Nat /\ limit \in Nat /\ reads \in Nat
    BY DEF TypeOK
<1>a. /\ LinkLength[frame.link] \in Nat /\ LinkReads[frame.link] \in Nat
      /\ frame.captured \in Nat /\ frame.length \in Nat /\ frame.size \in Nat
      /\ frame.ihl \in 0..15 /\ frame.next \in Kinds /\ frame.fragment \in BOOLEAN
    BY FrameFacts, LinkFacts
<1>b. \A n \in Nat : Further(n) \in Nat
    BY <1>0 DEF Further
<1> USE DEF PcValues, Networks
<1>1. CASE select_network_layer
    <2>1. Network \in Networks \cup {"UNKNOWN"}
        BY FrameFacts, ParserAssumption DEF Network, TypeOK, FrameType, LinkLength
    <2> QED
        BY <1>0, <1>1, <1>a, <2>1 DEF select_network_layer, TypeOK
<1>2. CASE parse_arp_packet
    <2>1. [info EXCEPT !.protocol = "ARP"] \in InfoType
        BY <1>0 DEF InfoType
    <2> QED
        BY <1>0, <1>2, <1>b, <2>1 DEF parse_arp_packet, TypeOK
<1>3. CASE parse_ipv4_packet
    <2>1. CASE UNCHANGED <<offset, limit, next, info>>
        BY <1>0, <1>3, <1>b, <2>1 DEF parse_ipv4_packet, TypeOK
    <2>2. CASE frame.captured >= offset + 20 /\ ~Ipv4HeaderBad
        <3>0. ~(frame.captured < offset + 20)
            BY <1>0, <1>a, <2>2
        <3>1. /\ offset' = offset + frame.ihl * 4 /\ offset' \in Nat
              /\ limit' \in Nat /\ offset' <= limit'
            BY <1>0, <1>3, <1>a, <2>2
            DEF parse_ipv4_packet, DatagramEnd, Smaller, Ipv4HeaderBad
        <3>2. limit' - offset' \in Nat
            BY <3>1
        <3> DEFINE r == [start |-> offset', length |-> limit' - offset', decode |-> 0]
        <3>3. r \in OctetRange
            BY <3>1, <3>2 DEF OctetRange
        <3>4. info' = [info EXCEPT !.version = 4, !.protocol = set_ipv4_protocol(frame.next),
                         !.fragment = frame.fragment, !.fragmentPayload = r]
            BY <1>3, <2>2, <3>0 DEF parse_ipv4_packet
        <3> HIDE DEF r
        <3>5. info' \in InfoType
            BY <1>0, <1>a, <3>3, <3>4, ProtocolType DEF InfoType
        <3> QED
            BY <1>0, <1>3, <1>a, <1>b, <2>2, <3>1, <3>5 DEF parse_ipv4_packet, TypeOK
    <2> QED
        BY <1>3, <2>1, <2>2 DEF parse_ipv4_packet
<1>4. CASE parse_ipv6_packet
    <2>1. [info EXCEPT !.version = 6] \in InfoType
        BY <1>0 DEF InfoType
    <2>2. frame.captured >= offset + 40 => DatagramEnd(40 + frame.length) \in Nat
        BY <1>0, <1>a DEF DatagramEnd, Smaller
    <2> QED
        BY <1>0, <1>4, <1>a, <1>b, <2>1, <2>2 DEF parse_ipv6_packet, TypeOK
<1>c. \A k, r : EndOfChain(k, r) => info' \in InfoType /\ pc' \in {"transport", "done"}
    BY <1>0, ProtocolType DEF EndOfChain, InfoType
<1>5. CASE ExtensionHeader
    <2>1. /\ pc = "extensions" /\ next \in Skippable
          /\ frame' = frame /\ limit' = limit
        BY <1>5 DEF ExtensionHeader
    <2>2. /\ frame.chain[header + 1].units \in 0..255
          /\ frame.chain[header + 1].next \in Kinds
        BY <2>1, ChainFacts
    <2>3. reads' \in Nat
        BY <1>0, <1>5, <1>b DEF ExtensionHeader
    <2>4. CASE SkipHeader
        <3>1. ipv6_extension_header_length(frame.chain[header + 1], next) \in Nat
            BY <2>2, HeaderLengthType
        <3> QED
            BY <1>0, <2>1, <2>2, <2>3, <2>4, <3>1 DEF SkipHeader, TypeOK
    <2>5. CASE HeaderCut /\ EndOfChain(next, FALSE) /\ UNCHANGED <<offset, header, next>>
        BY <1>0, <1>c, <2>1, <2>3, <2>5 DEF TypeOK
    <2> QED
        BY <1>5, <2>4, <2>5 DEF ExtensionHeader
<1>6. CASE LastHeader
    <2>1. next = "FRAGMENT" => frame.chain[header + 1].next \in Kinds
        BY <1>6, ChainFacts DEF LastHeader
    <2>2. next' \in Kinds
        BY <1>0, <1>6, <2>1, Zenon DEF LastHeader
    <2>a. reads' \in Nat
        <3>1. Further(offset + 1) \in Nat
            BY <1>0, <1>b
        <3> QED
            BY <1>0, <1>6, <3>1, Zenon DEF LastHeader
    <2>3. info' \in InfoType /\ pc' \in {"transport", "done"}
        BY <1>6, <1>c DEF LastHeader
    <2> QED
        BY <1>0, <1>6, <2>2, <2>3, <2>a DEF LastHeader, TypeOK
<1>7. CASE ParseTransport
    <2>1. offset <= limit
        BY <1>7 DEF ParseTransport, Bounds
    <2>2. parse_tcp_payload \in OctetRange
        BY <1>0, <1>a, PayloadRange DEF parse_tcp_payload
    <2>3. parse_udp_payload \in OctetRange /\ parse_payload(offset + 8, limit) \in OctetRange
        BY <1>0, <1>a, PayloadRange DEF parse_udp_payload
    <2>4. /\ [info EXCEPT !.ports = TRUE, !.sequence = TRUE,
                          !.payload = parse_tcp_payload] \in InfoType
          /\ [info EXCEPT !.ports = TRUE, !.payload = parse_udp_payload] \in InfoType
          /\ [info EXCEPT !.icmp = TRUE,
                          !.payload = parse_payload(offset + 8, limit)] \in InfoType
        BY <1>0, <2>2, <2>3 DEF InfoType
    <2>5. info' \in InfoType /\ reads' \in Nat
        BY <1>0, <1>7, <1>b, <2>4 DEF ParseTransport, parse_tcp, parse_udp, parse_icmp_payload
    <2> QED
        BY <1>0, <1>7, <2>5 DEF ParseTransport, TypeOK
<1>8. CASE UNCHANGED vars
    BY <1>8, <1>0 DEF vars, TypeOK
<1> QED
    BY <1>1, <1>2, <1>3, <1>4, <1>5, <1>6, <1>7, <1>8 DEF Next, Step, Done

(* Every read is behind a check of what remains, and every payload ends    *)
(* where the datagram ends or before.                                      *)
LEMMA BoundsStep ==
    ASSUME TypeOK, Bounds, Payload, Walk, [Next]_vars
    PROVE  Bounds'
<1>0. /\ info \in InfoType
      /\ offset \in Nat /\ limit \in Nat /\ reads \in Nat /\ reads <= frame.captured
    BY DEF TypeOK, Bounds, ReadsInside
<1>a. /\ LinkLength[frame.link] \in Nat /\ LinkReads[frame.link] \in Nat
      /\ LinkReads[frame.link] <= LinkLength[frame.link] \/ LinkReads[frame.link] <= 1
      /\ frame.captured \in Nat /\ frame.length \in Nat /\ frame.size \in Nat
      /\ frame.ihl \in 0..15
    BY FrameFacts, LinkFacts
<1>b. \A n \in Nat : n <= frame.captured => Further(n) <= frame.captured
    BY <1>0, <1>a DEF Further
<1>c. \A range \in {info.payload, info.fragmentPayload} :
         range.start + range.length <= frame.captured
    BY DEF Bounds, ReadsInside
<1> USE DEF Networks
<1>1. CASE select_network_layer
    <2>1. UNCHANGED <<frame, info>> /\ reads' <= frame.captured
        BY <1>0, <1>1, <1>a DEF select_network_layer
    <2>2. pc' \in Networks => offset' = LinkLength[frame.link] /\ offset' <= frame.captured
        BY <1>1, <1>a DEF select_network_layer
    <2>3. pc' \notin {"extensions", "transport"}
        BY <1>1, FrameFacts, ParserAssumption
        DEF select_network_layer, Network, TypeOK, FrameType, LinkLength
    <2> QED
        BY <1>c, <2>1, <2>2, <2>3 DEF Bounds, ReadsInside
<1>2. CASE parse_arp_packet
    <2>1. reads' <= frame.captured
        BY <1>0, <1>2, <1>a, <1>b DEF parse_arp_packet
    <2>2. info'.payload = info.payload /\ info'.fragmentPayload = info.fragmentPayload
        BY <1>0, <1>2 DEF parse_arp_packet, InfoType
    <2> QED
        BY <1>2, <1>c, <2>1, <2>2 DEF parse_arp_packet, Bounds, ReadsInside
<1>3. CASE parse_ipv4_packet
    <2>0. pc = "IPV4" /\ frame' = frame
        BY <1>3 DEF parse_ipv4_packet
    <2>1. CASE pc' = "done" /\ UNCHANGED <<offset, limit, next, info>>
        <3>1. reads' <= frame.captured
            BY <1>0, <1>3, <1>a, <1>b, <2>1 DEF parse_ipv4_packet
        <3> QED
            BY <1>c, <2>0, <2>1, <3>1 DEF Bounds, ReadsInside
    <2>2. CASE frame.captured >= offset + 20 /\ ~Ipv4HeaderBad
        <3>0. ~(frame.captured < offset + 20) /\ offset = LinkLength[frame.link]
            BY <1>0, <1>a, <2>0, <2>2 DEF Bounds
        <3>1. /\ offset' = offset + frame.ihl * 4 /\ offset' \in Nat
              /\ limit' \in Nat /\ offset' <= limit'
              /\ limit' <= frame.captured /\ limit' <= LinkLength[frame.link] + frame.length
              /\ reads' = Further(offset')
            BY <1>0, <1>3, <1>a, <2>2, <3>0
            DEF parse_ipv4_packet, DatagramEnd, Smaller, Ipv4HeaderBad
        <3>2. reads' <= frame.captured
            BY <1>a, <1>b, <3>1
        <3> DEFINE r == [start |-> offset', length |-> limit' - offset', decode |-> 0]
        <3>3. info' = [info EXCEPT !.version = 4, !.protocol = set_ipv4_protocol(frame.next),
                         !.fragment = frame.fragment, !.fragmentPayload = r]
            BY <1>3, <2>2, <3>0 DEF parse_ipv4_packet
        <3>4. r.start + r.length <= frame.captured
            BY <1>a, <3>1
        <3> HIDE DEF r
        <3>5. info'.payload = info.payload /\ info'.fragmentPayload = r /\ info'.version = 4
            BY <1>0, <3>3 DEF InfoType
        <3>6. limit' <= Claimed'
            BY <1>a, <2>0, <3>1, <3>5 DEF Claimed
        <3>7. pc' \in {"done", "transport"}
            BY <1>3, <2>2, <3>0 DEF parse_ipv4_packet
        <3> QED
            BY <1>c, <2>0, <3>1, <3>2, <3>4, <3>5, <3>6, <3>7 DEF Bounds, ReadsInside
    <2> QED
        BY <1>3, <2>1, <2>2 DEF parse_ipv4_packet
<1>4. CASE parse_ipv6_packet
    <2>0. pc = "IPV6" /\ frame' = frame
        BY <1>4 DEF parse_ipv6_packet
    <2>1. CASE pc' = "done" /\ UNCHANGED <<offset, limit, next, info>>
        <3>1. reads' <= frame.captured
            BY <1>0, <1>4, <1>a, <1>b, <2>1 DEF parse_ipv6_packet
        <3> QED
            BY <1>c, <2>0, <2>1, <3>1 DEF Bounds, ReadsInside
    <2>2. CASE /\ frame.captured >= offset + 40
               /\ limit' = DatagramEnd(40 + frame.length) /\ offset' = offset + 40
               /\ reads' = Further(offset') /\ info' = [info EXCEPT !.version = 6]
               /\ pc' = "extensions"
        <3>0. offset = LinkLength[frame.link]
            BY <2>0 DEF Bounds
        <3>1. /\ offset' \in Nat /\ limit' \in Nat /\ offset' <= limit'
              /\ limit' <= frame.captured
              /\ limit' <= LinkLength[frame.link] + frame.length + 40
            BY <1>0, <1>a, <2>2, <3>0 DEF DatagramEnd, Smaller
        <3>2. reads' <= frame.captured
            BY <1>0, <1>a, <1>b, <2>2
        <3>3. /\ info'.payload = info.payload /\ info'.version = 6
              /\ info'.fragmentPayload = info.fragmentPayload
            BY <1>0, <2>2 DEF InfoType
        <3>4. limit' <= Claimed'
            BY <1>a, <2>0, <3>1, <3>3 DEF Claimed
        <3> QED
            BY <1>c, <2>0, <2>2, <3>1, <3>2, <3>3, <3>4 DEF Bounds, ReadsInside
    <2> QED
        BY <1>4, <2>1, <2>2 DEF parse_ipv6_packet
<1>d. \A k, r : EndOfChain(k, r) =>
         /\ info'.payload = info.payload /\ info'.fragmentPayload = info.fragmentPayload
         /\ info'.version = info.version /\ pc' \in {"transport", "done"}
    BY <1>0 DEF EndOfChain, InfoType
<1>5. CASE ExtensionHeader
    <2>0. /\ pc = "extensions" /\ next \in Skippable /\ frame' = frame /\ limit' = limit
          /\ offset <= limit /\ limit <= frame.captured /\ limit <= Claimed
        BY <1>5 DEF ExtensionHeader, Bounds
    <2>1. reads' <= frame.captured
        BY <1>0, <1>5, <1>a, <1>b, <2>0 DEF ExtensionHeader, HeaderReadable
    <2>2. CASE SkipHeader
        <3>1. offset' <= limit /\ pc' = pc /\ info' = info
            BY <2>2 DEF SkipHeader
        <3> QED
            BY <1>c, <2>0, <2>1, <3>1 DEF Bounds, ReadsInside, Claimed
    <2>3. CASE HeaderCut /\ EndOfChain(next, FALSE) /\ UNCHANGED <<offset, header, next>>
        BY <1>c, <1>d, <2>0, <2>1, <2>3 DEF Bounds, ReadsInside, Claimed
    <2> QED
        BY <1>5, <2>2, <2>3 DEF ExtensionHeader
<1>6. CASE LastHeader
    <2>0. /\ pc = "extensions" /\ UNCHANGED <<frame, offset, limit>>
          /\ offset <= limit /\ limit <= frame.captured /\ limit <= Claimed
        BY <1>6 DEF LastHeader, Bounds
    <2>1. reads' <= frame.captured
        <3>1. CASE limit >= offset + 8 /\ reads' = Further(offset + 1)
            BY <1>0, <1>a, <1>b, <2>0, <3>1
        <3>2. CASE UNCHANGED reads
            BY <1>0, <3>2
        <3> QED
            BY <1>6, <3>1, <3>2 DEF LastHeader
    <2>2. /\ info'.payload = info.payload /\ info'.fragmentPayload = info.fragmentPayload
          /\ info'.version = info.version /\ pc' \in {"transport", "done"}
        BY <1>6, <1>d DEF LastHeader
    <2> QED
        BY <1>c, <2>0, <2>1, <2>2 DEF Bounds, ReadsInside, Claimed
<1>7. CASE ParseTransport
    <2>0. /\ pc' = "done" /\ frame' = frame
          /\ offset <= limit /\ limit <= frame.captured
        BY <1>7 DEF ParseTransport, Bounds
    <2>1. reads' <= frame.captured
        <3>1. CASE parse_tcp
            BY <1>0, <1>a, <1>b, <2>0, <3>1 DEF parse_tcp
        <3>2. CASE parse_udp
            BY <1>0, <1>a, <1>b, <2>0, <3>2 DEF parse_udp
        <3>3. CASE parse_icmp_payload
            BY <1>0, <1>a, <1>b, <2>0, <3>3 DEF parse_icmp_payload
        <3> QED
            BY <1>0, <1>7, <3>1, <3>2, <3>3 DEF ParseTransport
    <2>2. /\ info'.fragmentPayload = info.fragmentPayload
          /\ info'.payload.start + info'.payload.length <= frame.captured
        <3>1. info'.payload \in OctetRange
            BY TypeStep DEF TypeOK, InfoType
        <3>2. info'.payload.start + info'.payload.length \in Nat
            BY <3>1 DEF OctetRange
        <3>3. info'.payload.start + info'.payload.length <= limit
            BY <1>7, TransportPayload
        <3> QED
            BY <1>0, <1>7, <1>a, <2>0, <3>2, <3>3, TransportPayload
    <2> QED
        BY <1>c, <2>0, <2>1, <2>2 DEF Bounds, ReadsInside
<1>8. CASE UNCHANGED vars
    BY <1>8 DEF vars, Bounds, ReadsInside, Claimed
<1> QED
    BY <1>1, <1>2, <1>3, <1>4, <1>5, <1>6, <1>7, <1>8 DEF Next, Step, Done

(* The payload is set once, by the transport step.                         *)
LEMMA PayloadStep ==
    ASSUME TypeOK, Bounds, Payload, Walk, [Next]_vars
    PROVE  Payload'
<1>0. info \in InfoType /\ PayloadInDatagram
    BY DEF TypeOK, Payload
<1>a. pc # "done" => info.payload = NoRange /\ ~info.ports /\ ~info.icmp
    BY DEF Payload
<1> USE DEF Networks
<1>1. CASE select_network_layer
    BY <1>1 DEF select_network_layer, Payload, PayloadInDatagram
<1>2. CASE parse_arp_packet
    <2>1. info'.payload = info.payload /\ pc = "ARP" /\ pc' = "done"
        BY <1>0, <1>2 DEF parse_arp_packet, InfoType
    <2> QED
        BY <1>a, <2>1 DEF Payload, PayloadInDatagram
<1>3. CASE parse_ipv4_packet
    <2>1. /\ info'.payload = info.payload /\ info'.ports = info.ports /\ info'.icmp = info.icmp
          /\ pc = "IPV4"
        BY <1>0, <1>3 DEF parse_ipv4_packet, InfoType
    <2>2. pc' \in {"done", "transport"}
        BY <1>3 DEF parse_ipv4_packet
    <2> QED
        BY <1>a, <2>1, <2>2 DEF Payload, PayloadInDatagram
<1>4. CASE parse_ipv6_packet
    <2>1. /\ info'.payload = info.payload /\ info'.ports = info.ports /\ info'.icmp = info.icmp
          /\ pc = "IPV6"
        BY <1>0, <1>4 DEF parse_ipv6_packet, InfoType
    <2>2. pc' \in {"done", "extensions"}
        BY <1>4 DEF parse_ipv6_packet
    <2> QED
        BY <1>a, <2>1, <2>2 DEF Payload, PayloadInDatagram
<1>b. \A k, r : EndOfChain(k, r) =>
         /\ info'.payload = info.payload /\ info'.ports = info.ports /\ info'.icmp = info.icmp
         /\ pc' \in {"transport", "done"}
    BY <1>0 DEF EndOfChain, InfoType
<1>5. CASE ExtensionHeader
    <2>1. /\ info'.payload = info.payload /\ info'.ports = info.ports /\ info'.icmp = info.icmp
          /\ pc = "extensions"
          /\ pc' \in {"extensions", "transport", "done"}
        BY <1>5, <1>b DEF ExtensionHeader, SkipHeader
    <2> QED
        BY <1>a, <2>1 DEF Payload, PayloadInDatagram
<1>6. CASE LastHeader
    <2>1. /\ info'.payload = info.payload /\ info'.ports = info.ports /\ info'.icmp = info.icmp
          /\ pc = "extensions" /\ pc' \in {"transport", "done"}
        BY <1>6, <1>b DEF LastHeader
    <2> QED
        BY <1>a, <2>1 DEF Payload, PayloadInDatagram
<1>7. CASE ParseTransport
    <2>1. /\ pc' = "done" /\ frame' = frame
          /\ limit \in Nat /\ limit <= Claimed /\ info'.version = info.version
        BY <1>7, TransportPayload DEF ParseTransport, Bounds, TypeOK
    <2>2. Claimed \in Nat /\ Claimed' = Claimed
        BY <2>1, FrameFacts DEF Claimed
    <2>3. info'.payload.start + info'.payload.length \in Nat
        BY TypeStep DEF TypeOK, InfoType, OctetRange
    <2>4. info'.payload.start + info'.payload.length <= Claimed'
        BY <1>7, <2>1, <2>2, <2>3, TransportPayload
    <2> QED
        BY <1>7, <2>1, <2>4, TransportPayload DEF Payload, PayloadInDatagram, Claimed
<1>8. CASE UNCHANGED vars
    BY <1>8 DEF vars, Payload, PayloadInDatagram
<1> QED
    BY <1>1, <1>2, <1>3, <1>4, <1>5, <1>6, <1>7, <1>8 DEF Next, Step, Done

(* Each skipped header names the next one.                                 *)
LEMMA WalkStep ==
    ASSUME TypeOK, Bounds, Payload, Walk, [Next]_vars
    PROVE  Walk'
<1> USE DEF Networks
<1>1. CASE select_network_layer
    <2>1. pc' # "extensions"
        BY <1>1, FrameFacts, ParserAssumption
        DEF select_network_layer, Network, TypeOK, FrameType, LinkLength
    <2> QED
        BY <1>1, <2>1 DEF select_network_layer, Walk
<1>2. CASE parse_arp_packet
    BY <1>2 DEF parse_arp_packet, Walk
<1>3. CASE parse_ipv4_packet
    BY <1>3 DEF parse_ipv4_packet, Walk
<1>4. CASE parse_ipv6_packet
    <2>1. CASE pc' = "done"
        BY <2>1 DEF Walk
    <2>2. CASE info' = [info EXCEPT !.version = 6] /\ next' = frame.next
        <3>1. info'.version = 6
            BY <2>2 DEF TypeOK, InfoType
        <3>2. header' = 0 /\ frame' = frame /\ Len(frame.chain) \in Nat
            BY <1>4, FrameFacts DEF parse_ipv6_packet, Walk, Networks
        <3> QED
            BY <2>2, <3>1, <3>2 DEF Walk, KindAt
    <2> QED
        BY <1>4, <2>1, <2>2 DEF parse_ipv6_packet
<1>5. CASE ExtensionHeader
    <2>1. CASE SkipHeader
        <3>1. /\ pc = "extensions" /\ pc' = pc /\ next \in Skippable /\ frame' = frame
              /\ header' = header + 1 /\ next' = frame.chain[header + 1].next /\ info' = info
            BY <1>5, <2>1 DEF ExtensionHeader, SkipHeader
        <3>2. header + 1 \in 1..Len(frame.chain)
            BY <3>1, ChainFacts
        <3>3. header \in Nat /\ next = KindAt(header + 1)
            BY <3>1 DEF TypeOK, Walk
        <3>4. next' = KindAt(header + 1)'
            BY <3>1, <3>3 DEF KindAt
        <3>5. \A i \in 1..header : KindAt(i) \in Skippable
            BY <3>1 DEF Walk
        <3>6. \A i \in 1..header' : KindAt(i)' \in Skippable
            BY <3>1, <3>3, <3>5 DEF KindAt
        <3>7. info'.version = 6 /\ header' <= Len(frame.chain)
            BY <3>1, <3>2 DEF Walk
        <3> QED
            BY <3>1, <3>4, <3>6, <3>7 DEF Walk
    <2>2. CASE pc' \in {"transport", "done"}
        BY <2>2 DEF Walk
    <2> QED
        BY <1>5, <2>1, <2>2 DEF ExtensionHeader, EndOfChain
<1>6. CASE LastHeader
    <2>1. pc' \in {"transport", "done"}
        BY <1>6 DEF LastHeader, EndOfChain
    <2> QED
        BY <2>1 DEF Walk
<1>7. CASE ParseTransport
    BY <1>7 DEF ParseTransport, Walk
<1>8. CASE UNCHANGED vars
    BY <1>8 DEF vars, Walk, KindAt
<1> QED
    BY <1>1, <1>2, <1>3, <1>4, <1>5, <1>6, <1>7, <1>8 DEF Next, Step, Done
----------------------------------------------------------------------------
(* The extension header at an index of the chain.                          *)
LEMMA ChainElement ==
    ASSUME TypeOK, NEW i \in 1..Len(frame.chain)
    PROVE  frame.chain[i].units \in 0..255 /\ frame.chain[i].next \in Kinds
<1>1. \A S : \A s \in Seq(S) : \A j \in 1..Len(s) : s[j] \in S
    OBVIOUS
<1>2. frame.chain \in Seq([units : 0..255, next : Kinds])
    BY FrameFacts
<1>3. frame.chain[i] \in [units : 0..255, next : Kinds]
    BY <1>1, <1>2
<1> QED
    BY <1>3

(* Where each header starts: the recursion that defines it has a solution, *)
(* and adds the length that the parser computes for the header before.     *)
LEMMA StartAtDef ==
    ASSUME TypeOK
    PROVE  /\ Len(frame.chain) \in Nat
           /\ StartAt \in [1..(Len(frame.chain) + 1) -> Int]
           /\ StartAt[1] = LinkLength[frame.link] + 40
           /\ \A i \in 1..Len(frame.chain) :
                 StartAt[i + 1] =
                     StartAt[i] + ipv6_extension_header_length(frame.chain[i], KindAt(i))
<1> DEFINE N == Len(frame.chain)
           a == LinkLength[frame.link] + 40
           b == [i \in 1..N |-> ipv6_extension_header_length(frame.chain[i], KindAt(i))]
           body(g) == [i \in 1..(N + 1) |->
               IF i = 1 THEN LinkLength[frame.link] + 40
               ELSE g[i - 1] + (IF KindAt(i - 1) = "AH" THEN 4 * (frame.chain[i - 1].units + 2)
                                ELSE 8 * (frame.chain[i - 1].units + 1))]
<1>0. N \in Nat /\ a \in Int
    BY FrameFacts
<1>1. b \in [1..N -> Int]
    <2> SUFFICES ASSUME NEW i \in 1..N
                 PROVE  ipv6_extension_header_length(frame.chain[i], KindAt(i)) \in Nat
        OBVIOUS
    <2> QED
        BY ChainElement, HeaderLengthType
<1>2. \A i \in 1..N : b[i] = IF KindAt(i) = "AH" THEN 4 * (frame.chain[i].units + 2)
                             ELSE 8 * (frame.chain[i].units + 1)
    <2> SUFFICES ASSUME NEW i \in 1..N
                 PROVE  b[i] = IF KindAt(i) = "AH" THEN 4 * (frame.chain[i].units + 2)
                               ELSE 8 * (frame.chain[i].units + 1)
        OBVIOUS
    <2>1. \A u \in 0..255 : (u + 2) * 4 = 4 * (u + 2) /\ (u + 1) * 8 = 8 * (u + 1)
        OBVIOUS
    <2>2. /\ (frame.chain[i].units + 2) * 4 = 4 * (frame.chain[i].units + 2)
          /\ (frame.chain[i].units + 1) * 8 = 8 * (frame.chain[i].units + 1)
        BY <2>1, ChainElement
    <2>3. b[i] = ipv6_extension_header_length(frame.chain[i], KindAt(i))
        OBVIOUS
    <2> QED
        BY <2>2, <2>3, Zenon DEF ipv6_extension_header_length
<1>3. \A i \in 1..N : b[i] = ipv6_extension_header_length(frame.chain[i], KindAt(i))
    OBVIOUS
<1> HIDE DEF a, b
<1>4. PICK g : RunningTotal(g, N + 1, a, b)
    <2> HIDE DEF N
    <2> QED BY <1>0, <1>1, RunningTotalExists
<1>5. /\ g \in [1..(N + 1) -> Int]
      /\ \A i \in 1..(N + 1) : g[i] = IF i = 1 THEN a ELSE g[i - 1] + b[i - 1]
    BY <1>4 DEF RunningTotal
<1>6. g = body(g)
    <2>1. ASSUME NEW i \in 1..(N + 1) PROVE g[i] = body(g)[i]
        <3>1. CASE i = 1
            BY <1>5, <3>1 DEF a
        <3>2. CASE i # 1
            <4>1. i - 1 \in 1..N
                BY <1>0, <3>2
            <4> QED
                BY <1>2, <1>5, <3>2, <4>1
        <3> QED
            BY <3>1, <3>2
    <2> QED
        BY <1>5, <2>1
<1>7. StartAt = CHOOSE h : h = body(h)
    BY DEF StartAt
<1>8. StartAt = body(StartAt)
    <2> HIDE DEF body
    <2>1. \E h : h = body(h)
        BY <1>6
    <2> QED
        BY <1>7, <2>1, Zenon
<1> DEFINE f == StartAt
<1>9. f = body(f)
    BY <1>8
<1> HIDE DEF f
<1>10. f[1] = a
    BY <1>0, <1>9 DEF a
<1>11. \A i \in 1..N : f[i + 1] = f[i] + b[i]
    <2> SUFFICES ASSUME NEW i \in 1..N PROVE f[i + 1] = f[i] + b[i]
        OBVIOUS
    <2>1. i + 1 \in 1..(N + 1) /\ i + 1 # 1 /\ (i + 1) - 1 = i
        BY <1>0
    <2> QED
        BY <1>2, <1>9, <2>1
<1>12. f \in [1..(N + 1) -> Int]
    <2>1. DOMAIN f = 1..(N + 1) /\ f = [i \in 1..(N + 1) |-> f[i]]
        BY <1>9
    <2> DEFINE S == {i \in 1..(N + 1) : f[i] \in Int}
    <2>2. 1 \in S
        BY <1>0, <1>10
    <2>3. \A i \in 1..(N + 1) : i \in S /\ i < N + 1 => i + 1 \in S
        <3> SUFFICES ASSUME NEW i \in 1..(N + 1), i \in S, i < N + 1 PROVE i + 1 \in S
            OBVIOUS
        <3>1. i \in 1..N /\ i + 1 \in 1..(N + 1)
            BY <1>0
        <3>2. f[i + 1] = f[i] + b[i] /\ f[i] \in Int /\ b[i] \in Int
            BY <1>1, <1>11, <3>1
        <3> QED
            BY <3>1, <3>2
    <2>4. N + 1 \in Nat /\ 1 \in Nat
        BY <1>0
    <2> HIDE DEF S
    <2>5. \A i \in 1..(N + 1) : i \in S
        BY <2>2, <2>3, <2>4, IntervalInduction
    <2> QED
        BY <2>1, <2>5 DEF S
<1> QED
    BY <1>0, <1>3, <1>10, <1>11, <1>12 DEF f, a

(* Later headers start further on.                                         *)
LEMMA StartAtGrows ==
    ASSUME TypeOK, NEW j \in 1..(Len(frame.chain) + 1)
    PROVE  \A k \in j..(Len(frame.chain) + 1) : StartAt[j] <= StartAt[k]
<1> DEFINE N == Len(frame.chain)
           S == {k \in j..(N + 1) : StartAt[j] <= StartAt[k]}
<1>1. N \in Nat /\ StartAt \in [1..(N + 1) -> Int]
    BY StartAtDef
<1>2. j \in S
    BY <1>1
<1>3. \A k \in j..(N + 1) : k \in S /\ k < N + 1 => k + 1 \in S
    <2> SUFFICES ASSUME NEW k \in j..(N + 1), k \in S, k < N + 1
                 PROVE  k + 1 \in S
        OBVIOUS
    <2>1. k \in 1..N /\ k + 1 \in j..(N + 1)
        BY <1>1
    <2>2. ipv6_extension_header_length(frame.chain[k], KindAt(k)) \in Nat
        BY <2>1, ChainElement, HeaderLengthType
    <2>3. StartAt[k + 1] = StartAt[k] + ipv6_extension_header_length(frame.chain[k], KindAt(k))
        BY <2>1, StartAtDef
    <2>4. StartAt[j] \in Int /\ StartAt[k] \in Int
        BY <1>1, <2>1
    <2> QED
        BY <2>1, <2>2, <2>3, <2>4
<1>4. j \in Nat /\ N + 1 \in Nat
    BY <1>1
<1> HIDE DEF S, N
<1>5. \A k \in j..(N + 1) : k \in S
    BY <1>2, <1>3, <1>4, IntervalInduction
<1> QED
    BY <1>5 DEF S, N

(* The header the walk is meant to stop at.                                *)
LastOfChain ==
    CHOOSE i \in 1..(Len(frame.chain) + 1) :
        /\ KindAt(i) \notin Skippable
        /\ \A j \in 1..(i - 1) : KindAt(j) \in Skippable

(* There is exactly one: the first that is not skipped.                    *)
LEMMA LastOfChainUnique ==
    ASSUME TypeOK
    PROVE  /\ LastOfChain \in 1..(Len(frame.chain) + 1)
           /\ KindAt(LastOfChain) \notin Skippable
           /\ \A j \in 1..(LastOfChain - 1) : KindAt(j) \in Skippable
           /\ \A i \in 1..(Len(frame.chain) + 1) :
                 /\ KindAt(i) \notin Skippable
                 /\ \A j \in 1..(i - 1) : KindAt(j) \in Skippable
                 => i = LastOfChain
<1> DEFINE N == Len(frame.chain)
           T == {i \in 1..(N + 1) : KindAt(i) \notin Skippable}
<1>1. N \in Nat
    BY FrameFacts
<1>2. N + 1 \in T
    <2>1. (IF frame.chain = <<>> THEN frame.next ELSE frame.chain[N].next)
              \notin Skippable \cup {"FRAGMENT"}
        BY ParserAssumption DEF TypeOK
    <2>2. frame.chain = <<>> <=> N = 0
        BY FrameFacts
    <2>3. KindAt(N + 1) = IF N = 0 THEN frame.next ELSE frame.chain[N].next
        BY <1>1 DEF KindAt
    <2> QED
        BY <1>1, <2>1, <2>2, <2>3
<1>3. T \in SUBSET Nat /\ T # {}
    BY <1>1, <1>2
<1>4. PICK n \in T : \A m \in T : n <= m
    BY <1>3, LeastNumber
<1>5. /\ n \in 1..(N + 1) /\ KindAt(n) \notin Skippable
      /\ \A j \in 1..(n - 1) : KindAt(j) \in Skippable
    <2>1. ASSUME NEW j \in 1..(n - 1) PROVE KindAt(j) \in Skippable
        <3>1. j \in 1..(N + 1) /\ ~(n <= j)
            BY <1>1
        <3> QED
            BY <1>4, <3>1
    <2> QED
        BY <2>1
<1>6. /\ LastOfChain \in 1..(N + 1)
      /\ KindAt(LastOfChain) \notin Skippable
      /\ \A j \in 1..(LastOfChain - 1) : KindAt(j) \in Skippable
    BY <1>5, Zenon DEF LastOfChain
<1>7. ASSUME NEW i \in 1..(N + 1), KindAt(i) \notin Skippable,
             \A j \in 1..(i - 1) : KindAt(j) \in Skippable
      PROVE  i = LastOfChain
    <2>1. ~(i < LastOfChain)
        BY <1>1, <1>6, <1>7
    <2>2. ~(LastOfChain < i)
        BY <1>1, <1>6, <1>7
    <2> QED
        BY <1>1, <1>6, <2>1, <2>2
<1> QED
    BY <1>6, <1>7

(* What TransportFound says, of the header the walk is meant to stop at.   *)
FoundAt(i) ==
    /\ pc = "transport" => StartAt[i] <= limit /\ KindAt(i) \notin Hidden
    /\ pc = "done" => (info.ports \/ info.icmp => StartAt[i] <= limit /\ KindAt(i) \notin Hidden)
    /\ StartAt[i] <= limit /\ KindAt(i) \notin Hidden =>
          offset = StartAt[i] /\ info.protocol = set_ip_protocol(KindAt(i))

(* TransportFound is that statement.                                       *)
LEMMA FoundAtLast ==
    TransportFound <=>
        ((pc = "transport" \/ pc = "done") /\ info.version = 6 => FoundAt(LastOfChain))
BY DEF TransportFound, FoundAt, LastOfChain

(* The parser does not change the frame, hence nothing defined from it.    *)
LEMMA FrameKept ==
    ASSUME [Next]_vars
    PROVE  /\ frame' = frame /\ StartAt' = StartAt /\ LastOfChain' = LastOfChain
           /\ \A i : KindAt(i)' = KindAt(i)
<1>1. frame' = frame
    BY DEF Next, Step, Done, vars, select_network_layer, parse_arp_packet, parse_ipv4_packet,
           parse_ipv6_packet, ExtensionHeader, LastHeader, ParseTransport
<1>2. StartAt' = StartAt
    BY <1>1 DEF StartAt, KindAt
<1>3. LastOfChain' = LastOfChain
    BY <1>1 DEF LastOfChain, KindAt
<1> QED
    BY <1>1, <1>2, <1>3 DEF KindAt

(* Skipping a header leads to where the next one starts.                   *)
LEMMA PositionStep ==
    ASSUME TypeOK, Bounds, Payload, Walk, Position, [Next]_vars
    PROVE  Position'
<1> USE DEF Networks
<1>0. frame' = frame /\ StartAt' = StartAt
    BY FrameKept
<1>1. CASE select_network_layer
    <2>1. pc' # "extensions"
        BY <1>1, FrameFacts, ParserAssumption
        DEF select_network_layer, Network, TypeOK, FrameType, LinkLength
    <2> QED
        BY <2>1 DEF Position
<1>2. CASE parse_arp_packet \/ parse_ipv4_packet \/ ParseTransport
    BY <1>2 DEF parse_arp_packet, parse_ipv4_packet, ParseTransport, Position
<1>3. CASE parse_ipv6_packet
    <2>1. CASE pc' = "done"
        BY <2>1 DEF Position
    <2>2. CASE offset' = offset + 40
        <3>1. header' = 0 /\ offset = LinkLength[frame.link]
            BY <1>3 DEF parse_ipv6_packet, Walk, Bounds
        <3>2. StartAt[1] = LinkLength[frame.link] + 40
            BY StartAtDef
        <3> QED
            BY <1>0, <2>2, <3>1, <3>2 DEF Position
    <2> QED
        BY <1>3, <2>1, <2>2 DEF parse_ipv6_packet
<1>4. CASE ExtensionHeader
    <2>1. CASE SkipHeader
        <3>1. /\ pc = "extensions" /\ next \in Skippable /\ header' = header + 1
              /\ offset' = offset
                     + ipv6_extension_header_length(frame.chain[header + 1], next)
            BY <1>4, <2>1 DEF ExtensionHeader, SkipHeader
        <3>2. /\ header + 1 \in 1..Len(frame.chain) /\ next = KindAt(header + 1)
              /\ offset = StartAt[header + 1]
            BY <3>1, ChainFacts DEF Walk, Position
        <3>3. StartAt[(header + 1) + 1] = offset'
            BY <3>1, <3>2, StartAtDef
        <3> QED
            BY <1>0, <3>1, <3>3 DEF Position
    <2>2. CASE pc' \in {"transport", "done"}
        BY <2>2 DEF Position
    <2> QED
        BY <1>4, <2>1, <2>2 DEF ExtensionHeader, EndOfChain
<1>5. CASE LastHeader
    <2>1. pc' \in {"transport", "done"}
        BY <1>5 DEF LastHeader, EndOfChain
    <2> QED
        BY <2>1 DEF Position
<1>6. CASE UNCHANGED vars
    BY <1>0, <1>6 DEF vars, Position
<1> QED
    BY <1>1, <1>2, <1>3, <1>4, <1>5, <1>6 DEF Next, Step, Done

(* The walk stops at the first header it does not skip, or in front of one *)
(* that the datagram does not hold: then it does not hold the transport    *)
(* either.                                                                 *)
LEMMA FoundStep ==
    ASSUME TypeOK, Bounds, Payload, Walk, Position, TransportFound, [Next]_vars
    PROVE  TransportFound'
<1>0. /\ StartAt' = StartAt /\ LastOfChain' = LastOfChain
      /\ \A i : KindAt(i)' = KindAt(i)
    BY FrameKept
<1>a. info \in InfoType /\ limit \in Nat
    BY DEF TypeOK
<1>b. TransportFound' <=>
         ((pc' = "transport" \/ pc' = "done") /\ info'.version = 6 => FoundAt(LastOfChain)')
    BY DEF TransportFound, FoundAt, LastOfChain
<1> USE DEF Networks
<1>1. CASE select_network_layer
    <2>1. info'.version = 0
        BY <1>1, InitialInfo DEF select_network_layer, Payload
    <2> QED
        BY <1>b, <2>1
<1>2. CASE parse_arp_packet
    <2>1. info.version = 0
        BY <1>2, InitialInfo DEF parse_arp_packet, Payload
    <2>2. info'.version = info.version
        BY <1>2, <1>a DEF parse_arp_packet, InfoType
    <2> QED
        BY <1>b, <2>1, <2>2
<1>3. CASE parse_ipv4_packet
    <2>1. info.version = 0
        BY <1>3, InitialInfo DEF parse_ipv4_packet, Payload
    <2>2. info'.version \in {info.version, 4}
        BY <1>3, <1>a DEF parse_ipv4_packet, InfoType
    <2> QED
        BY <1>b, <2>1, <2>2
<1>4. CASE parse_ipv6_packet
    <2>1. info.version = 0
        BY <1>4, InitialInfo DEF parse_ipv6_packet, Payload
    <2>2. info' = info \/ pc' = "extensions"
        BY <1>4 DEF parse_ipv6_packet
    <2> QED
        BY <1>b, <2>1, <2>2
<1>5. CASE ExtensionHeader
    <2>1. CASE SkipHeader
        <3>1. pc' = "extensions"
            BY <1>5, <2>1 DEF ExtensionHeader, SkipHeader
        <3> QED
            BY <1>b, <3>1
    <2>2. CASE HeaderCut /\ EndOfChain(next, FALSE)
        <3> DEFINE h == header + 1
                   length == ipv6_extension_header_length(frame.chain[h], next)
                   last == LastOfChain
        <3>1. /\ pc = "extensions" /\ next \in Skippable /\ limit' = limit
              /\ header \in Nat /\ offset \in Nat
            BY <1>5 DEF ExtensionHeader, TypeOK
        <3>2. /\ h \in 1..Len(frame.chain) /\ next = KindAt(h) /\ offset = StartAt[h]
              /\ frame.chain[h].units \in 0..255
            BY <3>1, ChainFacts DEF Walk, Position
        <3>3. length \in Nat /\ length >= 8
            <4>1. \A u \in 0..255 : (u + 2) * 4 >= 8 /\ (u + 1) * 8 >= 8
                OBVIOUS
            <4> QED
                BY <3>2, <4>1, HeaderLengthType DEF ipv6_extension_header_length
        <3>4. limit < offset + length
            BY <1>a, <2>2, <3>1, <3>3 DEF HeaderCut, HeaderReadable
        <3>5. StartAt[h + 1] = offset + length
            BY <3>2, StartAtDef
        <3>6. last \in (h + 1)..(Len(frame.chain) + 1)
            <4>1. \A i \in 1..h : KindAt(i) \in Skippable
                BY <3>1, <3>2 DEF Walk
            <4>2. last \in 1..(Len(frame.chain) + 1) /\ last \notin 1..h
                BY <4>1, LastOfChainUnique
            <4> QED
                BY <3>2, <4>2, FrameFacts
        <3>7. StartAt[h + 1] <= StartAt[last]
            BY <3>2, <3>6, FrameFacts, StartAtGrows
        <3>8. StartAt[last] \in Int
            BY SMTT(30), <3>6, StartAtDef, FrameFacts, <3>2
        <3>9. ~(StartAt[last] <= limit)
            BY <1>a, <3>1, <3>3, <3>4, <3>5, <3>7, <3>8
        <3>10. /\ pc' = "done" /\ ~info'.ports /\ ~info'.icmp
            BY <1>a, <2>2, <3>1 DEF EndOfChain, InfoType, Payload
        <3> HIDE DEF last
        <3>11. FoundAt(last)'
            BY <1>0, <3>1, <3>9, <3>10 DEF FoundAt, last
        <3> QED
            BY <1>b, <3>11 DEF last
    <2> QED
        BY <1>5, <2>1, <2>2 DEF ExtensionHeader
<1>6. CASE LastHeader
    <2> DEFINE h == header + 1
    <2>1. /\ pc = "extensions" /\ next \notin Skippable
          /\ limit' = limit /\ offset' = offset
        BY <1>6 DEF LastHeader
    <2>2. /\ h \in 1..(Len(frame.chain) + 1) /\ next = KindAt(h) /\ offset = StartAt[h]
          /\ \A i \in 1..(h - 1) : KindAt(i) \in Skippable
        BY <2>1, FrameFacts DEF Walk, Position, TypeOK
    <2>3. h = LastOfChain
        BY <2>1, <2>2, LastOfChainUnique
    <2> HIDE DEF h
    <2>4. StartAt[h] <= limit
        BY <2>1, <2>2 DEF Bounds
    <2>5. CASE next = "FRAGMENT" /\ pc' = "done"
        <3>1. ~info'.ports /\ ~info'.icmp /\ KindAt(h) \in Hidden
            BY <1>6, <1>a, <2>1, <2>2, <2>5
            DEF LastHeader, EndOfChain, InfoType, Payload, Hidden
        <3>2. FoundAt(LastOfChain)'
            BY <1>0, <2>3, <2>5, <3>1 DEF FoundAt
        <3> QED
            BY <1>b, <3>2
    <2>6. CASE EndOfChain(next, next \notin Hidden)
        <3>1. /\ info'.protocol = set_ip_protocol(next) /\ ~info'.ports /\ ~info'.icmp
              /\ pc' = IF next \notin Hidden THEN "transport" ELSE "done"
            BY <1>a, <2>1, <2>6 DEF EndOfChain, InfoType, Payload
        <3>2. FoundAt(LastOfChain)'
            BY <1>0, <2>1, <2>2, <2>3, <2>4, <3>1 DEF FoundAt
        <3> QED
            BY <1>b, <3>2
    <2> QED
        BY <1>6, <2>5, <2>6 DEF LastHeader, EndOfChain
<1>7. CASE ParseTransport
    <2>1. /\ pc = "transport" /\ limit' = limit /\ offset' = offset
          /\ info'.version = info.version
        BY <1>7, TransportPayload DEF ParseTransport
    <2>2. info'.protocol = info.protocol
        <3>1. CASE parse_tcp
            BY <1>a, <3>1 DEF parse_tcp, InfoType
        <3>2. CASE parse_udp
            BY <1>a, <3>2 DEF parse_udp, InfoType
        <3>3. CASE parse_icmp_payload
            BY <1>a, <3>3 DEF parse_icmp_payload, InfoType
        <3> QED
            BY <1>7, <3>1, <3>2, <3>3 DEF ParseTransport
    <2>3. ASSUME info.version = 6 PROVE FoundAt(LastOfChain)'
        <3>1. FoundAt(LastOfChain)
            BY <2>1, <2>3, FoundAtLast
        <3> QED
            BY <1>0, <2>1, <2>2, <3>1 DEF FoundAt
    <2> QED
        BY <1>b, <2>1, <2>3
<1>8. CASE UNCHANGED vars
    BY <1>0, <1>8, <1>b, FoundAtLast DEF vars, FoundAt
<1> QED
    BY <1>1, <1>2, <1>3, <1>4, <1>5, <1>6, <1>7, <1>8 DEF Next, Step, Done
----------------------------------------------------------------------------
(* Before the link header nothing has been read.                           *)
LEMMA IInvInit == Init => IInv
<1> SUFFICES ASSUME Init PROVE IInv
    OBVIOUS
<1> USE DEF Init
<1>1. TypeOK
    BY InitialInfo DEF TypeOK, PcValues, Kinds
<1>2. Bounds
    <2>1. frame.captured \in Nat
        BY <1>1, FrameFacts
    <2> QED
        BY <2>1, InitialInfo DEF Bounds, ReadsInside, Networks, NoRange
<1>3. Payload
    BY InitialInfo DEF Payload, PayloadInDatagram, initialize_packet_info
<1>4. Walk /\ Position /\ TransportFound
    BY DEF Walk, Position, TransportFound
<1> QED
    BY <1>1, <1>2, <1>3, <1>4 DEF IInv

(* The invariant is inductive.                                             *)
LEMMA IInvStep == IInv /\ [Next]_vars => IInv'
BY TypeStep, BoundsStep, PayloadStep, WalkStep, PositionStep, FoundStep DEF IInv

(* The inductive invariant holds throughout.                               *)
LEMMA Invariance == Spec => []IInv
BY IInvInit, IInvStep, PTL DEF Spec

(* For every frame, the parser reads and hands on only octets that were    *)
(* captured, whatever the lengths in the headers say.                      *)
THEOREM ReadsAreInside == Spec => []ReadsInside
<1>1. IInv => ReadsInside
    BY DEF IInv, Bounds
<1> QED
    BY <1>1, Invariance, PTL

(* For every frame, a payload lies inside its datagram and comes with the  *)
(* ports and sequence number that the flow table needs.                    *)
THEOREM PayloadIsInside == Spec => []PayloadInDatagram
<1>1. IInv => PayloadInDatagram
    BY DEF IInv, Payload
<1> QED
    BY <1>1, Invariance, PTL

(* For every chain of IPv6 extension headers, of any length, the transport *)
(* is parsed exactly when the datagram holds the whole chain, and where    *)
(* the chain ends.                                                         *)
THEOREM FindsTransport == Spec => []TransportFound
<1>1. IInv => TransportFound
    BY DEF IInv
<1> QED
    BY <1>1, Invariance, PTL
============================================================================
