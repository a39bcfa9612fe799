----------------------------- MODULE AppStream -----------------------------
(***************************************************************************)
(* From octets to a classified flow and its log lines: the decoders of     *)
(* AppDecoder as the capture loop uses them (src/capture.c:474-535 and     *)
(* 739-792) on a TCP stream that grows segment by segment, or on one UDP   *)
(* datagram, and the texts of OutputText that are printed of the result.   *)
(*                                                                         *)
(* The stream is what TcpReassembly delivers: octets in order from the     *)
(* first segment seen, which need not be the first one sent. Every growth  *)
(* decodes the whole stream again until the flow is classified; each       *)
(* segment is also decoded by itself, as far as the decode window goes.    *)
(***************************************************************************)
EXTENDS AppDecoder, OutputText

CONSTANTS
    Traffic,        \* what may be sent, see below
    Begins,         \* where in the stream the capture may begin
    SegmentSizes,   \* sizes a segment may have
    Windows,        \* payload_decode_length may be cut to one of these
    PreviewBytes    \* payload_preview_limit

(* A message has its transport, its two ports (as classes), its octets and *)
(* app, which a correct decoder must find in them; app is Unknown when the *)
(* octets are not a well-formed message.                                   *)
ASSUME TrafficAssumption ==
    /\ \A t \in Traffic : /\ t.transport \in {"tcp", "udp"}
                          /\ t.octets \in Seq(0..255) /\ t.octets # <<>>
    /\ Begins \subseteq Nat /\ SegmentSizes \subseteq Nat \ {0} /\ Windows \subseteq Nat
    /\ PreviewBytes \in Nat

VARIABLES
    sent,           \* the message on the wire
    window,         \* how many octets of a payload the packet decoder sees
    begin, end,     \* the octets seen so far: sent.octets[begin .. end-1]
    flow,           \* app of FlowInfo, what classified it, and how long it was then
    packet          \* app and app_decode_status of the last packet

streamVars == <<sent, window, begin, end, flow, packet>>

Unclassified == [app |-> Unknown, by |-> "none", octets |-> <<>>]

StreamInit ==
    /\ sent \in Traffic /\ window \in Windows
    /\ begin \in {b \in Begins : b < Len(sent.octets) /\ (sent.transport = "udp" => b = 0)}
    /\ end = begin
    /\ flow = Unclassified
    /\ packet = [app |-> Unknown, status |-> "NOT_RUN", octets |-> <<>>]

DecodePacket(octets) ==
    LET seen == Bytes(octets, 0, Min({window, Len(octets)}))
        Packet(v) == [app |-> v.app, octets |-> seen,
                      status |-> app_decode_status_from_result(v, Len(seen) < Len(octets))]
    IN  Packet(app_decode_packet(sent.transport, sent.ports, seen))

\* flow_decode_stream_app: an unclassified flow takes what the stream says.
StreamDecoded(stream) ==
    LET Flow(v) == IF flow.by = "none" /\ v.result = "OK"
                   THEN [app |-> v.app, by |-> "stream", octets |-> stream] ELSE flow
    IN  Flow(app_decode_stream(sent.ports, stream))

\* The packet decoder comes second and may classify the flow as well.
PacketDecoded(f, p) ==
    IF f.by = "none" /\ p.status = "DECODED"
    THEN [app |-> p.app, by |-> "packet", octets |-> p.octets] ELSE f

Segment(n) ==
    /\ sent.transport = "tcp" /\ end + n <= Len(sent.octets)
    /\ end' = end + n
    /\ packet' = DecodePacket(Bytes(sent.octets, end, n))
    /\ flow' = PacketDecoded(StreamDecoded(Bytes(sent.octets, begin, end + n - begin)), packet')
    /\ UNCHANGED <<sent, window, begin>>

\* Flows are kept for TCP only (flow_key_from_packet).
Datagram ==
    /\ sent.transport = "udp" /\ end = 0
    /\ end' = Len(sent.octets)
    /\ packet' = DecodePacket(sent.octets)
    /\ UNCHANGED <<sent, window, begin, flow>>

Done == (\A n \in SegmentSizes : end + n > Len(sent.octets)) /\ UNCHANGED streamVars

StreamNext == (\E n \in SegmentSizes : Segment(n)) \/ Datagram \/ Done

StreamSpec == StreamInit /\ [][StreamNext]_streamVars

\* The metadata and the payload printed and logged with the last packet.
Preview == SubSeq(packet.octets, 1, Min({Len(packet.octets), PreviewBytes}))
Shown == IF packet.app # Unknown THEN packet.app ELSE flow.app
----------------------------------------------------------------------------
(* However a well-formed message is cut into segments, the flow is         *)
(* classified when all of it has arrived, and what the flow was given is   *)
(* what was sent: never a part of it, nor the fields of another protocol   *)
(* tried before. (A segment in the middle that happens to look like a      *)
(* message of its own may still classify the flow by itself.)              *)
ClassifiedAsSent ==
    sent.transport = "tcp" /\ begin = 0 /\ sent.app # Unknown =>
        /\ flow.by = "stream" \/ (flow.by = "packet" /\ IsPrefix(flow.octets, sent.octets))
              => flow.app = sent.app
        /\ end = Len(sent.octets) => flow.by # "none"

(* The verdict on a stream is final: octets that arrive later, in the same *)
(* record, the next record or the body, never change what was decoded, so  *)
(* the classification does not depend on where segments were cut. And a    *)
(* datagram cut by the decode window is decoded only to what all of it     *)
(* says, apart from DHCP options that were cut off: they are missing, or   *)
(* an earlier option of the same kind is shown in their place.             *)
VerdictFinal ==
    /\ flow.by = "stream" =>
          \A k \in end..Len(sent.octets) :
              app_decode_stream(sent.ports, Bytes(sent.octets, begin, k - begin)).app = flow.app
    /\ sent.transport = "udp" /\ packet.status = "DECODED" =>
          LET Repeatable == {"message_type", "requested_ip"}
              PartOf(whole) ==
                  /\ packet.app.protocol = whole.protocol
                  /\ \A f \in DOMAIN packet.app.fields :
                        /\ f \in DOMAIN whole.fields
                        /\ f \notin Repeatable => whole.fields[f] = packet.app.fields[f]
          IN  PartOf(app_decode_packet("udp", sent.ports, sent.octets).app)

(* The two sniffing paths agree: what the packet decoder recognises in a   *)
(* segment, the stream decoder given the same octets recognises as well,   *)
(* or still waits for more; it never names another protocol or other       *)
(* metadata, although the two try signatures in different ways. The one    *)
(* exception is a method name without a space behind it, which only the    *)
(* stream decoder takes for the start of a request.                        *)
PacketAgreesWithStream ==
    sent.transport = "tcp" /\ packet.status = "DECODED"
        /\ (maybe_http_request_prefix(packet.octets) => payload_starts_with_http(packet.octets)) =>
        LET Agrees(v) == v.result = "NEED_MORE" \/ (v.result = "OK" /\ v.app = packet.app)
        IN  Agrees(app_decode_stream(sent.ports, packet.octets))

(* A CSV row is one line that a CSV reader splits into its columns again,  *)
(* whatever quotes, commas or control octets the metadata contains; no     *)
(* cell starts a formula; and except for backslashes and leading           *)
(* apostrophes, which are not escaped, a cell gives back its text.         *)
CsvRowIntact ==
    LET Content(c) == IF IsPrefix(<<Apostrophe>>, c) /\ csv_text_needs_formula_prefix(Tail(c))
                      THEN Tail(c) ELSE c
        Plain(t) == Backslash \notin ToSet(t) /\ ~IsPrefix(<<Apostrophe>>, t)
        Harmless(cells) == \A c \in ToSet(cells) :
                               ~csv_text_needs_formula_prefix(c) /\ ToSet(c) \subseteq Printable
        AppRow(cells) ==
            /\ Len(cells) = Len(AppColumns) /\ Harmless(cells)
            /\ \A i \in 1..Len(cells) :
                  LET t == Column(Shown, AppColumns[i])
                  IN  Plain(t) => Unescaped(Content(cells[i])) = t
        LegacyRow(cells) == Len(cells) = 2 /\ Harmless(cells)
    IN  AppRow(CsvCells(write_app_packet(Shown))) /\ LegacyRow(CsvCells(write_legacy_packet(Preview)))

(* Terminal and JSON text are lossless: reading the escapes gives back the *)
(* octets of the metadata. No control octet reaches the terminal, and no   *)
(* quote inside a JSON string ends it.                                     *)
TextIntact ==
    \A f \in DOMAIN Shown.fields :
        LET t == Shown.fields[f]
        IN  /\ Unescaped(print_escaped_text(t)) = t
            /\ ToSet(print_escaped_text(t)) \subseteq Printable
            /\ JsonContent(print_json_string(t)) = t
            /\ \A o \in ToSet(print_json_string(t)) : o >= 32 /\ o # 127
            /\ JsonContent(print_json_payload_ascii(t)) # Malformed
=============================================================================
