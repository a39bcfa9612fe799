----------------------------- MODULE AppDecoder -----------------------------
(***************************************************************************)
(* The application decoders as functions from a buffer to a verdict:       *)
(* src/app_http.c, app_tls.c, app_quic.c, app_dhcp.c, app_dns.c (through   *)
(* DnsName) and the dispatch of src/app_decoder.c.                         *)
(*                                                                         *)
(* A buffer is a sequence of octets and a position is zero-based, as in    *)
(* the code. Fixed parts (method names, header sizes, field sizes) are     *)
(* parameters so that small messages reach every test. An AppInfo is its   *)
(* protocol and its non-empty fields; numbers stay the octets they were    *)
(* read from, and the summary text is left out.                            *)
(***************************************************************************)
EXTENDS DnsName, FiniteSetsExt

CONSTANTS
    Methods,        \* the HTTP methods, as octets
    StatusMark,     \* "HTTP/"
    VersionLen,     \* the shortest HTTP version (8)
    StatusLen,      \* the shortest status line (12)
    HeaderNames,    \* header fields that are kept, field -> lower-case name
    TextSize,       \* sizeof of a text field of AppInfo
    RandomLen,      \* the random of a ClientHello (32)
    FixedLen,       \* BOOTP_FIXED_HEADER_LEN (236)
    Cookie,         \* DHCP_MAGIC_COOKIE
    CidMax          \* QUIC_MAX_CONNECTION_ID_LEN (20)

Letters == 65..90

(* A method is a word in capitals; a method with the space behind it, and  *)
(* the mark of a status line, are no longer than a DNS header.             *)
ASSUME DecoderAssumption ==
    /\ \A m \in Methods : m \in Seq(Letters) /\ m # <<>> /\ Len(m) < HeaderLen
    /\ StatusMark \in Seq(Nat) /\ StatusMark # <<>> /\ Len(StatusMark) <= HeaderLen
    /\ StatusMark[1] \in Letters
    /\ Cookie \in Seq(Nat)
    /\ {VersionLen, StatusLen, TextSize, RandomLen, FixedLen, CidMax} \subseteq Nat \ {0}
    /\ StatusLen >= Len(StatusMark) + 4 /\ TextSize > 1

----------------------------------------------------------------------------
(* Reading a buffer.                                                       *)

Has(d, i, n) == i + n <= Len(d)
Bytes(d, i, n) == SubSeq(d, i + 1, i + n)
Rest(d, i) == SubSeq(d, i + 1, Len(d))

\* A big-endian number of one, two or three octets.
Number(d, i, w) ==
    CASE w = 1 -> d[i + 1]
      [] w = 2 -> d[i + 1] * 256 + d[i + 2]
      [] w = 3 -> (d[i + 1] * 256 + d[i + 2]) * 256 + d[i + 3]

\* Where pattern first occurs, or -1: memchr and the two-octet scans.
Find(d, pattern) ==
    LET at == {i \in 0..(Len(d) - Len(pattern)) : Bytes(d, i, Len(pattern)) = pattern}
    IN  IF at = {} THEN -1 ELSE Min(at)

\* What a char array holds after a copy: the size bounds it, a NUL ends it.
Text(s) ==
    LET kept == SubSeq(s, 1, Min({Len(s), TextSize - 1}))
        nul == Find(kept, <<0>>)
    IN  IF nul = -1 THEN kept ELSE Bytes(kept, 0, nul)

\* Fields that are empty are not there.
Fields(f) == [n \in {n \in DOMAIN f : f[n] # <<>>} |-> f[n]]

Unknown == [protocol |-> "UNKNOWN", fields |-> <<>>]
Verdict(r) == [result |-> r, app |-> Unknown]
Decoded(p, f) == [result |-> "OK", app |-> [protocol |-> p, fields |-> Fields(f)]]
----------------------------------------------------------------------------
(* app_http.c.                                                             *)

SP == 32
CRLF == <<13, 10>>
Colon == 58
Space == {SP} \cup 9..13
Digits == 48..57

tolower(o) == IF o \in Letters THEN o + 32 ELSE o

maybe_http_request_prefix(d) == \E m \in Methods : IsPrefix(m, d) \/ IsPrefix(d, m)

looks_like_http(d) == IsPrefix(StatusMark, d) \/ maybe_http_request_prefix(d)

\* copy_trimmed.
Trimmed(s) ==
    LET solid == {i \in 1..Len(s) : s[i] \notin Space}
    IN  IF solid = {} THEN <<>> ELSE Text(SubSeq(s, Min(solid), Max(solid)))

BadLine == [bad |-> TRUE, fields |-> <<>>]
GoodLine(f) == [bad |-> FALSE, fields |-> f]

parse_request_line(line) ==
    LET method_end == Find(line, <<SP>>)
        target == Rest(line, method_end + 1)
        path_end == Find(target, <<SP>>)
        version == Rest(target, path_end + 1)
    IN  IF \/ method_end \in {-1, 0} \/ path_end \in {-1, 0}
           \/ Len(version) < VersionLen \/ ~IsPrefix(StatusMark, version)
        THEN BadLine
        ELSE GoodLine([method |-> Trimmed(Bytes(line, 0, method_end)),
                       path |-> Trimmed(Bytes(target, 0, path_end)),
                       version |-> Trimmed(version)])

parse_status_line(line) ==
    LET version_end == Find(line, <<SP>>)
        status == Bytes(line, version_end + 1, 3)
        reason == Rest(line, version_end + 4)
    IN  IF \/ Len(line) < StatusLen \/ version_end = -1
           \/ ~Has(line, version_end, 4) \/ ~(ToSet(status) \subseteq Digits)
        THEN BadLine
        ELSE GoodLine([version |-> Trimmed(Bytes(line, 0, version_end)),
                       status |-> status,
                       reason |-> IF IsPrefix(<<SP>>, reason) THEN Trimmed(Tail(reason))
                                  ELSE <<>>])

\* The lines of a header block, up to the empty one.
HeaderLines(block) ==
    LET from[p \in 0..Len(block)] ==
            LET end == Find(Rest(block, p), CRLF)
            IN  IF end \in {-1, 0} THEN <<>>
                ELSE <<Bytes(block, p, end)>> \o from[p + end + 2]
    IN  from[0]

HasName(line, name) ==
    LET colon == Find(line, <<Colon>>)
    IN  colon > 0 /\ [i \in 1..colon |-> tolower(line[i])] = name

HeaderValue(line) == Trimmed(Rest(line, Find(line, <<Colon>>) + 1))

\* parse_headers: the last header of a name wins.
parse_headers(block) ==
    LET lines == HeaderLines(block)
        named(n) == {i \in 1..Len(lines) : HasName(lines[i], HeaderNames[n])}
    IN  [n \in DOMAIN HeaderNames |->
            IF named(n) = {} THEN <<>> ELSE HeaderValue(lines[Max(named(n))])]

FirstLine(line) ==
    IF IsPrefix(StatusMark, line) THEN parse_status_line(line) ELSE parse_request_line(line)

\* The fields of the first line and of the headers.
Both(f, g) == [n \in DOMAIN f \cup DOMAIN g |-> IF n \in DOMAIN f THEN f[n] ELSE g[n]]

HttpVerdict(first, block) ==
    IF first.bad THEN Verdict("MALFORMED")
    ELSE Decoded("HTTP", Both(first.fields, parse_headers(block)))

\* A head is the first line and the header lines, each with its line end.
DecodeHead(head, line_end) ==
    HttpVerdict(FirstLine(Bytes(head, 0, line_end)), Rest(head, line_end + 2))

\* Mutant of app_http_decode: headers are read before the blank line arrived.
DecodeFirstLine(d) ==
    IF d = <<>> \/ ~looks_like_http(d) THEN Verdict("NO_MATCH")
    ELSE IF Find(d, CRLF) = -1 THEN Verdict("NEED_MORE")
    ELSE DecodeHead(d, Find(d, CRLF))

app_http_decode(d) ==
    LET header_end == Find(d, CRLF \o CRLF) + 4
    IN  IF d = <<>> \/ ~looks_like_http(d) THEN Verdict("NO_MATCH")
        ELSE IF header_end = 3 THEN Verdict("NEED_MORE")
        ELSE DecodeHead(Bytes(d, 0, header_end), Find(d, CRLF))
----------------------------------------------------------------------------
(* app_tls.c.                                                              *)

Handshake == 22         \* TLS_RECORD_HANDSHAKE
ClientHello == 1
RecordHeader == 5
HandshakeHeader == 4

\* The position behind the vector whose length has w octets at i, if it fits.
VectorEnd(d, i, w) ==
    IF Has(d, i, w) /\ Has(d, i + w, Number(d, i, w)) THEN i + w + Number(d, i, w)
    ELSE Len(d) + 1

Broken == [kind |-> <<Outside>>, body |-> <<>>]

\* The elements of a list that fills d: a kind of k octets and a vector each.
Elements(d, k, w) ==
    LET from[p \in 0..Len(d)] ==
            IF p = Len(d) THEN <<>>
            ELSE LET end == VectorEnd(d, p + k, w)
                 IN  IF end > Len(d) THEN <<Broken>>
                     ELSE <<[kind |-> Bytes(d, p, k),
                             body |-> Bytes(d, p + k + w, end - p - k - w)]>> \o from[end]
    IN  from[0]

\* An SNI or ALPN list: its length covers the extension, no element is empty.
NameList(ext, k, w) ==
    IF Has(ext, 0, 2) /\ Number(ext, 0, 2) = Len(ext) - 2
       /\ \A e \in ToSet(Elements(Rest(ext, 2), k, w)) : e.body # <<>>
    THEN Elements(Rest(ext, 2), k, w)
    ELSE <<Broken>>

\* The first host name is kept.
parse_sni_extension(sni, ext) ==
    LET list == NameList(ext, 1, 2)
        hosts == {i \in 1..Len(list) : list[i].kind = <<0>> /\ Text(list[i].body) # <<>>}
    IN  IF sni # <<>> \/ hosts = {} THEN sni ELSE Text(list[Min(hosts)].body)

(* append_alpn cuts a name that does not fit, and gives up (Bad) when not  *)
(* even the comma fits.                                                    *)
append_alpn(text, name) ==
    IF text = Bad \/ (text # <<>> /\ Len(text) + 1 >= TextSize) THEN Bad
    ELSE Text((IF text = <<>> THEN <<>> ELSE Append(text, 44)) \o name)

parse_alpn_extension(alpn, ext) ==
    LET list == NameList(ext, 0, 1)
        after[i \in 0..Len(list)] ==
            IF i = 0 THEN alpn ELSE append_alpn(after[i - 1], list[i].body)
    IN  after[Len(list)]

SniExtension == <<0, 0>>
AlpnExtension == <<0, 16>>
NoNames == [bad |-> FALSE, sni |-> <<>>, alpn |-> <<>>]

\* One iteration of the loop of parse_extensions.
WithExtension(n, e) ==
    CASE e = Broken -> [n EXCEPT !.bad = TRUE]
      [] e.kind = SniExtension ->
            [n EXCEPT !.bad = @ \/ Broken \in ToSet(NameList(e.body, 1, 2)),
                      !.sni = parse_sni_extension(@, e.body)]
      [] e.kind = AlpnExtension ->
            LET alpn == parse_alpn_extension(n.alpn, e.body)
            IN  IF alpn = Bad \/ Broken \in ToSet(NameList(e.body, 0, 1))
                THEN [n EXCEPT !.bad = TRUE] ELSE [n EXCEPT !.alpn = alpn]
      [] e # Broken /\ e.kind \notin {SniExtension, AlpnExtension} -> n

AllExtensions(list) ==
    LET after[i \in 0..Len(list)] ==
            IF i = 0 THEN NoNames ELSE WithExtension(after[i - 1], list[i])
    IN  after[Len(list)]

\* Octets behind the extensions are ignored.
parse_extensions(d, i) ==
    LET end == VectorEnd(d, i, 2)
    IN  IF i = Len(d) THEN NoNames
        ELSE IF end > Len(d) THEN [NoNames EXCEPT !.bad = TRUE]
        ELSE AllExtensions(Elements(Bytes(d, i + 2, end - i - 2), 2, 2))

(* parse_client_hello_body: version and random, session id, cipher suites, *)
(* compression methods, extensions.                                        *)
parse_client_hello_body(d, record_version) ==
    LET suites == VectorEnd(d, 2 + RandomLen, 1)
        methods == VectorEnd(d, suites, 2)
        extensions == VectorEnd(d, methods, 1)
        suites_length == Number(d, suites, 2)
        WithNames(names) ==
            IF names.bad THEN Verdict("MALFORMED")
            ELSE Decoded("TLS", [record_version |-> record_version,
                                 client_version |-> Bytes(d, 0, 2),
                                 sni |-> names.sni, alpn |-> names.alpn])
    IN  IF \/ suites > Len(d) \/ methods > Len(d) \/ extensions > Len(d)
           \/ suites_length = 0 \/ suites_length % 2 # 0
           \/ Number(d, methods, 1) = 0
        THEN Verdict("MALFORMED")
        ELSE WithNames(parse_extensions(d, extensions))

\* Mutant: the handshake may run beyond its record, into what follows it.
HelloBeyondRecord(d) ==
    LET handshake_length == Number(d, RecordHeader + 1, 3)
    IN  IF d = <<>> \/ d[1] # Handshake THEN Verdict("NO_MATCH")
        ELSE IF Len(d) < RecordHeader THEN Verdict("NEED_MORE")
        ELSE IF d[2] # 3 THEN Verdict("NO_MATCH")
        ELSE IF ~Has(d, RecordHeader, Number(d, 3, 2)) THEN Verdict("NEED_MORE")
        ELSE IF Number(d, 3, 2) < HandshakeHeader THEN Verdict("MALFORMED")
        ELSE IF d[RecordHeader + 1] # ClientHello THEN Verdict("NO_MATCH")
        ELSE parse_client_hello_body(
                 Bytes(d, RecordHeader + HandshakeHeader,
                       Min({handshake_length, Len(d) - RecordHeader - HandshakeHeader})),
                 Bytes(d, 1, 2))

app_tls_decode_client_hello(d) ==
    LET record_length == Number(d, 3, 2)
        handshake_length == Number(d, RecordHeader + 1, 3)
    IN  IF d = <<>> \/ d[1] # Handshake THEN Verdict("NO_MATCH")
        ELSE IF Len(d) < RecordHeader THEN Verdict("NEED_MORE")
        ELSE IF d[2] # 3 THEN Verdict("NO_MATCH")
        ELSE IF ~Has(d, RecordHeader, record_length) THEN Verdict("NEED_MORE")
        ELSE IF record_length < HandshakeHeader THEN Verdict("MALFORMED")
        ELSE IF d[RecordHeader + 1] # ClientHello THEN Verdict("NO_MATCH")
        ELSE IF handshake_length > record_length - HandshakeHeader THEN Verdict("NEED_MORE")
        ELSE parse_client_hello_body(
                 Bytes(d, RecordHeader + HandshakeHeader, handshake_length), Bytes(d, 1, 2))
----------------------------------------------------------------------------
(* app_quic.c: the visible prefix of an Initial packet.                    *)

\* Where the connection id at i ends, or the verdict on what is missing.
IdVerdict(d, i) ==
    IF ~Has(d, i, 1) THEN "NEED_MORE"
    ELSE IF d[i + 1] > CidMax THEN "MALFORMED"
    ELSE IF ~Has(d, i + 1, d[i + 1]) THEN "NEED_MORE"
    ELSE "OK"

app_quic_decode_initial(d) ==
    LET dcid == 5
        scid == dcid + 1 + d[dcid + 1]
    IN  IF d = <<>> \/ d[1] \notin 192..207 THEN Verdict("NO_MATCH")
        ELSE IF ~Has(d, 1, 4) THEN Verdict("NEED_MORE")
        ELSE IF Bytes(d, 1, 4) = <<0, 0, 0, 0>> THEN Verdict("NO_MATCH")
        ELSE IF IdVerdict(d, dcid) # "OK" THEN Verdict(IdVerdict(d, dcid))
        ELSE IF IdVerdict(d, scid) # "OK" THEN Verdict(IdVerdict(d, scid))
        ELSE Decoded("QUIC", [version |-> Bytes(d, 1, 4),
                              dcid |-> Bytes(d, dcid + 1, d[dcid + 1]),
                              scid |-> Bytes(d, scid + 1, d[scid + 1])])
----------------------------------------------------------------------------
(* app_dhcp.c: the fixed header stands for transaction id and addresses.   *)

OptionPad == 0
OptionEnd == 255
OptionAddress == 50
OptionType == 53

\* One step of the scan; a truncated tail ends it.
OptionsFrom(d, from, p) ==
    CASE p = Len(d) \/ d[p + 1] = OptionEnd -> <<>>
      [] p < Len(d) /\ d[p + 1] = OptionPad -> from[p + 1]
      [] p < Len(d) /\ d[p + 1] \notin {OptionPad, OptionEnd} ->
            LET end == VectorEnd(d, p + 1, 1)
            IN  IF end > Len(d) THEN <<>>
                ELSE <<[tag |-> d[p + 1], value |-> Bytes(d, p + 2, end - p - 2)]>> \o from[end]

DhcpOptions(d) ==
    LET from[p \in 0..Len(d)] == OptionsFrom(d, from, p)
    IN  from[FixedLen + Len(Cookie)]

\* The last option of a tag with the right length.
LastOption(options, tag, length) ==
    LET at == {i \in 1..Len(options) :
                  options[i].tag = tag /\ Len(options[i].value) = length}
    IN  IF at = {} THEN <<>> ELSE options[Max(at)].value

scan_dhcp_options(d) ==
    [message_type |-> LastOption(DhcpOptions(d), OptionType, 1),
     requested_ip |-> LastOption(DhcpOptions(d), OptionAddress, 4)]

app_dhcp_decode_udp(d) ==
    IF d = <<>> THEN Verdict("NO_MATCH")
    ELSE IF Len(d) < FixedLen + Len(Cookie) THEN Verdict("NEED_MORE")
    ELSE IF Bytes(d, FixedLen, Len(Cookie)) # Cookie \/ d[1] \notin {1, 2}
    THEN Verdict("NO_MATCH")
    ELSE LET options == scan_dhcp_options(d)
         IN  Decoded("DHCP", [fixed |-> Bytes(d, 0, FixedLen),
                              message_type |-> options.message_type,
                              requested_ip |-> options.requested_ip])
----------------------------------------------------------------------------
(* app_dns.c.                                                              *)

decode_dns_message_as(d, protocol) ==
    LET Of(v) == IF v.result # "OK" THEN Verdict(v.result)
                 ELSE Decoded(protocol, [query |-> Text(v.name)])
    IN  Of(DnsVerdict(d))

app_dns_decode_tcp_frame(d) ==
    IF d = <<>> THEN Verdict("NO_MATCH")
    ELSE IF Len(d) < 2 THEN Verdict("NEED_MORE")
    ELSE IF Number(d, 0, 2) = 0 THEN Verdict("MALFORMED")
    ELSE IF ~Has(d, 2, Number(d, 0, 2)) THEN Verdict("NEED_MORE")
    ELSE decode_dns_message_as(Bytes(d, 2, Number(d, 0, 2)), "DNS")
----------------------------------------------------------------------------
(* app_decoder.c.                                                          *)

\* With a protocol chosen, a payload that is not of it is malformed.
Preferred(v) == IF v.result = "NO_MATCH" THEN Verdict("MALFORMED") ELSE v

\* An unframed DNS message is believed only with a question.
StrongDns(d) ==
    LET Strong(v) == IF v.result = "OK" /\ "query" \in DOMAIN v.app.fields THEN v
                     ELSE Verdict("NO_MATCH")
    IN  Strong(decode_dns_message_as(d, "DNS"))

\* app_decode_buffer(APP_PROTO_UNKNOWN), the only way the program calls it.
app_decode_buffer(d) ==
    LET Tried(http, tls) ==
            IF http.result \in {"OK", "NEED_MORE"} THEN http
            ELSE IF tls.result \in {"OK", "NEED_MORE"} THEN tls
            ELSE StrongDns(d)
    IN  IF d = <<>> THEN Verdict("NO_MATCH")
        ELSE Tried(app_http_decode(d), app_tls_decode_client_hello(d))

(* A packet's ports are classes: "http" (80, 8080, 8000), "tls" (443 and   *)
(* 8443, which are QUIC's too), "dns", "mdns", "dhcp", "other".            *)
app_decode_stream(ports, d) ==
    IF d = <<>> THEN Verdict("NO_MATCH")
    ELSE IF "http" \in ports THEN Preferred(app_http_decode(d))
    ELSE IF "tls" \in ports THEN Preferred(app_tls_decode_client_hello(d))
    ELSE IF "dns" \in ports THEN Preferred(app_dns_decode_tcp_frame(d))
    ELSE app_decode_buffer(d)

\* A datagram's ports select a decoder in this order.
DecodeUdp(ports, d) ==
    IF "dns" \in ports THEN decode_dns_message_as(d, "DNS")
    ELSE IF "mdns" \in ports THEN decode_dns_message_as(d, "MDNS")
    ELSE IF "dhcp" \in ports THEN app_dhcp_decode_udp(d)
    ELSE app_quic_decode_initial(d)

\* payload_starts_with_http: a whole method and a space.
payload_starts_with_http(d) ==
    IsPrefix(StatusMark, d) \/ \E m \in Methods : IsPrefix(Append(m, SP), d)

\* Signatures first; dns is what a payload without one is.
SniffElse(d, dns) ==
    LET Tried(http, tls) ==
            IF payload_starts_with_http(d) /\ http.result # "NO_MATCH" THEN http
            ELSE IF d[1] = Handshake /\ tls.result # "NO_MATCH" THEN tls
            ELSE dns
    IN  Tried(app_http_decode(d), app_tls_decode_client_hello(d))

\* Mutant of SniffPacket: a DNS header without a question is enough.
SniffWeakDns(d) == SniffElse(d, decode_dns_message_as(d, "DNS"))

SniffPacket(d) == SniffElse(d, StrongDns(d))

app_decode_packet(transport, ports, d) ==
    IF d = <<>> THEN Verdict("NO_MATCH")
    ELSE IF transport = "tcp" /\ ports \cap {"http", "tls", "dns"} # {}
    THEN app_decode_stream(ports, d)
    ELSE IF transport = "udp" /\ ports \cap {"dns", "mdns", "dhcp", "tls"} # {}
    THEN Preferred(DecodeUdp(ports, d))
    ELSE SniffPacket(d)

app_decode_status_from_result(v, cut) ==
    CASE v.result = "OK" -> "DECODED"
      [] v.result = "NEED_MORE" -> IF cut THEN "TRUNCATED" ELSE "NEED_MORE"
      [] v.result \in {"MALFORMED", "NO_MATCH"} -> v.result
=============================================================================
