---------------------------- MODULE MCAppStream ----------------------------
(***************************************************************************)
(* Instance of AppStream for TLC: well-formed messages put together from   *)
(* the metadata a decoder must find, and damaged ones. Method names, the   *)
(* "HTTP/" mark and fixed headers are shortened.                           *)
(***************************************************************************)
EXTENDS AppStream

G == 71
H == 72
MCMethods == {<<G, 69>>, <<H, 69>>}                 \* GE, HE
MCStatusMark == <<H, 84, 47>>                       \* HT/
MCHeaderNames == [host |-> <<104>>, user_agent |-> <<117>>]
MCCookie == <<99, 130>>
MCBegins == {0, 2}
MCSizes == 1..40

App(protocol, fields) == [protocol |-> protocol, fields |-> Fields(fields)]
Message(ports, octets, app) ==
    [transport |-> "tcp", ports |-> ports, octets |-> octets, app |-> app]

\* HTTP: two headers of one name, a body that looks like a request again.
MCVersion == MCStatusMark \o <<49>>
Header(name, value) == name \o <<58, 32>> \o value \o CRLF
Request(headers) == <<G, 69, 32, 47, 32>> \o MCVersion \o CRLF \o headers \o CRLF
Response == MCVersion \o <<32, 50, 48, 48, 32, 79>> \o CRLF \o CRLF
RequestApp(host) == App("HTTP", [method |-> <<G, 69>>, path |-> <<47>>,
                                 version |-> MCVersion, host |-> host])
ResponseApp == App("HTTP", [version |-> MCVersion, status |-> <<50, 48, 48>>,
                            reason |-> <<79>>])

HttpTraffic ==
    UNION {{Message(p, Request(Header(<<72>>, <<97>>) \o Header(<<104>>, <<61, 34>>)),
                    RequestApp(<<61, 34>>)),
            Message(p, Request(<<>>) \o Request(<<>>), RequestApp(<<>>)),
            Message(p, Response \o <<13>>, ResponseApp),
            Message(p, <<G, 69, 32>> \o CRLF \o CRLF, Unknown)} :
               p \in {{"http", "other"}, {"other"}}}

(* TLS: records and handshakes whose lengths agree, an ALPN list longer    *)
(* than its field (refused), a handshake that runs beyond its record.      *)
Vec(w, v) == IF w = 1 THEN <<Len(v)>> \o v ELSE <<0, Len(v)>> \o v
Sni(name) == SniExtension \o Vec(2, Vec(2, <<0>> \o Vec(2, name)))
Alpn(names) == AlpnExtension
               \o Vec(2, Vec(2, FlattenSeq([i \in 1..Len(names) |-> Vec(1, names[i])])))
HelloBody(extensions) ==
    <<3, 3>> \o [i \in 1..RandomLen |-> 7] \o <<0>> \o Vec(2, <<19, 1>>) \o <<1, 0>>
    \o extensions
HandshakeOf(body) == <<1, 0, 0, Len(body)>> \o body
Record(content) == <<22, 3, 1>> \o Vec(2, content)
TlsApp(sni, alpn) == App("TLS", [record_version |-> <<3, 1>>, client_version |-> <<3, 3>>,
                                 sni |-> sni, alpn |-> alpn])
Hello(e) == Record(HandshakeOf(HelloBody(Vec(2, e))))

TlsTraffic ==
    UNION {{Message(p, Hello(Sni(<<44, 92>>)) \o <<22, 3>>, TlsApp(<<44, 92>>, <<>>)),
            Message(p, Hello(Alpn(<<<<104, 50>>, <<104>>>>)), TlsApp(<<>>, <<104, 50, 44, 104>>)),
            Message(p, Record(HandshakeOf(HelloBody(<<>>))), TlsApp(<<>>, <<>>)),
            Message(p, Hello(Alpn(<<<<104, 50>>, <<104, 50>>, <<104>>>>)), Unknown),
            Message(p, Record(SubSeq(HandshakeOf(HelloBody(Vec(2, Sni(<<97>>)))), 1, 8))
                         \o SubSeq(HandshakeOf(HelloBody(Vec(2, Sni(<<97>>)))), 9, 26), Unknown)} :
               p \in {{"tls", "other"}, {"other"}}}

\* DNS: one question of one label behind a header of six octets.
Question(label) == <<0, 1, 0, 0, 0, 1>> \o Vec(1, label) \o <<0, 1>>

\* A DNS message whose id spells a method, and then the rest of a request.
MethodAsId == Message({"other"}, <<G, 69, 0, 0, 0, 1, 1, 97, 0, 1, 32, 47, 32>>
                                 \o MCVersion \o CRLF \o CRLF, Unknown)
DnsTraffic ==
    {Message({"dns", "other"}, Vec(2, Question(<<97>>)) \o Vec(2, Question(<<98>>)),
             App("DNS", [query |-> <<97>>])),
     Message({"dns", "other"}, <<0, 9>> \o Question(<<97>>) \o <<0, 1>>, Unknown),
     Message({"other"}, Question(<<97, 98>>) \o <<7>>, App("DNS", [query |-> <<97, 98>>])),
     MethodAsId}

\* Datagrams. Labels carry the octets the writers must treat specially.
Special == {9, 32, 34, 39, 44, 61, 92, 97, 127, 155}
Labels == UNION {[1..k -> Special] : k \in 1..3}
Dhcp(options) == <<1, 1, 6>> \o MCCookie \o options
Quic(dcid, scid) == <<195, 0, 0, 0, 1>> \o Vec(1, dcid) \o Vec(1, scid)

UdpTraffic ==
    {[transport |-> "udp", ports |-> {p, "other"}, octets |-> Question(l), app |-> Unknown] :
        p \in {"dns", "mdns"}, l \in Labels}
    \cup {[transport |-> "udp", ports |-> {"dhcp"}, octets |-> o, app |-> Unknown] :
        o \in {Dhcp(<<53, 1, 2, 0, 50, 4, 10, 0, 0, 9, 255>>), Dhcp(<<7, 2, 1, 1, 53, 1, 3>>),
               Dhcp(<<53, 1, 2, 53, 1, 3>>),
               Dhcp(<<50, 3, 1>>)}}
    \cup {[transport |-> "udp", ports |-> {"tls", "other"}, octets |-> o, app |-> Unknown] :
        o \in {Quic(<<200, 1>>, <<5>>), Quic(<<>>, <<1, 2, 3>>), Quic(<<1, 2, 3, 4>>, <<>>)}}

\* Any octet, a length field say, replaced by a small or a large one.
Damaged(ports, octets) ==
    {Message(ports, [octets EXCEPT ![i] = v], Unknown) : i \in 1..Len(octets), v \in {0, 200}}

DamagedTraffic ==
    UNION {Damaged({"other"}, Hello(Sni(<<97>>))),
           Damaged({"dns", "other"}, Vec(2, Question(<<97>>))),
           Damaged({"http", "other"}, Request(Header(<<104>>, <<97>>)))}

MCTraffic ==
    UNION {HttpTraffic, TlsTraffic, DnsTraffic, UdpTraffic, DamagedTraffic}
=============================================================================
