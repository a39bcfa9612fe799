---------------------------- MODULE MCPreFilter ----------------------------
(***************************************************************************)
(* Instances of CommandLine, Filters and PreFilter for TLC.                *)
(***************************************************************************)
EXTENDS PreFilter

Tok(word, number, text, dashed) ==
    [word |-> word, number |-> number, text |-> text, dashed |-> dashed]
Opt(word) == Tok(word, -1, <<>>, TRUE)
Word(w) == Tok(w, -1, <<120>>, FALSE)
Num(n) == Tok("", n, <<49>>, FALSE)
Str(s) == Tok("", -1, s, FALSE)

MCCanonical == [h1 |-> "h1", h1long |-> "h1", h9 |-> "h9"]

\* "a.b" as a packet has it and "A.b." as a user may write it, "h2", "h2,h3".
name == <<97, 46, 98>>
NAME == <<65, 46, 98, 46>>
h2 == <<104, 50>>
alpn == <<104, 51, 44, 104, 50>>

\* Options with their values. The last ones are mistakes.
Plain == {<<Opt("decode_app")>>, <<Opt("reassemble")>>}
FilterOptions ==
    {<<Opt("filter_protocol"), Word("tcp")>>, <<Opt("filter_protocol"), Word("other")>>,
     <<Opt("filter_host"), Word("h1long")>>, <<Opt("filter_port"), Num(80)>>,
     <<Opt("filter_app_protocol"), Word("dns")>>, <<Opt("filter_http_host"), Str(NAME)>>,
     <<Opt("filter_tls_alpn"), Str(h2)>>, <<Opt("filter_payload_hex"), Str(<<50, 45, 69>>)>>,
     <<Opt("filter_dns_type"), Word("aaaa")>>}
Settings ==
    {<<Opt("max_flows"), Num(32)>>, <<Opt("max_flows"), Num(128)>>,
     <<Opt("stream_buffer_bytes"), Num(1048576)>>, <<Opt("stream_buffer_bytes"), Num(1000001)>>,
     <<Opt("flow_timeout_seconds"), Num(0)>>, <<Opt("no_bpf")>>,
     <<Opt("domain_match_mode"), Word("exact")>>, <<Opt("payload_decode_bytes"), Num(2)>>}
Mistakes ==
    {<<Opt("help")>>, <<Opt("version_requested")>>, <<Opt("list_interfaces")>>,
     <<Opt("log_path")>>, <<Word("stats_mode")>>, <<Opt("filter_port"), Num(65536)>>,
     <<Opt("filter_http_method"), Str([i \in 1..16 |-> 65])>>,
     <<Opt("filter_payload_text"), Str(<<>>)>>, <<Opt("log_path"), Str(<<97>>)>>}

Items == Plain \cup FilterOptions \cup Settings \cup Mistakes

\* Every line of up to three items, and filters behind both decoders.
MCCommandLines ==
    {<<>>} \cup Items
    \cup {x \o y : x, y \in Items}
    \cup {x \o y \o z : x \in Plain \cup Settings, y \in Plain \cup Settings, z \in Items}
    \cup {<<Opt("decode_app"), Opt("reassemble")>> \o x \o y : x, y \in FilterOptions \cup Settings}
    \cup {<<Opt("decode_app"), Opt("no_bpf")>> \o x : x \in FilterOptions}

MCPortOnly == {<<Opt("filter_port"), Num(80)>>}

App(protocol, field, value) == [protocol |-> protocol, fields |-> [f \in {field} |-> value]]

Datagram(connection, protocol, ports, host, payload, app) ==
    [connection |-> connection, protocol |-> protocol, ports |-> ports, hosts |-> {host, "h9"},
     ext |-> FALSE, payload |-> payload, app |-> app]

MCDatagrams ==
    {Datagram(1, "tcp", {80, 5000}, "h1", name, App("http", "http_host", name)),
     Datagram(1, "tcp", {80, 5000}, "h1", <<7>>, Unknown),
     Datagram(2, "udp", {53, 5000}, "h2", name, App("dns", "dns_query_type", 28)),
     Datagram(3, "other", {}, "h1", <<>>, Unknown)}

\* And a connection whose segments come behind IPv6 extension headers, too.
MCWithExtension ==
    LET hello == Datagram(4, "tcp", {80, 443}, "h1", name, App("tls", "tls_alpn", alpn))
    IN  MCDatagrams \cup {[hello EXCEPT !.ext = TRUE]}
============================================================================
