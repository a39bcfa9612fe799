------------------------------ MODULE Filters ------------------------------
(***************************************************************************)
(* src/filters.c: whether a packet is displayed, given the configuration   *)
(* of CommandLine. A context has the packet as the parser summarised it,   *)
(* the app metadata decoded from it and that of its flow. App metadata is  *)
(* a protocol and a function from the fields present to their values.      *)
(***************************************************************************)
EXTENDS CommandLine, FiniteSetsExt

Unknown == [protocol |-> "unknown", fields |-> <<>>]

protocol_filter_matches(c, v) == c.filter_protocol # Off => v.protocol = c.filter_protocol
port_filter_matches(c, v) == c.filter_port # Off => c.filter_port \in v.ports
host_filter_matches(c, v) == c.filter_host # Off => c.filter_host \in v.hosts

payload_contains(payload, needle) ==
    \E i \in 0..(Len(payload) - Len(needle)) : SubSeq(payload, i + 1, i + Len(needle)) = needle

\* Payload filters look at the decode window only.
payload_filter_matches(needle, v) ==
    needle # Off => v.payload # <<>> /\ payload_contains(v.payload, needle)

\* A whole element of the comma-separated list (44 is the comma).
app_has_alpn(list, needle) ==
    /\ needle # <<>>
    /\ \E i \in 1..Len(list) :
          LET j == i + Len(needle) - 1
          IN  /\ j <= Len(list) /\ SubSeq(list, i, j) = needle
              /\ i = 1 \/ list[i - 1] = 44
              /\ j = Len(list) \/ list[j + 1] = 44
              /\ 44 \notin {needle[k] : k \in 1..Len(needle)}

ascii_lower(o) == IF o \in 65..90 THEN o + 32 ELSE o

\* One trailing dot (46) and the case of letters do not count.
domain_name_equals_normalized(left, right) ==
    LET Undotted(s) == IF Len(s) > 1 /\ s[Len(s)] = 46 THEN SubSeq(s, 1, Len(s) - 1) ELSE s
        Folded(s) == [i \in 1..Len(Undotted(s)) |-> ascii_lower(s[i])]
    IN  Folded(left) = Folded(right)

domain_name_matches(c, left, right) ==
    IF c.domain_match_mode = "exact" THEN left = right
    ELSE domain_name_equals_normalized(left, right)

(* app_filter_matches_one: every enabled filter must name a field of the   *)
(* protocol at hand. mDNS uses the fields of DNS.                          *)
app_filter_matches_one(c, app) ==
    LET Holds(filter, protocols, field, absent, Matches(_)) ==
            c[filter] # Off =>
                /\ app.protocol \in protocols
                /\ Matches(IF field \in DOMAIN app.fields THEN app.fields[field] ELSE absent)
        domain(filter, protocols, field) ==
            Holds(filter, protocols, field, <<>>,
                  LAMBDA x : domain_name_matches(c, x, c[filter]))
        same(filter, protocols, field, absent) ==
            Holds(filter, protocols, field, absent, LAMBDA x : x = c[filter])
    IN  /\ app.protocol # "unknown"
        /\ c.filter_app_protocol # Off => app.protocol = c.filter_app_protocol
        /\ domain("filter_http_host", {"http"}, "http_host")
        /\ same("filter_http_method", {"http"}, "http_method", <<>>)
        /\ domain("filter_dns_query", {"dns", "mdns"}, "dns_query_name")
        /\ same("filter_dns_type", {"dns", "mdns"}, "dns_query_type", 0)
        /\ domain("filter_tls_sni", {"tls"}, "tls_sni")
        /\ Holds("filter_tls_alpn", {"tls"}, "tls_alpn", <<>>,
                 LAMBDA x : app_has_alpn(x, c.filter_tls_alpn))
        /\ same("filter_dhcp_type", {"dhcp"}, "dhcp_message_type", 0)
        /\ same("filter_quic_version", {"quic"}, "quic_version", 0)

app_filters_enabled(c) == \E f \in AppFilterFields : c[f] # Off

(* With --reassemble only a flow classified before this packet counts,     *)
(* otherwise only what was decoded from the packet.                        *)
app_filters_match(c, context) ==
    app_filters_enabled(c) =>
        app_filter_matches_one(c, IF c.reassemble THEN context.flow_app ELSE context.packet_app)

filters_match(c, context) ==
    /\ protocol_filter_matches(c, context.packet)
    /\ port_filter_matches(c, context.packet)
    /\ host_filter_matches(c, context.packet)
    /\ payload_filter_matches(c.filter_payload_text, context.packet)
    /\ payload_filter_matches(c.filter_payload_hex, context.packet)
    /\ app_filters_match(c, context)
============================================================================
