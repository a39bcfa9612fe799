------------------------------ MODULE MCParser ------------------------------
(***************************************************************************)
(* Instance of Parser for TLC. Every number of captured octets up to       *)
(* MaxCaptured is tried, so that each header is cut at each of its octets. *)
(***************************************************************************)
EXTENDS Parser

CONSTANTS Links, MaxCaptured

Any ==
    [link |-> "EN10MB", captured |-> 0, type |-> "IPV4", version |-> 4, ihl |-> 5,
     length |-> 0, next |-> "OTHER", fragment |-> FALSE, chain |-> <<>>, size |-> 0, arp |-> FALSE]

\* Transports with a good and a bad size.
Transports ==
    {<<"TCP", 4>>, <<"TCP", 6>>, <<"UDP", 7>>, <<"UDP", 10>>, <<"ICMP", 0>>, <<"ICMPV6", 0>>}

Ipv4Frames ==
    {[Any EXCEPT !.captured = c, !.ihl = i, !.length = l, !.next = t[1], !.size = t[2],
                 !.fragment = f] :
        c \in 0..MaxCaptured, i \in {4, 6}, l \in {20, 34, 60}, t \in Transports, f \in BOOLEAN}

Extension(u, k) == [units |-> u, next |-> k]

Ipv6Frames ==
    {[Any EXCEPT !.captured = c, !.type = "IPV6", !.version = 6, !.length = l,
                 !.next = n, !.chain = <<Extension(u, t[1])>>, !.size = t[2]] :
        c \in 40..MaxCaptured, l \in {10, 60}, u \in {0, 1}, t \in Transports,
        n \in Skippable \cup {"FRAGMENT"}}
    \cup
    {[Any EXCEPT !.captured = c, !.type = "IPV6", !.version = 6, !.length = 60,
                 !.next = m, !.chain = <<Extension(1, n), Extension(0, k)>>, !.size = 6] :
        c \in 40..MaxCaptured, m \in Skippable, n \in {"AH", "DEST_OPTS", "FRAGMENT"},
        k \in {"TCP", "ESP"}}

\* Every link type in front of a network layer it does or does not announce.
LinkFrames ==
    {[Any EXCEPT !.link = d, !.captured = c, !.type = y, !.version = v, !.length = 40,
                 !.next = "UDP", !.size = 10, !.arp = a] :
        d \in Links, c \in {0, 1, 3, 4, 16, 20, 48, 80}, a \in BOOLEAN,
        y \in {"IPV4", "IPV6", "ARP", "UNKNOWN"}, v \in {4, 5, 6}}

MCFrames == Ipv4Frames \cup Ipv6Frames \cup LinkFrames
=============================================================================
