----------------------------- MODULE PreFilter -----------------------------
(***************************************************************************)
(* The kernel (BPF) pre-filter that src/capture.c builds and the software  *)
(* filters behind it, under the configuration a command line gives: the    *)
(* same packets go through a pipeline with the pre-filter and through one  *)
(* where it failed to compile or to install.                               *)
(*                                                                         *)
(* A datagram arrives whole or as two IPv4 fragments, in any order and any *)
(* number of times. The fragment table is reduced to the parts it holds    *)
(* and the flow table to the app of each flow (Ipv4Fragments and FlowTable *)
(* model them; here neither is full). What libpcap does with an expression *)
(* is external: "port" looks at the transport header, so it never matches  *)
(* a fragment other than the first, and neither "port" nor "tcp" follows   *)
(* IPv6 extension headers, which find_ipv6_transport of parser.c does.     *)
(***************************************************************************)
EXTENDS Filters

CONSTANTS
    Datagrams,      \* the traffic
    MaxDeliveries   \* bound: packets delivered

(* The datagrams of a connection have its addresses and its protocol,      *)
(* which are part of the key of a flow.                                    *)
ASSUME PreFilterAssumption ==
    /\ MaxDeliveries \in Nat
    /\ \A d \in Datagrams :
          /\ d.protocol \in Keywords.filter_protocol
          /\ d.ports # {} <=> d.protocol \in {"tcp", "udp"}
    /\ \A d, e \in Datagrams :
          d.connection = e.connection => d.protocol = e.protocol /\ d.hosts = e.hosts

Parts == {"whole", "first", "rest"}
Pipelines == {"bpf", "software"}

VARIABLES
    got,        \* the parts of each datagram a pipeline's fragment table holds
    flow_app,   \* what each TCP connection was classified as
    shown,      \* what a pipeline has displayed
    deliveries

vars == <<commandVars, got, flow_app, shown, deliveries>>

Connections == {d.connection : d \in Datagrams}
----------------------------------------------------------------------------
(* What the parser and the packet decoder say. Of a fragment the parser    *)
(* only gives protocol and addresses; a payload cut by the decode window   *)
(* is taken not to be recognised.                                          *)

View(d, part) ==
    [protocol |-> d.protocol, hosts |-> d.hosts,
     ports |-> IF part = "whole" THEN d.ports ELSE {},
     payload |-> IF part = "whole"
                 THEN SubSeq(d.payload, 1, Min({Len(d.payload), config.payload_decode_bytes}))
                 ELSE <<>>]

packet_app(d, part) ==
    IF config.decode_app /\ part = "whole" /\ Len(d.payload) <= config.payload_decode_bytes
    THEN d.app ELSE Unknown

\* Flows are kept for TCP segments with --reassemble, which decodes streams.
HasFlow(d, part) == config.reassemble /\ part = "whole" /\ d.protocol = "tcp"
----------------------------------------------------------------------------
\* Mutant of build_bpf_filter_expression: "other" falls through to "arp".
ExpressionFallsThrough(c) ==
    LET protocol == IF c.filter_protocol = "other" THEN "arp" ELSE c.filter_protocol
    IN  {k \in {<<"protocol", protocol>>, <<"port", c.filter_port>>,
                <<"host", c.filter_host>>} : k[2] # Off}

(* build_bpf_filter_expression: the clauses joined by "and". "other" has   *)
(* no equivalent in BPF.                                                   *)
build_bpf_filter_expression(c) ==
    {k \in {<<"protocol", c.filter_protocol>>, <<"port", c.filter_port>>,
            <<"host", c.filter_host>>} :
        k[2] # Off /\ (k[1] = "protocol" => k[2] # "other")}

\* External: whether libpcap lets part of d through a clause.
ClauseAccepts(clause, d, part) ==
    CASE clause[1] = "protocol" -> d.protocol = clause[2] /\ ~d.ext
      [] clause[1] = "port" -> clause[2] \in d.ports /\ part # "rest" /\ ~d.ext
      [] clause[1] = "host" -> clause[2] \in d.hosts

\* install_bpf_filter: --no-bpf installs none.
Delivered(pipeline, d, part) ==
    pipeline = "bpf" /\ ~config.no_bpf =>
        \A clause \in build_bpf_filter_expression(config) : ClauseAccepts(clause, d, part)
----------------------------------------------------------------------------
(* One packet through one pipeline: the parts held afterwards, and the     *)
(* packet the filters see. A part that is already held overlaps.           *)

HeldAfter(held, part) ==
    CASE part = "whole" -> held
      [] part # "whole" /\ (part \in held \/ held \cup {part} = {"first", "rest"}) -> {}
      [] part # "whole" /\ held = {} -> {part}

Effective(held, part) ==
    IF part # "whole" /\ part \notin held /\ held \cup {part} = {"first", "rest"}
    THEN "whole" ELSE part

Context(d, part, known) ==
    [packet |-> View(d, part), packet_app |-> packet_app(d, part),
     flow_app |-> IF HasFlow(d, part) THEN known ELSE Unknown]

Init ==
    /\ CommandInit
    /\ got = [p \in Pipelines |-> [d \in Datagrams |-> {}]]
    /\ flow_app = [p \in Pipelines |-> [c \in Connections |-> Unknown]]
    /\ shown = [p \in Pipelines |-> {}]
    /\ deliveries = 0

Deliver(d, part) ==
    /\ status = "capture" /\ deliveries < MaxDeliveries
    /\ part # "whole" => ~d.ext /\ d.protocol # "arp"
    /\ deliveries' = deliveries + 1
    /\ got' = [p \in Pipelines |->
          IF Delivered(p, d, part)
          THEN [got[p] EXCEPT ![d] = HeldAfter(@, part)] ELSE got[p]]
    /\ flow_app' = [p \in Pipelines |->
          IF Delivered(p, d, part) /\ HasFlow(d, Effective(got[p][d], part))
          THEN [flow_app[p] EXCEPT ![d.connection] = IF @ = Unknown THEN d.app ELSE @]
          ELSE flow_app[p]]
    /\ shown' = [p \in Pipelines |->
          LET seen == Effective(got[p][d], part)
          IN  IF /\ Delivered(p, d, part)
                 /\ filters_match(config, Context(d, seen, flow_app[p][d.connection]))
              THEN shown[p] \cup {<<d, seen>>} ELSE shown[p]]
    /\ UNCHANGED commandVars

Command == CommandStep /\ UNCHANGED <<got, flow_app, shown, deliveries>>

Done ==
    /\ status \in {"failed", "done", "listed"} \/ deliveries = MaxDeliveries
    /\ UNCHANGED vars

Next == Command \/ (\E d \in Datagrams, part \in Parts : Deliver(d, part)) \/ Done

Spec == Init /\ [][Next]_vars
----------------------------------------------------------------------------
(* Without --port, and for connections without IPv6 extension headers, the *)
(* pre-filter is the pure optimisation it is meant to be, whatever other   *)
(* options the command line combines: fragments included, the same packets *)
(* are displayed, flows are classified alike and every datagram that       *)
(* passes it is in the same state of reassembly.                           *)
TransparentWithoutPort ==
    config.filter_port = Off =>
        \A d \in Datagrams :
            (\A e \in Datagrams : e.connection = d.connection => ~e.ext) =>
                /\ \A part \in Parts :
                      <<d, part>> \in shown["bpf"] <=> <<d, part>> \in shown["software"]
                /\ Delivered("bpf", d, "whole") =>
                      /\ got["bpf"][d] = got["software"][d]
                      /\ flow_app["bpf"][d.connection] = flow_app["software"][d.connection]

(* "this never changes filtering semantics, since filters_match still      *)
(* re-checks every field on every displayed packet"                        *)
(* (docs/architecture.md:185-186): both pipelines display the same.        *)
PreFilterTransparent == shown["bpf"] = shown["software"]
============================================================================
