---------------------------- MODULE MCFlowTable ----------------------------
(***************************************************************************)
(* Instances of FlowTable for TLC. Three connections, one of them of an    *)
(* endpoint with itself, compete for MaxFlows slots; timestamps are 0 or   *)
(* Timeout, in any order.                                                  *)
(***************************************************************************)
EXTENDS FlowTable

PacketOf(src, dst, payload, flag, time) ==
    [src |-> src, dst |-> dst, payload |-> payload,
     fin |-> flag = "fin", rst |-> flag = "rst", time |-> time]

\* Both directions of one connection in full, two rivals for its slot.
MCPackets ==
    {PacketOf(ends[1], ends[2], payload, flag, time) :
        ends \in {<<1, 2>>, <<2, 1>>}, payload \in BOOLEAN,
        flag \in {"none", "fin", "rst"}, time \in {0, Timeout}}
    \cup {PacketOf(1, 3, TRUE, "rst", time) : time \in {0, Timeout}}
    \cup {PacketOf(2, 2, FALSE, "fin", 0)}

\* One connection, one second.
MCOneConnection ==
    {PacketOf(ends[1], ends[2], payload, flag, 0) :
        ends \in {<<1, 2>>, <<2, 1>>}, payload \in BOOLEAN,
        flag \in {"none", "fin", "rst"}}
============================================================================
