----------------------------- MODULE FlowTable -----------------------------
(***************************************************************************)
(* The flow table of src/flow.c and the part of the capture loop that      *)
(* drives it: flow_table_get_or_create, flow_update_packet,                *)
(* flow_decode_stream_app and the classification of a flow by the packet   *)
(* decoder (capture.c:739-792), with the final report of capture_start.    *)
(*                                                                         *)
(* One TCP packet runs through the table in a fixed order; pc says how far *)
(* it has come, and the next packet waits until pc is "idle" again. Each   *)
(* eviction loop removes one flow per step. Packets that are not TCP or    *)
(* have no ports never reach the table. What the decoders say about a      *)
(* payload, whether malloc succeeds and what a segment does to its stream  *)
(* are choices. Left out as never read by the table: created_time, the     *)
(* packet and byte counts, and the decoded metadata itself.                *)
(***************************************************************************)
EXTENDS TcpDirection, Sequences, SequencesExt, Sums

CONSTANTS
    Packets,        \* TCP packets with ports that the capture may see
    MaxFlows,       \* max_flows
    Timeout,        \* timeout_seconds; 0 turns idle eviction off
    MallocResults,  \* {TRUE} when allocation never fails
    StreamBytes,    \* stream_buffer_bytes
    MaxPackets      \* bound: packets processed

(* An endpoint is an address and a port; compare_endpoint orders them. A   *)
(* packet with ports also has sequence number and flags: parser.c takes    *)
(* all of them from a complete TCP header (lines 110 and 128). time is the *)
(* capture timestamp in seconds and need not be monotonic.                 *)
PacketType == [src : Nat, dst : Nat, payload : BOOLEAN,
               fin : BOOLEAN, rst : BOOLEAN, time : Nat]

ASSUME TableAssumption ==
    /\ Packets \subseteq PacketType
    /\ MaxFlows \in Nat \ {0} /\ Timeout \in Nat /\ MaxPackets \in Nat
    /\ MallocResults \subseteq BOOLEAN /\ MallocResults # {}
    /\ StreamBytes \in Nat \ {0}

VARIABLES
    flows,          \* flows[0 .. count-1]
    flow_counts,    \* flows_created, flows_closed_fin, ... of FlowTable
    totals,         \* retransmissions_total, ... of FlowTable
    pc, packet,     \* the step get_or_create has reached, and for which packet
    report,         \* what stats_apply_flow_table copied, or NoReport
    observed,       \* history: every anomaly any direction counted
    last,           \* history: key and time of the last packet processed
    ended,          \* history: flows that were closed by their packets
    packets         \* packets processed, bounded by MaxPackets

vars == <<flows, flow_counts, totals, pc, packet, report, observed, last, ended, packets>>

Directions == {"a_to_b", "b_to_a"}
Reasons == {"closed_fin", "closed_rst", "evicted_idle", "evicted_capacity"}
NoPacket == [src |-> 0, dst |-> 0, payload |-> FALSE,
             fin |-> FALSE, rst |-> FALSE, time |-> 0]
NoLast == [key |-> <<0, 0>>, time |-> 0]
NoFlowCounts == [n \in Reasons \cup {"created"} |-> 0]
NoReport == [counts |-> NoFlowCounts, active |-> 0, anomalies |-> NoCounts, bytes |-> 0]
----------------------------------------------------------------------------
\* Mutant of flow_key: the endpoints are not ordered.
DirectedKey(p) == <<p.src, p.dst>>

(* flow_key_from_packet: the smaller endpoint comes first.                 *)
flow_key(p) == IF p.src > p.dst THEN <<p.dst, p.src>> ELSE <<p.src, p.dst>>
flow_direction(p) == IF p.src > p.dst THEN "b_to_a" ELSE "a_to_b"

NewFlow(p) == [key |-> flow_key(p), last_seen_time |-> p.time,
               app_classified |-> FALSE, dirs |-> [d \in Directions |-> Zeroed]]

flow_is_closed(f) ==
    \/ \E d \in Directions : f.dirs[d].rst_seen
    \/ \A d \in Directions : f.dirs[d].fin_seen

ClosedReason(f) ==
    IF \E d \in Directions : f.dirs[d].rst_seen THEN "closed_rst" ELSE "closed_fin"

\* Mutant of IdleSeconds: the unsigned subtraction is not guarded.
IdleSecondsUnsigned(f, now) == (now - f.last_seen_time) % 2^30

\* A clock that went backwards counts as no idle time at all.
IdleSeconds(f, now) == IF now >= f.last_seen_time THEN now - f.last_seen_time ELSE 0
IsIdle(f, now) == Timeout # 0 /\ IdleSeconds(f, now) >= Timeout

FlowAnomalies(f) == Plus(f.dirs["a_to_b"].counts, f.dirs["b_to_a"].counts)

flow_release_reassembly_buffers(f) ==
    [f EXCEPT !.dirs = [d \in Directions |-> release_buffers(@[d])]]
----------------------------------------------------------------------------
Init ==
    /\ flows = <<>>
    /\ flow_counts = NoFlowCounts
    /\ totals = NoCounts
    /\ pc = "idle" /\ packet = NoPacket
    /\ report = NoReport
    /\ observed = NoCounts
    /\ last = NoLast /\ ended = 0
    /\ packets = 0

Arrive(p) ==
    /\ pc = "idle" /\ packets < MaxPackets
    /\ packet' = p
    /\ packets' = packets + 1
    /\ pc' = "evict_idle"
    /\ UNCHANGED <<flows, flow_counts, totals, report, observed, last, ended>>

\* Mutant of remove_flow_at: an eviction for capacity is not counted.
RemoveUncounted(i, reason) ==
    /\ totals' = Plus(totals, FlowAnomalies(flows[i]))
    /\ flows' = RemoveAt(flows, i)
    /\ flow_counts' = IF reason = "evicted_capacity" THEN flow_counts
                      ELSE [flow_counts EXCEPT ![reason] = @ + 1]

\* Mutant of remove_flow_at: only one direction's counters are kept.
RemoveHalfCounted(i, reason) ==
    /\ totals' = Plus(totals, flows[i].dirs["a_to_b"].counts)
    /\ flows' = RemoveAt(flows, i)
    /\ flow_counts' = [flow_counts EXCEPT ![reason] = @ + 1]

(* accumulate_direction_totals for both directions, cleanup, memmove.      *)
remove_flow_at(i, reason) ==
    /\ totals' = Plus(totals, FlowAnomalies(flows[i]))
    /\ flows' = RemoveAt(flows, i)
    /\ flow_counts' = [flow_counts EXCEPT ![reason] = @ + 1]

(* The loops look at the flows from the left; after a removal they look at *)
(* the same index again.                                                   *)
IsFirst(i, S) == i \in S /\ \A j \in S : i <= j

IdleFlows(now) == {i \in 1..Len(flows) : IsIdle(flows[i], now)}
ClosedFlows == {i \in 1..Len(flows) : flow_is_closed(flows[i])}

evict_idle ==
    /\ pc = "evict_idle"
    /\ \/ \E i \in 1..Len(flows) :
             /\ IsFirst(i, IdleFlows(packet.time))
             /\ remove_flow_at(i, "evicted_idle")
             /\ UNCHANGED pc
       \/ /\ IdleFlows(packet.time) = {}
          /\ pc' = "evict_closed"
          /\ UNCHANGED <<flows, flow_counts, totals>>
    /\ UNCHANGED <<packet, report, observed, last, ended, packets>>

EvictFirstClosed ==
    \E i \in 1..Len(flows) :
        IsFirst(i, ClosedFlows) /\ remove_flow_at(i, ClosedReason(flows[i]))

\* Mutant of evict_closed: closed flows stay until they are idle.
KeepClosed ==
    /\ pc = "evict_closed"
    /\ pc' = "lookup"
    /\ UNCHANGED <<flows, flow_counts, totals, packet, report, observed, last, ended, packets>>

evict_closed ==
    /\ pc = "evict_closed"
    /\ \/ EvictFirstClosed /\ UNCHANGED pc
       \/ /\ ClosedFlows = {}
          /\ pc' = "lookup"
          /\ UNCHANGED <<flows, flow_counts, totals>>
    /\ UNCHANGED <<packet, report, observed, last, ended, packets>>

Known == \E i \in 1..Len(flows) : flows[i].key = flow_key(packet)

lookup ==
    /\ pc = "lookup" /\ Known
    /\ pc' = "update"
    /\ UNCHANGED <<flows, flow_counts, totals, packet, report, observed, last, ended, packets>>

\* The scan keeps the first of several flows last seen in the same second.
Oldest(i) ==
    /\ \A j \in 1..Len(flows) : flows[i].last_seen_time <= flows[j].last_seen_time
    /\ \A j \in 1..(i - 1) : flows[i].last_seen_time < flows[j].last_seen_time

evict_oldest_flow ==
    /\ pc = "lookup" /\ ~Known /\ Len(flows) >= MaxFlows
    /\ \E i \in 1..Len(flows) : Oldest(i) /\ remove_flow_at(i, "evicted_capacity")
    /\ UNCHANGED <<pc, packet, report, observed, last, ended, packets>>

create ==
    /\ pc = "lookup" /\ ~Known /\ Len(flows) < MaxFlows
    /\ flows' = Append(flows, NewFlow(packet))
    /\ flow_counts' = [flow_counts EXCEPT !["created"] = @ + 1]
    /\ pc' = "update"
    /\ UNCHANGED <<totals, packet, report, observed, last, ended, packets>>
----------------------------------------------------------------------------
(* flow_decode_stream_app: the states direction d of a flow may be left in *)
(* by preparing it (flow_prepare_reassembly_direction) and then by the     *)
(* segment itself. Only data of an unclassified flow goes to the stream.   *)

Decodes(f) == packet.payload /\ ~f.app_classified

Prepared(f, d) ==
    IF Decodes(f) /\ ~d.allocated
    THEN {direction_init(ok) : ok \in MallocResults}
    ELSE {d}

StreamDecoded(f, d) ==
    CASE ~Decodes(f) -> {track_flags(d, packet)}
      [] Decodes(f) /\ d.allocated -> process_segment(d, packet)
      [] Decodes(f) /\ ~d.allocated -> {d}

\* A flow takes the first classification it gets, then needs no buffers.
Classified(f) == [flow_release_reassembly_buffers(f) EXCEPT !.app_classified = TRUE]

(* flow_update_packet, the stream decoder, then the packet decoder: either *)
(* may recognise the payload of an unclassified flow.                      *)
UpdateFlow(i) ==
    LET f == flows[i]
        dir == flow_direction(packet)
    IN  \E ready \in Prepared(f, f.dirs[dir]) :
        \E d \in StreamDecoded(f, ready) :
        \E recognised \in IF Decodes(f) THEN BOOLEAN ELSE {FALSE} :
            LET g == [f EXCEPT !.last_seen_time = packet.time, !.dirs[dir] = d]
            IN  /\ flows' = [flows EXCEPT ![i] = IF recognised THEN Classified(g) ELSE g]
                /\ observed' = [n \in CounterNames |->
                                   observed[n] + d.counts[n] - ready.counts[n]]

update ==
    /\ pc = "update"
    /\ \E i \in 1..Len(flows) : flows[i].key = flow_key(packet) /\ UpdateFlow(i)
    /\ last' = [key |-> flow_key(packet), time |-> packet.time]
    /\ ended' = ended + Cardinality(ClosedFlows' \ ClosedFlows)
    /\ pc' = "idle" /\ packet' = NoPacket
    /\ UNCHANGED <<flow_counts, totals, report, packets>>
----------------------------------------------------------------------------
(* The capture loop ends: flows closed by the last packet are evicted, the *)
(* table is summarised and freed.                                          *)
StopCapture ==
    /\ pc = "idle"
    /\ pc' = "final_evict"
    /\ UNCHANGED <<flows, flow_counts, totals, packet, report, observed, last, ended, packets>>

\* The active flows' contribution is added to the totals of the evicted ones.
SumOver(c) ==
    [n \in CounterNames |->
        c[n] + SumSeq([i \in 1..Len(flows) |-> FlowAnomalies(flows[i])[n]])]

AllocatedDirections ==
    SumSeq([i \in 1..Len(flows) |->
               Cardinality({d \in Directions : flows[i].dirs[d].allocated})])

flow_table_snapshot_stats ==
    [counts |-> flow_counts,
     active |-> Len(flows),
     anomalies |-> SumOver(totals),
     bytes |-> AllocatedDirections * StreamBytes]

flow_table_cleanup ==
    /\ flows' = <<>>
    /\ flow_counts' = NoFlowCounts
    /\ totals' = NoCounts

\* Mutant of FinalEvict: flows closed by the last packet are not evicted.
FinishAtOnce ==
    /\ pc = "final_evict"
    /\ report' = flow_table_snapshot_stats
    /\ flow_table_cleanup
    /\ pc' = "done"
    /\ UNCHANGED <<packet, observed, last, ended, packets>>

FinalEvict ==
    /\ pc = "final_evict"
    /\ \/ EvictFirstClosed /\ UNCHANGED <<pc, report>>
       \/ /\ ClosedFlows = {}
          /\ report' = flow_table_snapshot_stats
          /\ flow_table_cleanup
          /\ pc' = "done"
    /\ UNCHANGED <<packet, observed, last, ended, packets>>

\* An error of pcap_next_ex or of the CSV log: the table is freed unreported.
AbortCapture ==
    /\ pc = "idle"
    /\ flow_table_cleanup
    /\ pc' = "done"
    /\ UNCHANGED <<packet, report, observed, last, ended, packets>>

Finished == pc = "done" /\ UNCHANGED vars

Process == evict_idle \/ evict_closed \/ lookup \/ evict_oldest_flow \/ create
              \/ update \/ FinalEvict

Next ==
    \/ \E p \in Packets : Arrive(p)
    \/ Process
    \/ StopCapture
    \/ AbortCapture
    \/ Finished

(* A packet that has been taken up is processed to the end: sequential     *)
(* code that never waits. Nothing forces packets to arrive.                *)
Spec == Init /\ [][Next]_vars /\ WF_vars(Process)
----------------------------------------------------------------------------
Left(c) == c["closed_fin"] + c["closed_rst"] + c["evicted_idle"] + c["evicted_capacity"]

(* No flow is lost or counted twice: at every moment the flows created are *)
(* the flows still in the table and those that left it, each under exactly *)
(* one reason, whichever of the four eviction paths removed it, and the    *)
(* table never holds more than max_flows, the cap all memory derives from. *)
FlowAccounting ==
    /\ flow_counts["created"] = Len(flows) + Left(flow_counts)
    /\ Len(flows) <= MaxFlows

(* The two directions of a connection share one flow: no two entries have  *)
(* the same pair of endpoints, in either order.                            *)
OneFlowPerConnection ==
    \A i, j \in 1..Len(flows) :
        {flows[i].key[1], flows[i].key[2]} = {flows[j].key[1], flows[j].key[2]} => i = j

(* A closed connection is reclaimed by the very next TCP packet, whatever  *)
(* flow that packet belongs to: only the flow touched last can be closed   *)
(* and still be in the table, and a packet never updates a closed flow.    *)
ClosedReclaimed ==
    /\ \A i \in ClosedFlows : flows[i].key = last.key
    /\ pc \in {"lookup", "update"} => ClosedFlows = {}

(* Nothing was seen of the connection for the timeout.                     *)
Silent(f, now) == Timeout # 0 /\ f.last_seen_time + Timeout <= now

NoSilentFlow == pc = "idle" => \A i \in 1..Len(flows) : ~Silent(flows[i], last.time)

EvictedWasSilent ==
    flow_counts'["evicted_idle"] > flow_counts["evicted_idle"] =>
        \E i \in 1..Len(flows) :
            Silent(flows[i], packet.time) /\ flows' = RemoveAt(flows, i)

(* The idle eviction takes the silent flows and no others, in whatever     *)
(* order timestamps come: after a packet no flow is left that was silent   *)
(* for the timeout at its time, and what is evicted as idle was silent,    *)
(* even if the clock went backwards and the difference would be negative.  *)
IdleEviction == []NoSilentFlow /\ [][EvictedWasSilent]_vars

(* Retransmissions, gaps and overlaps counted by a direction are never     *)
(* lost or counted twice: the table's totals and the live directions add   *)
(* up to everything counted so far, across eviction, buffer release and    *)
(* re-initialisation of a direction, and the final report has all of them. *)
AnomaliesConserved ==
    /\ pc # "done" => SumOver(totals) = observed
    /\ report # NoReport => report.anomalies = observed

(* Every connection that ended is counted as closed, even if its last      *)
(* packet is the last of the capture, unless it was idle for the timeout   *)
(* first; and nothing else is counted as closed.                           *)
ClosuresCounted ==
    LET Closed(c) == c["closed_fin"] + c["closed_rst"]
    IN  /\ pc # "done" =>
              ended - Closed(flow_counts) - Cardinality(ClosedFlows)
                  \in 0..flow_counts["evicted_idle"]
        /\ report # NoReport =>
              ended - Closed(report.counts) \in 0..report.counts["evicted_idle"]

(* "FIN/RST are sticky facts about a direction that must remain observable *)
(* even after buffered reassembly stops" (tcp_reassembly.c:188): a FIN     *)
(* recorded for a direction stays recorded while its flow is tracked.      *)
FinRemembered ==
    [][pc = "update" =>
          \A i \in 1..Len(flows), d \in Directions :
              flows[i].dirs[d].fin_seen => flows'[i].dirs[d].fin_seen]_vars

(* "FIN and RST are tracked for every TCP segment in a flow"               *)
(* (docs/architecture.md): when a segment has been processed, its FIN and  *)
(* RST are recorded.                                                       *)
FlagsTracked ==
    [][pc = "update" =>
          \A i \in 1..Len(flows) :
              flows[i].key = flow_key(packet) =>
                  LET d == flows'[i].dirs[flow_direction(packet)]
                  IN  (packet.fin => d.fin_seen) /\ (packet.rst => d.rst_seen)]_vars
============================================================================
