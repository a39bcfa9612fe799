------------------------------ MODULE Capture ------------------------------
(***************************************************************************)
(* capture_start of src/capture.c: startup, the packet loop, the SIGINT    *)
(* handler and every way out, with the statistics of src/stats.c that it   *)
(* keeps and the files it writes (src/csv_logger.c, with the rows that     *)
(* still are in stdio's buffer, and libpcap's dumper).                     *)
(*                                                                         *)
(* The signal handler runs between any two steps. What libpcap, the        *)
(* parser, the decoders and the disk do is a choice; the tables are        *)
(* resources here, with the flags of each flow that the loop reads and     *)
(* writes (FlowTable and Ipv4Fragments model them in full). Selecting the  *)
(* device and installing the kernel filter change no state of the program. *)
(***************************************************************************)
EXTENDS Integers, FiniteSets

CONSTANTS
    Configs,        \* command lines, reduced to what changes the control flow
    Flows,          \* TCP connections the capture may see
    NoFlow,         \* stands for a NULL flow pointer
    MaxRaw          \* bound: packets libpcap delivers

(* json: --json; app_filter: some app filter; flush_exit: --flush-log exit *)
(* (the other two modes do the same); max_packets: --count, 0 = no limit.  *)
(* CommandLine refuses reassemble and app_filter without decode_app.       *)
ConfigType ==
    [offline : BOOLEAN, write : BOOLEAN, log : BOOLEAN, decode_app : BOOLEAN,
     reassemble : BOOLEAN, app_filter : BOOLEAN, json : BOOLEAN, flush_exit : BOOLEAN,
     max_packets : Nat]

ASSUME CaptureAssumption ==
    /\ Configs \subseteq ConfigType
    /\ \A c \in Configs : c.reassemble \/ c.app_filter => c.decode_app
    /\ NoFlow \notin Flows /\ MaxRaw \in Nat

VARIABLES
    config,
    pc,
    should_stop, handler,   \* the flag SIGINT sets, and whether it is caught
    owned,                  \* resources to be released
    stats,                  \* raw_packets_seen, ..., and total_packets
    captured_packets,
    flow_state,             \* app_classified and app_event_printed of each flow
    packet,                 \* the packet in hand, with the loop's local variables
    outputs,                \* CSV rows written and on disk, records dumped
    reported,               \* the tables' statistics reached PacketStats
    exit_code,              \* what capture_start returned, 2 before it does
    raw_at_stop             \* history: raw packets when should_stop was set

vars == <<config, pc, should_stop, handler, owned, stats, captured_packets,
          flow_state, packet, outputs, reported, exit_code, raw_at_stop>>
signal == <<should_stop, handler, raw_at_stop>>
counts == <<stats, captured_packets, outputs, reported>>

FreshFlow == [app_classified |-> FALSE, app_event_printed |-> FALSE]
NoPacket == [flow |-> NoFlow, packet_app |-> FALSE, flow_app |-> FALSE,
             flow_was_classified |-> FALSE, app_source |-> "none"]

Startup == {"start", "open", "datalink", "writer", "fragments", "flows", "log"}
InHand == {"parse", "fragment", "flow", "decode", "filter", "show", "record"}
PcValues == Startup \cup InHand \cup {"loop", "next", "finish", "exit"}
Resources == {"handle", "writer", "fragments", "flows", "log", "assembled"}
StatNames == {"raw", "parse_failures", "filtered", "total"}

Counted(name) == [stats EXCEPT ![name] = @ + 1]
----------------------------------------------------------------------------
Init ==
    /\ config \in Configs
    /\ pc = "start"
    /\ should_stop = FALSE /\ handler = FALSE /\ raw_at_stop = 0
    /\ owned = {}
    /\ stats = [n \in StatNames |-> 0] /\ captured_packets = 0
    /\ flow_state = [f \in Flows |-> FreshFlow]
    /\ packet = NoPacket
    /\ outputs = [rows |-> 0, on_disk |-> 0, dumped |-> 0]
    /\ reported = FALSE /\ exit_code = 2

Exit(code) == pc' = "exit" /\ exit_code' = code

\* A startup step that gives up releases exactly the resources named.
Fail(released) ==
    /\ owned' = owned \ released
    /\ Exit(1)

Acquire(resource, next) ==
    /\ owned' = owned \cup {resource}
    /\ pc' = next
    /\ UNCHANGED exit_code

Skip(next) == pc' = next /\ UNCHANGED <<owned, exit_code>>

install_sigint_handler ==
    /\ pc = "start"
    /\ should_stop' = FALSE
    /\ \/ handler' = TRUE /\ Skip("open")
       \/ handler' = FALSE /\ Fail({})
    /\ UNCHANGED <<config, counts, flow_state, packet, raw_at_stop>>

\* A savefile, or a live handle on the device chosen.
OpenSource == pc = "open" /\ (Acquire("handle", "datalink") \/ Fail({}))

CheckDatalink == pc = "datalink" /\ (Skip("writer") \/ Fail({"handle"}))

open_pcap_writer ==
    /\ pc = "writer"
    /\ \/ ~config.write /\ Skip("fragments")
       \/ config.write /\ (Acquire("writer", "fragments") \/ Fail({"handle"}))

InitFragmentTable ==
    /\ pc = "fragments"
    /\ Acquire("fragments", "flows") \/ Fail({"writer", "handle"})

InitFlowTable ==
    /\ pc = "flows"
    /\ \/ ~config.reassemble /\ Skip("log")
       \/ config.reassemble
             /\ (Acquire("flows", "log") \/ Fail({"writer", "fragments", "handle"}))

csv_logger_open ==
    /\ pc = "log"
    /\ \/ ~config.log /\ Skip("loop")
       \/ config.log
             /\ (Acquire("log", "loop") \/ Fail({"writer", "fragments", "flows", "handle"}))

\* Mutant of StartupStep: the stop flag is cleared just before the loop.
ClearStopLate ==
    /\ \/ OpenSource \/ CheckDatalink \/ open_pcap_writer
       \/ InitFragmentTable \/ InitFlowTable \/ csv_logger_open
    /\ should_stop' = (should_stop /\ pc' # "loop")
    /\ UNCHANGED <<config, handler, raw_at_stop, counts, flow_state, packet>>

StartupStep ==
    /\ \/ OpenSource \/ CheckDatalink \/ open_pcap_writer
       \/ InitFragmentTable \/ InitFlowTable \/ csv_logger_open
    /\ UNCHANGED <<config, signal, counts, flow_state, packet>>
----------------------------------------------------------------------------
(* The packet loop.                                                        *)

\* Mutant of LoopTest: --count shows one packet too many.
LoopTestInclusive ==
    /\ pc = "loop"
    /\ pc' = IF ~should_stop /\ (config.max_packets = 0
                                   \/ captured_packets <= config.max_packets)
             THEN "next" ELSE "finish"
    /\ UNCHANGED <<config, signal, owned, counts, flow_state, packet, exit_code>>

\* Mutant of LoopTest: without parentheses --count overrides the signal.
LoopTestUngrouped ==
    /\ pc = "loop"
    /\ pc' = IF (~should_stop /\ config.max_packets = 0)
                   \/ captured_packets < config.max_packets
             THEN "next" ELSE "finish"
    /\ UNCHANGED <<config, signal, owned, counts, flow_state, packet, exit_code>>

LoopTest ==
    /\ pc = "loop"
    /\ pc' = IF ~should_stop /\ (config.max_packets = 0
                                   \/ captured_packets < config.max_packets)
             THEN "next" ELSE "finish"
    /\ UNCHANGED <<config, signal, owned, counts, flow_state, packet, exit_code>>

\* Rows in stdio's buffer may reach the disk, with a row more in the buffer.
SomeOnDisk(rows) ==
    \E n \in outputs.on_disk..rows : outputs' = [outputs EXCEPT !.rows = rows, !.on_disk = n]

(* Both error exits inside the loop release everything and report nothing; *)
(* whether closing the log still saves its rows is not looked at.          *)
Abort ==
    /\ owned' = owned \ {"assembled", "log", "writer", "fragments", "flows", "handle"}
    /\ SomeOnDisk(outputs.rows)
    /\ Exit(1)

\* Mutant of pcap_next_ex: the end of a savefile is taken for a timeout.
RetryAtEnd ==
    /\ pc = "next"
    /\ \/ Skip("loop") /\ UNCHANGED <<stats, outputs>>
       \/ Abort /\ UNCHANGED stats
       \/ /\ stats["raw"] < MaxRaw
          /\ stats' = Counted("raw")
          /\ Skip("parse")
          /\ UNCHANGED outputs
    /\ UNCHANGED <<config, signal, captured_packets, reported, flow_state, packet>>

pcap_next_ex ==
    /\ pc = "next"
    /\ \/ /\ ~config.offline /\ Skip("loop")        \* timeout
          /\ UNCHANGED <<stats, outputs>>
       \/ Abort /\ UNCHANGED stats
       \/ /\ config.offline /\ Skip("finish")       \* end of the savefile
          /\ UNCHANGED <<stats, outputs>>
       \/ /\ stats["raw"] < MaxRaw
          /\ stats' = Counted("raw")
          /\ Skip("parse")
          /\ UNCHANGED outputs
    /\ UNCHANGED <<config, signal, captured_packets, reported, flow_state, packet>>

\* A packet that cannot be summarised is counted and skipped.
Parse ==
    /\ pc = "parse"
    /\ \/ /\ stats' = Counted("parse_failures")
          /\ Skip("loop")
          /\ UNCHANGED packet
       \/ /\ \E f \in Flows \cup {NoFlow} : packet' = [NoPacket EXCEPT !.flow = f]
          /\ Skip("flow")
          /\ UNCHANGED stats
       \/ /\ packet' = NoPacket                     \* an IPv4 fragment
          /\ Skip("fragment")
          /\ UNCHANGED stats
    /\ UNCHANGED <<config, signal, captured_packets, outputs, reported, flow_state>>

\* Mutant of Reassemble: a rebuilt packet that fails to parse is not counted.
ReassembleUncounted ==
    /\ pc = "fragment"
    /\ \/ Skip("flow") /\ UNCHANGED packet
       \/ Skip("loop") /\ UNCHANGED packet
       \/ /\ \E f \in Flows \cup {NoFlow} : packet' = [NoPacket EXCEPT !.flow = f]
          /\ Acquire("assembled", "flow")
    /\ UNCHANGED <<config, signal, counts, flow_state>>

(* A fragment that completes no datagram goes on by itself, without ports  *)
(* and so without a flow. A rebuilt datagram is parsed again.              *)
Reassemble ==
    /\ pc = "fragment"
    /\ \/ Skip("flow") /\ UNCHANGED <<stats, packet>>
       \/ /\ stats' = Counted("parse_failures")     \* rebuilt, freed, skipped
          /\ Skip("loop")
          /\ UNCHANGED packet
       \/ /\ \E f \in Flows \cup {NoFlow} : packet' = [NoPacket EXCEPT !.flow = f]
          /\ Acquire("assembled", "flow")
          /\ UNCHANGED stats
    /\ UNCHANGED <<config, signal, captured_packets, outputs, reported, flow_state>>

(* The flow table finds the packet's flow or starts a fresh one; the       *)
(* stream decoder may classify it.                                         *)
FindFlow ==
    /\ pc = "flow"
    /\ \/ /\ ~config.reassemble \/ packet.flow = NoFlow
          /\ packet' = [packet EXCEPT !.flow = NoFlow]
          /\ UNCHANGED flow_state
       \/ /\ config.reassemble /\ packet.flow # NoFlow
          /\ \E f \in {flow_state[packet.flow], FreshFlow}, decoded \in BOOLEAN :
                LET known == f.app_classified
                    now == known \/ decoded
                IN  /\ flow_state' = [flow_state EXCEPT
                           ![packet.flow] = [f EXCEPT !.app_classified = now]]
                    /\ packet' = [packet EXCEPT !.flow_app = now,
                                                !.flow_was_classified = known,
                                                !.app_source = IF now THEN "flow" ELSE @]
    /\ Skip("decode")
    /\ UNCHANGED <<config, signal, counts>>

\* The packet decoder may classify the flow as well.
DecodePacket ==
    /\ pc = "decode"
    /\ \/ UNCHANGED <<flow_state, packet>>          \* off, or nothing recognised
       \/ /\ config.decode_app
          /\ packet' = [packet EXCEPT !.packet_app = TRUE, !.app_source = "packet",
                                      !.flow_app = @ \/ packet.flow # NoFlow]
          /\ flow_state' = [f \in Flows |->
                 IF f = packet.flow THEN [flow_state[f] EXCEPT !.app_classified = TRUE]
                 ELSE flow_state[f]]
    /\ Skip("filter")
    /\ UNCHANGED <<config, signal, counts>>

(* With --reassemble the app filters look at the flow as it was before     *)
(* this packet, otherwise at the packet.                                   *)
AppFiltersMayMatch ==
    \/ ~config.app_filter
    \/ config.reassemble /\ packet.flow_was_classified
    \/ ~config.reassemble /\ packet.packet_app

\* Mutant of ApplyFilters: a rejected packet's rebuilt copy is not freed.
FilterKeepsCopy ==
    /\ pc = "filter"
    /\ \/ /\ AppFiltersMayMatch
          /\ Skip("show")
          /\ UNCHANGED <<stats, packet>>
       \/ /\ stats' = Counted("filtered")
          /\ packet' = NoPacket
          /\ Skip("loop")
    /\ UNCHANGED <<config, signal, captured_packets, outputs, reported, flow_state>>

ApplyFilters ==
    /\ pc = "filter"
    /\ \/ /\ AppFiltersMayMatch
          /\ Skip("show")
          /\ UNCHANGED <<stats, packet>>
       \/ /\ stats' = Counted("filtered")
          /\ owned' = owned \ {"assembled"}
          /\ packet' = NoPacket
          /\ pc' = "loop" /\ UNCHANGED exit_code
    /\ UNCHANGED <<config, signal, captured_packets, outputs, reported, flow_state>>

\* Mutant of Show: only a flow classified by an earlier packet is announced.
ShowKnownOnly ==
    /\ pc = "show"
    /\ flow_state' = [f \in Flows |->
           IF f = packet.flow /\ ~config.json /\ packet.flow_was_classified
           THEN [flow_state[f] EXCEPT !.app_event_printed = TRUE]
           ELSE flow_state[f]]
    /\ captured_packets' = captured_packets + 1
    /\ Skip("record")
    /\ UNCHANGED <<config, signal, stats, outputs, reported, packet>>

\* A classified flow is announced with its first displayed packet.
Show ==
    /\ pc = "show"
    /\ flow_state' = [f \in Flows |->
           IF f = packet.flow /\ ~config.json /\ flow_state[f].app_classified
           THEN [flow_state[f] EXCEPT !.app_event_printed = TRUE]
           ELSE flow_state[f]]
    /\ captured_packets' = captured_packets + 1
    /\ Skip("record")
    /\ UNCHANGED <<config, signal, stats, outputs, reported, packet>>

(* csv_logger_write_packet: the rows on disk after one more was written.   *)
(* fflush follows every row unless the mode is "exit"; then rows reach the *)
(* disk when stdio's buffer is full.                                       *)
csv_logger_write_packet ==
    CASE "log" \notin owned -> {outputs.on_disk}
      [] "log" \in owned /\ ~config.flush_exit -> {outputs.rows + 1}
      [] "log" \in owned /\ config.flush_exit -> outputs.on_disk..(outputs.rows + 1)

\* CSV row, pcap record, statistics; a failed CSV write ends the capture.
Record ==
    /\ pc = "record"
    /\ packet' = NoPacket
    /\ \/ "log" \in owned /\ Abort /\ UNCHANGED stats
       \/ /\ \E n \in csv_logger_write_packet :
                outputs' = [rows |-> outputs.rows + IF "log" \in owned THEN 1 ELSE 0,
                            on_disk |-> n,
                            dumped |-> outputs.dumped + IF "writer" \in owned THEN 1 ELSE 0]
          /\ stats' = Counted("total")
          /\ owned' = owned \ {"assembled"}
          /\ pc' = "loop" /\ UNCHANGED exit_code
    /\ UNCHANGED <<config, signal, captured_packets, reported, flow_state>>

\* Mutant of Finish: the result of csv_logger_close is not returned.
FinishIgnoresClose ==
    /\ pc = "finish"
    /\ reported' = TRUE
    /\ owned' = owned \ {"fragments", "flows", "writer", "handle", "log"}
    /\ SomeOnDisk(outputs.rows)
    /\ Exit(0)
    /\ UNCHANGED <<config, signal, stats, captured_packets, flow_state, packet>>

(* Statistics of the tables are copied, then everything is released. What  *)
(* fclose returns for the log is what capture_start returns.               *)
Finish ==
    /\ pc = "finish"
    /\ reported' = TRUE
    /\ owned' = owned \ {"fragments", "flows", "writer", "handle", "log"}
    /\ \/ outputs' = [outputs EXCEPT !.on_disk = outputs.rows] /\ Exit(0)
       \/ "log" \in owned /\ SomeOnDisk(outputs.rows) /\ Exit(1)
    /\ UNCHANGED <<config, signal, stats, captured_packets, flow_state, packet>>
----------------------------------------------------------------------------
handle_sigint ==
    /\ handler /\ pc # "exit"
    /\ should_stop' = TRUE
    /\ raw_at_stop' = IF should_stop THEN raw_at_stop ELSE stats["raw"]
    /\ UNCHANGED <<config, pc, handler, owned, counts, flow_state, packet, exit_code>>

Step ==
    \/ install_sigint_handler \/ StartupStep
    \/ LoopTest \/ pcap_next_ex \/ Parse \/ Reassemble \/ FindFlow
    \/ DecodePacket \/ ApplyFilters \/ Show \/ Record \/ Finish

Returned == pc = "exit" /\ UNCHANGED vars

Next == Step \/ handle_sigint \/ Returned

(* The call of pcap_next_ex on a live handle. Nothing makes it return: the *)
(* timeout given to pcap_open_live says how long libpcap may collect       *)
(* packets, not how long it may wait for the first one, and the handler    *)
(* does not call pcap_breakloop.                                           *)
Waiting == pc = "next" /\ ~config.offline

(* The main thread keeps running wherever it does not wait for the network *)
(* to send something. Nothing forces a packet, a timeout or a signal.      *)
Spec == Init /\ [][Next]_vars /\ WF_vars(Step /\ ~Waiting)
----------------------------------------------------------------------------
(* Whichever way capture_start returns, on success or error, it has freed  *)
(* every handle, file, table and rebuilt packet it had acquired; and a     *)
(* rebuilt packet never survives its iteration of the loop.                *)
EverythingReleased ==
    /\ pc = "exit" => owned = {}
    /\ pc \in {"loop", "next", "finish"} => "assembled" \notin owned

(* The funnel of --stats is complete: every packet libpcap delivered is    *)
(* counted under exactly one of parse failure, filtered out and displayed, *)
(* except the one in hand and the one whose CSV row could not be written.  *)
FunnelComplete ==
    LET settled == stats["parse_failures"] + stats["filtered"] + stats["total"]
        lost == pc \in InHand \/ captured_packets > stats["total"]
    IN  stats["raw"] = settled + IF lost THEN 1 ELSE 0

(* Terminal, CSV log, pcap file and statistics describe the same packets:  *)
(* between packets all have the same number, which --count never exceeds.  *)
(* The app metadata they show is the packet's own if it has any, else its  *)
(* flow's, and the source printed with it names the right one of the two.  *)
OutputsAgree ==
    /\ config.max_packets # 0 => captured_packets <= config.max_packets
    /\ pc \in {"loop", "next", "finish"} \/ exit_code = 0 =>
          /\ stats["total"] = captured_packets
          /\ config.log => outputs.rows = captured_packets
          /\ config.write => outputs.dumped = captured_packets
    /\ pc = "record" =>
          packet.app_source = IF packet.packet_app THEN "packet"
                              ELSE IF packet.flow_app THEN "flow" ELSE "none"

(* No row is lost silently: exit status 0 means that every displayed       *)
(* packet's row is in the log file, in each flush mode; and unless rows    *)
(* are kept for the end, they are all there whenever the program waits for *)
(* a packet, so an interrupted or failing capture loses none of them.      *)
RowsOnDisk ==
    /\ exit_code = 0 /\ config.log => outputs.on_disk = captured_packets
    /\ config.log /\ ~config.flush_exit /\ pc \notin InHand =>
          outputs.on_disk = outputs.rows

(* With --reassemble a packet passes the app filters only if an earlier    *)
(* packet had classified its flow, so the flow it shows is classified when *)
(* the packet is displayed, announced first, and still in the table.       *)
ShownFlowAnnounced ==
    pc = "record" /\ config.reassemble /\ ~config.json =>
        /\ config.app_filter => packet.flow # NoFlow /\ packet.flow_app
        /\ packet.flow_app => flow_state[packet.flow].app_event_printed

(* Ctrl+C is prompt: after the signal at most one more packet is taken     *)
(* from libpcap, even if it arrives between the loop test and the read.    *)
StopIsPrompt == should_stop => stats["raw"] <= raw_at_stop + 1

(* After Ctrl+C, at any moment since the handler was installed, startup    *)
(* included, the program ends, except that a live read it is waiting in    *)
(* may never return. When such a read does return, with a packet or        *)
(* without, the program ends and does not wait again.                      *)
StopEnds == should_stop /\ ~Waiting ~> pc = "exit"

(* Reading a savefile ends by itself, without a signal: the end of the     *)
(* file leaves the loop, however many packets were skipped.                *)
SavefileEnds == config.offline ~> pc = "exit"
============================================================================
