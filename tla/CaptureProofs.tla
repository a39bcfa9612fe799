--------------------------- MODULE CaptureProofs ---------------------------
(***************************************************************************)
(* Proofs about Capture, for every command line, every set of connections  *)
(* and however many packets libpcap delivers, with the signal handler      *)
(* running between any two steps.                                          *)
(***************************************************************************)
EXTENDS Capture, TLAPS

FlowFlags == [app_classified : BOOLEAN, app_event_printed : BOOLEAN]

PacketInHand ==
    [flow : Flows \cup {NoFlow}, packet_app : BOOLEAN, flow_app : BOOLEAN,
     flow_was_classified : BOOLEAN, app_source : {"none", "flow", "packet"}]

TypeOK ==
    /\ config \in Configs
    /\ pc \in PcValues
    /\ should_stop \in BOOLEAN /\ handler \in BOOLEAN /\ raw_at_stop \in Nat
    /\ owned \subseteq Resources
    /\ stats \in [StatNames -> Nat] /\ captured_packets \in Nat
    /\ flow_state \in [Flows -> FlowFlags]
    /\ packet \in PacketInHand
    /\ outputs \in [rows : Nat, on_disk : Nat, dumped : Nat]
    /\ reported \in BOOLEAN
    /\ exit_code \in {0, 1, 2}

(* Which resource is held where: what startup has acquired so far, all of  *)
(* it in the loop, nothing after the return.                               *)
Opened == PcValues \ {"start", "open", "exit"}
Writing == Opened \ {"datalink", "writer"}
Assembling == Writing \ {"fragments"}
Following == Assembling \ {"flows"}
Logging == Following \ {"log"}

Holdings ==
    /\ "handle" \in owned <=> pc \in Opened
    /\ "writer" \in owned <=> config.write /\ pc \in Writing
    /\ "fragments" \in owned <=> pc \in Assembling
    /\ "flows" \in owned <=> config.reassemble /\ pc \in Following
    /\ "log" \in owned <=> config.log /\ pc \in Logging
    /\ "assembled" \in owned => pc \in InHand \ {"parse", "fragment"}

(* The counts at every point of the loop, not only between two packets.    *)
Counts ==
    /\ FunnelComplete
    /\ pc = "record" => captured_packets = stats["total"] + 1
    /\ pc \notin {"record", "exit"} => captured_packets = stats["total"]
    /\ exit_code = 0 => captured_packets = stats["total"]
    /\ captured_packets <= stats["total"] + 1 /\ captured_packets >= stats["total"]
    /\ pc = "exit" <=> exit_code # 2
    /\ pc \in Startup => \A n \in StatNames : stats[n] = 0
    /\ config.max_packets # 0 =>
          /\ captured_packets <= config.max_packets
          /\ pc \in {"next"} \cup (InHand \ {"record"}) => captured_packets < config.max_packets

(* What has been written, with the rows that stdio's buffer still holds.   *)
Files ==
    /\ config.log => outputs.rows = stats["total"]
    /\ config.write => outputs.dumped = stats["total"]
    /\ outputs.on_disk <= outputs.rows
    /\ ~config.flush_exit => outputs.on_disk = outputs.rows
    /\ exit_code = 0 => outputs.on_disk = outputs.rows

(* The loop's local variables agree with each other and with the flow.     *)
Decoded == {"decode", "filter", "show", "record"}

Labels ==
    /\ pc \in {"fragment", "flow"} =>
          /\ ~packet.packet_app /\ ~packet.flow_app
          /\ ~packet.flow_was_classified /\ packet.app_source = "none"
    /\ pc \in Decoded =>
          /\ packet.app_source = IF packet.packet_app THEN "packet"
                                 ELSE IF packet.flow_app THEN "flow" ELSE "none"
          /\ packet.flow_was_classified => packet.flow_app
          /\ packet.flow_app => packet.flow \in Flows
                                  /\ flow_state[packet.flow].app_classified
    /\ pc \in {"show", "record"} /\ config.reassemble /\ config.app_filter =>
          packet.flow_was_classified
    /\ pc = "record" /\ ~config.json /\ packet.flow_app =>
          flow_state[packet.flow].app_event_printed

(* After the signal no packet is taken once the loop test has seen it.     *)
StopBound ==
    /\ StopIsPrompt
    /\ should_stop /\ pc = "next" => stats["raw"] <= raw_at_stop

IInv == TypeOK /\ Holdings /\ Counts /\ Files /\ Labels /\ StopBound
----------------------------------------------------------------------------
(* The rows of the log that an unchecked close may leave unwritten.        *)
LEMMA SomeOnDiskType ==
    ASSUME TypeOK, SomeOnDisk(outputs.rows)
    PROVE  /\ outputs' \in [rows : Nat, on_disk : Nat, dumped : Nat]
           /\ outputs'.rows = outputs.rows /\ outputs'.dumped = outputs.dumped
           /\ outputs'.on_disk \in outputs.on_disk..outputs.rows
<1>1. PICK n \in outputs.on_disk..outputs.rows :
         outputs' = [outputs EXCEPT !.rows = outputs.rows, !.on_disk = n]
    BY DEF SomeOnDisk
<1>2. outputs \in [rows : Nat, on_disk : Nat, dumped : Nat]
    BY DEF TypeOK
<1>3. n \in Nat
    BY <1>2
<1> QED
    BY <1>1, <1>2, <1>3

(* Counting a packet changes one statistic, by one.                        *)
LEMMA CountedType ==
    ASSUME TypeOK, NEW n \in StatNames
    PROVE  /\ Counted(n) \in [StatNames -> Nat]
           /\ Counted(n)[n] = stats[n] + 1
           /\ \A m \in StatNames : m # n => Counted(n)[m] = stats[m]
BY DEF TypeOK, Counted

(* The packet a parse leaves in hand: its flow, and nothing decoded yet.   *)
LEMMA ParsedType ==
    ASSUME NEW f \in Flows \cup {NoFlow}
    PROVE  /\ NoPacket \in PacketInHand
           /\ [NoPacket EXCEPT !.flow = f] \in PacketInHand
           /\ [NoPacket EXCEPT !.flow = f].flow = f
           /\ ~[NoPacket EXCEPT !.flow = f].packet_app
           /\ ~[NoPacket EXCEPT !.flow = f].flow_app
           /\ ~[NoPacket EXCEPT !.flow = f].flow_was_classified
           /\ [NoPacket EXCEPT !.flow = f].app_source = "none"
BY DEF PacketInHand, NoPacket

(* Where a step leads and what it releases.                                *)
LEMMA ControlTypeStep ==
    ASSUME TypeOK, [Next]_vars
    PROVE  /\ config' \in Configs
           /\ pc' \in PcValues
           /\ owned' \subseteq Resources
           /\ exit_code' \in {0, 1, 2}
<1> USE DEF TypeOK, PcValues, Startup, InHand, Skip, Exit
<1>1. CASE install_sigint_handler
    BY <1>1 DEF install_sigint_handler, Fail
<1>2. CASE StartupStep
    BY <1>2 DEF StartupStep, OpenSource, CheckDatalink, open_pcap_writer, InitFragmentTable,
                InitFlowTable, csv_logger_open, Acquire, Fail, Resources
<1>3. CASE LoopTest
    BY <1>3 DEF LoopTest
<1>4. CASE pcap_next_ex
    BY <1>4 DEF pcap_next_ex, Abort
<1>5. CASE Parse
    BY <1>5 DEF Parse
<1>6. CASE Reassemble
    BY <1>6 DEF Reassemble, Acquire, Resources
<1>7. CASE FindFlow
    BY <1>7 DEF FindFlow
<1>8. CASE DecodePacket
    BY <1>8 DEF DecodePacket
<1>9. CASE ApplyFilters
    BY <1>9 DEF ApplyFilters
<1>10. CASE Show
    BY <1>10 DEF Show
<1>11. CASE Record
    BY <1>11 DEF Record, Abort
<1>12. CASE Finish
    BY <1>12 DEF Finish
<1>13. CASE handle_sigint \/ UNCHANGED vars
    BY <1>13 DEF handle_sigint, vars
<1> QED
    BY <1>1, <1>2, <1>3, <1>4, <1>5, <1>6, <1>7, <1>8, <1>9, <1>10, <1>11, <1>12, <1>13
    DEF Next, Step, Returned

(* What a step counts and writes, and what the handler notes.              *)
LEMMA CountTypeStep ==
    ASSUME TypeOK, [Next]_vars
    PROVE  /\ should_stop' \in BOOLEAN /\ handler' \in BOOLEAN /\ raw_at_stop' \in Nat
           /\ stats' \in [StatNames -> Nat] /\ captured_packets' \in Nat
           /\ outputs' \in [rows : Nat, on_disk : Nat, dumped : Nat]
           /\ reported' \in BOOLEAN
<1> USE DEF TypeOK, signal, counts
<1>0. /\ {"raw", "parse_failures", "filtered", "total"} = StatNames
      /\ stats["raw"] \in Nat
    BY DEF StatNames
<1>1. CASE install_sigint_handler
    BY <1>1 DEF install_sigint_handler
<1>2. CASE StartupStep
    BY <1>2 DEF StartupStep
<1>3. CASE LoopTest
    BY <1>3 DEF LoopTest
<1>4. CASE pcap_next_ex
    BY <1>0, <1>4, SomeOnDiskType, CountedType DEF pcap_next_ex, Abort
<1>5. CASE Parse
    BY <1>0, <1>5, CountedType DEF Parse
<1>6. CASE Reassemble
    BY <1>0, <1>6, CountedType DEF Reassemble
<1>7. CASE FindFlow
    BY <1>7 DEF FindFlow
<1>8. CASE DecodePacket
    BY <1>8 DEF DecodePacket
<1>9. CASE ApplyFilters
    BY <1>0, <1>9, CountedType DEF ApplyFilters
<1>10. CASE Show
    BY <1>10 DEF Show
<1>11. CASE Record
    BY <1>0, <1>11, SomeOnDiskType, CountedType DEF Record, Abort, csv_logger_write_packet
<1>12. CASE Finish
    BY <1>12, SomeOnDiskType DEF Finish
<1>13. CASE handle_sigint \/ UNCHANGED vars
    BY <1>0, <1>13 DEF handle_sigint, vars
<1> QED
    BY <1>1, <1>2, <1>3, <1>4, <1>5, <1>6, <1>7, <1>8, <1>9, <1>10, <1>11, <1>12, <1>13
    DEF Next, Step, Returned

(* The flows' flags and the packet in hand.                                *)
LEMMA PacketTypeStep ==
    ASSUME TypeOK, [Next]_vars
    PROVE  flow_state' \in [Flows -> FlowFlags] /\ packet' \in PacketInHand
<1>0. flow_state \in [Flows -> FlowFlags] /\ packet \in PacketInHand
    BY DEF TypeOK
<1>1. CASE install_sigint_handler
    BY <1>0, <1>1 DEF install_sigint_handler
<1>2. CASE StartupStep
    BY <1>0, <1>2 DEF StartupStep
<1>3. CASE LoopTest
    BY <1>0, <1>3 DEF LoopTest
<1>4. CASE pcap_next_ex
    BY <1>0, <1>4 DEF pcap_next_ex
<1>5. CASE Parse
    BY ZenonT(40), <1>0, <1>5, ParsedType DEF Parse
<1>6. CASE Reassemble
    BY <1>0, <1>6, ParsedType DEF Reassemble
<1>7. CASE FindFlow
    <2>1. CASE /\ packet' = [packet EXCEPT !.flow = NoFlow]
               /\ UNCHANGED flow_state
        BY <1>0, <2>1 DEF PacketInHand
    <2>2. CASE /\ packet.flow # NoFlow
               /\ \E f \in {flow_state[packet.flow], FreshFlow}, decoded \in BOOLEAN :
                     /\ flow_state' = [flow_state EXCEPT
                            ![packet.flow] = [f EXCEPT !.app_classified =
                                                  f.app_classified \/ decoded]]
                     /\ packet' = [packet EXCEPT
                            !.flow_app = f.app_classified \/ decoded,
                            !.flow_was_classified = f.app_classified,
                            !.app_source = IF f.app_classified \/ decoded
                                           THEN "flow" ELSE @]
        <3>1. PICK f \in {flow_state[packet.flow], FreshFlow}, decoded \in BOOLEAN :
                 /\ flow_state' = [flow_state EXCEPT
                        ![packet.flow] = [f EXCEPT !.app_classified =
                                              f.app_classified \/ decoded]]
                 /\ packet' = [packet EXCEPT
                        !.flow_app = f.app_classified \/ decoded,
                        !.flow_was_classified = f.app_classified,
                        !.app_source = IF f.app_classified \/ decoded
                                       THEN "flow" ELSE @]
            BY <2>2
        <3>2. packet.flow \in Flows
            BY <1>0, <2>2 DEF PacketInHand
        <3>3. f \in FlowFlags
            <4>1. FreshFlow \in FlowFlags
                BY DEF FlowFlags, FreshFlow
            <4>2. flow_state[packet.flow] \in FlowFlags
                BY <1>0, <3>2
            <4> QED
                BY <4>1, <4>2
        <3>4. [f EXCEPT !.app_classified = f.app_classified \/ decoded] \in FlowFlags
            BY <3>3 DEF FlowFlags
        <3>5. flow_state' \in [Flows -> FlowFlags]
            BY <1>0, <3>1, <3>2, <3>4
        <3>6. f.app_classified \in BOOLEAN /\ (f.app_classified \/ decoded) \in BOOLEAN
            BY <3>3 DEF FlowFlags
        <3>7. packet' \in PacketInHand
            BY <1>0, <3>1, <3>6 DEF PacketInHand
        <3> QED
            BY <3>5, <3>7
    <2> QED
        BY ZenonT(40), <1>7, <2>1, <2>2 DEF FindFlow
<1>8. CASE DecodePacket
    <2>1. \A f \in Flows : [flow_state[f] EXCEPT !.app_classified = TRUE] \in FlowFlags
        BY <1>0 DEF FlowFlags
    <2>2. [packet EXCEPT !.packet_app = TRUE, !.app_source = "packet",
                         !.flow_app = @ \/ packet.flow # NoFlow] \in PacketInHand
        BY <1>0 DEF PacketInHand
    <2> QED
        BY <1>0, <1>8, <2>1, <2>2 DEF DecodePacket
<1>9. CASE ApplyFilters
    BY <1>0, <1>9, ParsedType DEF ApplyFilters
<1>10. CASE Show
    <2>1. \A f \in Flows : [flow_state[f] EXCEPT !.app_event_printed = TRUE] \in FlowFlags
        BY <1>0 DEF FlowFlags
    <2> QED
        BY <1>0, <1>10, <2>1 DEF Show
<1>11. CASE Record
    BY <1>0, <1>11, ParsedType DEF Record
<1>12. CASE Finish
    BY <1>0, <1>12 DEF Finish
<1>13. CASE handle_sigint \/ UNCHANGED vars
    BY <1>0, <1>13 DEF handle_sigint, vars
<1> QED
    BY <1>1, <1>2, <1>3, <1>4, <1>5, <1>6, <1>7, <1>8, <1>9, <1>10, <1>11, <1>12, <1>13
    DEF Next, Step, Returned

(* Every step keeps the variables' types.                                  *)
LEMMA TypeStep ==
    ASSUME TypeOK, [Next]_vars
    PROVE  TypeOK'
BY ControlTypeStep, CountTypeStep, PacketTypeStep DEF TypeOK

(* Every step that leads somewhere holds there what the place requires,    *)
(* and every way out has released it.                                      *)
LEMMA HoldingsStep ==
    ASSUME TypeOK, Holdings, [Next]_vars
    PROVE  Holdings'
<1> USE DEF Holdings, Opened, Writing, Assembling, Following, Logging, PcValues, Startup,
            InHand, Skip, Exit
<1>1. CASE install_sigint_handler
    BY <1>1 DEF install_sigint_handler, Fail
<1>2. CASE StartupStep
    <2> USE DEF Acquire, Fail
    <2>0. UNCHANGED config
        BY <1>2 DEF StartupStep
    <2>1. CASE OpenSource
        BY <2>0, <2>1 DEF OpenSource
    <2>2. CASE CheckDatalink
        BY <2>0, <2>2 DEF CheckDatalink
    <2>3. CASE open_pcap_writer
        BY <2>0, <2>3 DEF open_pcap_writer
    <2>4. CASE InitFragmentTable
        BY <2>0, <2>4 DEF InitFragmentTable
    <2>5. CASE InitFlowTable
        BY <2>0, <2>5 DEF InitFlowTable
    <2>6. CASE csv_logger_open
        BY <2>0, <2>6 DEF csv_logger_open
    <2> QED
        BY <1>2, <2>1, <2>2, <2>3, <2>4, <2>5, <2>6 DEF StartupStep
<1>3. CASE LoopTest
    BY <1>3 DEF LoopTest
<1>4. CASE pcap_next_ex
    BY <1>4 DEF pcap_next_ex, Abort
<1>5. CASE Parse
    BY <1>5 DEF Parse
<1>6. CASE Reassemble
    BY <1>6 DEF Reassemble, Acquire
<1>7. CASE FindFlow
    BY <1>7 DEF FindFlow
<1>8. CASE DecodePacket
    BY <1>8 DEF DecodePacket
<1>9. CASE ApplyFilters
    BY <1>9 DEF ApplyFilters
<1>10. CASE Show
    BY <1>10 DEF Show
<1>11. CASE Record
    BY <1>11 DEF Record, Abort
<1>12. CASE Finish
    BY <1>12 DEF Finish
<1>13. CASE handle_sigint \/ UNCHANGED vars
    BY <1>13 DEF handle_sigint, vars
<1> QED
    BY <1>1, <1>2, <1>3, <1>4, <1>5, <1>6, <1>7, <1>8, <1>9, <1>10, <1>11, <1>12, <1>13
    DEF Next, Step, Returned

(* Every packet taken from libpcap stays in hand until it is counted once, *)
(* and the limit of --count is looked at before the next one is taken.     *)
LEMMA CountsStep ==
    ASSUME TypeOK, Counts, [Next]_vars
    PROVE  Counts'
<1> USE DEF Counts, FunnelComplete, PcValues, Startup, InHand, Skip, Exit
<1>0. /\ {"raw", "parse_failures", "filtered", "total"} = StatNames
      /\ \A n \in StatNames : stats[n] \in Nat
      /\ captured_packets \in Nat /\ config.max_packets \in Nat /\ pc \in PcValues
    BY CaptureAssumption DEF StatNames, TypeOK, ConfigType
<1>1. CASE install_sigint_handler
    BY <1>0, <1>1 DEF install_sigint_handler, Fail, counts
<1>2. CASE StartupStep
    <2>1. pc \in Startup /\ pc' \in Startup \cup {"loop", "exit"}
        BY <1>2 DEF StartupStep, OpenSource, CheckDatalink, open_pcap_writer,
                    InitFragmentTable, InitFlowTable, csv_logger_open, Acquire, Fail
    <2>2. pc' = "exit" => exit_code' = 1
        BY <1>2 DEF StartupStep, OpenSource, CheckDatalink, open_pcap_writer,
                    InitFragmentTable, InitFlowTable, csv_logger_open, Acquire, Fail
    <2>3. pc' # "exit" => exit_code' = exit_code
        BY <1>2 DEF StartupStep, OpenSource, CheckDatalink, open_pcap_writer,
                    InitFragmentTable, InitFlowTable, csv_logger_open, Acquire, Fail
    <2>4. UNCHANGED <<config, stats, captured_packets>>
        BY <1>2 DEF StartupStep, counts
    <2> QED
        BY <1>0, <2>1, <2>2, <2>3, <2>4
<1>3. CASE LoopTest
    BY <1>0, <1>3 DEF LoopTest, counts
<1>4. CASE pcap_next_ex
    <2>1. CASE stats' = Counted("raw") /\ Skip("parse")
        BY <1>0, <1>4, <2>1, CountedType DEF pcap_next_ex
    <2>2. CASE UNCHANGED stats /\ (Skip("loop") \/ Skip("finish") \/ Abort)
        BY <1>0, <1>4, <2>2 DEF pcap_next_ex, Abort
    <2> QED
        BY <1>4, <2>1, <2>2 DEF pcap_next_ex
<1>5. CASE Parse
    BY <1>0, <1>5, CountedType DEF Parse
<1>6. CASE Reassemble
    <2>1. CASE UNCHANGED stats /\ pc' = "flow" /\ UNCHANGED exit_code
        BY <1>0, <1>6, <2>1 DEF Reassemble
    <2>2. CASE stats' = Counted("parse_failures") /\ Skip("loop")
        BY <1>0, <1>6, <2>2, CountedType DEF Reassemble
    <2> QED
        BY <1>6, <2>1, <2>2 DEF Reassemble, Acquire
<1>7. CASE FindFlow
    BY <1>0, <1>7 DEF FindFlow, counts
<1>8. CASE DecodePacket
    BY <1>0, <1>8 DEF DecodePacket, counts
<1>9. CASE ApplyFilters
    <2>1. CASE Skip("show") /\ UNCHANGED stats
        BY <1>0, <1>9, <2>1 DEF ApplyFilters
    <2>2. CASE stats' = Counted("filtered") /\ pc' = "loop" /\ UNCHANGED exit_code
        BY <1>0, <1>9, <2>2, CountedType DEF ApplyFilters
    <2> QED
        BY <1>9, <2>1, <2>2 DEF ApplyFilters
<1>10. CASE Show
    BY <1>0, <1>10 DEF Show
<1>11. CASE Record
    <2>1. CASE Abort /\ UNCHANGED stats
        BY <1>0, <1>11, <2>1 DEF Record, Abort
    <2>2. CASE stats' = Counted("total") /\ pc' = "loop" /\ UNCHANGED exit_code
        BY <1>0, <1>11, <2>2, CountedType DEF Record
    <2> QED
        BY <1>11, <2>1, <2>2 DEF Record
<1>12. CASE Finish
    BY <1>0, <1>12 DEF Finish
<1>13. CASE handle_sigint \/ UNCHANGED vars
    BY <1>0, <1>13 DEF handle_sigint, vars, counts
<1> QED
    BY <1>1, <1>2, <1>3, <1>4, <1>5, <1>6, <1>7, <1>8, <1>9, <1>10, <1>11, <1>12, <1>13
    DEF Next, Step, Returned

(* Only Record adds to the files, and it adds the packet it counts; only a *)
(* close that succeeds returns 0.                                          *)
LEMMA FilesStep ==
    ASSUME TypeOK, Holdings, Counts, Files, [Next]_vars
    PROVE  Files'
<1> USE DEF Files, Skip, Exit
<1>0. /\ {"raw", "parse_failures", "filtered", "total"} = StatNames
      /\ outputs \in [rows : Nat, on_disk : Nat, dumped : Nat]
      /\ \A n \in StatNames : stats[n] \in Nat
    BY DEF StatNames, TypeOK
<1>1. CASE install_sigint_handler
    BY <1>1 DEF install_sigint_handler, Fail, counts
<1>2. CASE StartupStep
    <2>1. UNCHANGED <<config, stats, outputs>>
        BY <1>2 DEF StartupStep, counts
    <2>2. exit_code' = exit_code \/ exit_code' = 1
        BY <1>2 DEF StartupStep, OpenSource, CheckDatalink, open_pcap_writer,
                    InitFragmentTable, InitFlowTable, csv_logger_open, Acquire, Fail
    <2> QED
        BY <2>1, <2>2
<1>3. CASE LoopTest
    BY <1>3 DEF LoopTest, counts
<1>4. CASE pcap_next_ex
    BY <1>0, <1>4, SomeOnDiskType, CountedType DEF pcap_next_ex, Abort
<1>5. CASE Parse
    BY <1>0, <1>5, CountedType DEF Parse
<1>6. CASE Reassemble
    BY <1>0, <1>6, CountedType DEF Reassemble, Acquire
<1>7. CASE FindFlow
    BY <1>7 DEF FindFlow, counts
<1>8. CASE DecodePacket
    BY <1>8 DEF DecodePacket, counts
<1>9. CASE ApplyFilters
    BY <1>0, <1>9, CountedType DEF ApplyFilters
<1>10. CASE Show
    BY <1>10 DEF Show
<1>11. CASE Record
    <2>1. CASE Abort /\ UNCHANGED stats
        BY <1>0, <1>11, <2>1, SomeOnDiskType DEF Record, Abort
    <2>2. CASE /\ \E n \in csv_logger_write_packet :
                     outputs' = [rows |-> outputs.rows + IF "log" \in owned THEN 1 ELSE 0,
                                 on_disk |-> n,
                                 dumped |-> outputs.dumped
                                              + IF "writer" \in owned THEN 1 ELSE 0]
               /\ stats' = Counted("total")
               /\ exit_code' = exit_code
        <3>1. /\ "log" \in owned <=> config.log
              /\ "writer" \in owned <=> config.write
            BY <1>11 DEF Record, Holdings, Logging, Following, Assembling, Writing, Opened,
                         PcValues, Startup, InHand
        <3>2. stats'["total"] = stats["total"] + 1
            BY <1>0, <2>2, CountedType
        <3>3. exit_code' # 0 /\ UNCHANGED config
            BY <1>11, <2>2 DEF Record, Counts
        <3> QED
            BY <1>0, <2>2, <3>1, <3>2, <3>3 DEF csv_logger_write_packet
    <2> QED
        BY <1>11, <2>1, <2>2 DEF Record
<1>12. CASE Finish
    BY <1>0, <1>12, SomeOnDiskType DEF Finish
<1>13. CASE handle_sigint \/ UNCHANGED vars
    BY <1>13 DEF handle_sigint, vars, counts
<1> QED
    BY <1>1, <1>2, <1>3, <1>4, <1>5, <1>6, <1>7, <1>8, <1>9, <1>10, <1>11, <1>12, <1>13
    DEF Next, Step, Returned

(* The stream decoder and the packet decoder each record what they found,  *)
(* and what the filter and the display read was written for this packet.   *)
LEMMA LabelsStep ==
    ASSUME TypeOK, Labels, [Next]_vars
    PROVE  Labels'
<1> USE DEF Labels, Decoded, Skip, Exit
<1>0. /\ flow_state \in [Flows -> FlowFlags] /\ packet \in PacketInHand
      /\ NoFlow \notin Flows
    BY CaptureAssumption DEF TypeOK
<1>1. CASE install_sigint_handler
    BY <1>1 DEF install_sigint_handler, Fail
<1>2. CASE StartupStep
    <2>1. pc' \notin Decoded \cup {"fragment", "flow"}
        BY <1>2 DEF StartupStep, OpenSource, CheckDatalink, open_pcap_writer,
                    InitFragmentTable, InitFlowTable, csv_logger_open, Acquire, Fail
    <2> QED
        BY <2>1
<1>3. CASE LoopTest
    BY <1>3 DEF LoopTest
<1>4. CASE pcap_next_ex
    BY <1>4 DEF pcap_next_ex, Abort
<1>5. CASE Parse
    <2>1. CASE pc' = "loop"
        BY <2>1
    <2>2. CASE packet' = NoPacket
        BY <1>5, <2>2 DEF Parse, NoPacket
    <2>3. CASE \E f \in Flows \cup {NoFlow} : packet' = [NoPacket EXCEPT !.flow = f]
        BY <1>5, <2>3, ParsedType DEF Parse
    <2> QED
        BY <1>5, <2>1, <2>2, <2>3 DEF Parse
<1>6. CASE Reassemble
    <2>1. CASE UNCHANGED packet /\ pc' = "flow"
        BY <1>6, <2>1 DEF Reassemble
    <2>2. CASE pc' = "loop"
        BY <2>2
    <2>3. CASE \E f \in Flows \cup {NoFlow} : packet' = [NoPacket EXCEPT !.flow = f]
        BY SMTT(30), <1>6, <2>3, ParsedType DEF Reassemble, Acquire
    <2> QED
        BY <1>6, <2>1, <2>2, <2>3 DEF Reassemble
<1>7. CASE FindFlow
    <2>0. pc = "flow" /\ pc' = "decode"
        BY <1>7 DEF FindFlow
    <2>1. CASE /\ packet' = [packet EXCEPT !.flow = NoFlow]
               /\ UNCHANGED flow_state
        BY <1>0, <2>0, <2>1 DEF PacketInHand
    <2>2. CASE /\ packet.flow # NoFlow
               /\ \E f \in {flow_state[packet.flow], FreshFlow}, decoded \in BOOLEAN :
                     /\ flow_state' = [flow_state EXCEPT
                            ![packet.flow] = [f EXCEPT !.app_classified =
                                                  f.app_classified \/ decoded]]
                     /\ packet' = [packet EXCEPT
                            !.flow_app = f.app_classified \/ decoded,
                            !.flow_was_classified = f.app_classified,
                            !.app_source = IF f.app_classified \/ decoded
                                           THEN "flow" ELSE @]
        <3>1. PICK f \in {flow_state[packet.flow], FreshFlow}, decoded \in BOOLEAN :
                 /\ flow_state' = [flow_state EXCEPT
                        ![packet.flow] = [f EXCEPT !.app_classified =
                                              f.app_classified \/ decoded]]
                 /\ packet' = [packet EXCEPT
                        !.flow_app = f.app_classified \/ decoded,
                        !.flow_was_classified = f.app_classified,
                        !.app_source = IF f.app_classified \/ decoded
                                       THEN "flow" ELSE @]
            BY <2>2
        <3>2. packet.flow \in Flows
            BY <1>0, <2>2 DEF PacketInHand
        <3>3. f \in FlowFlags
            <4>1. FreshFlow \in FlowFlags
                BY DEF FlowFlags, FreshFlow
            <4>2. flow_state[packet.flow] \in FlowFlags
                BY <1>0, <3>2
            <4> QED
                BY <4>1, <4>2
        <3>4. flow_state'[packet.flow].app_classified = (f.app_classified \/ decoded)
            BY <1>0, <3>1, <3>2, <3>3 DEF FlowFlags
        <3>5. /\ packet'.flow = packet.flow
              /\ packet'.packet_app = packet.packet_app
              /\ packet'.flow_app = (f.app_classified \/ decoded)
              /\ packet'.flow_was_classified = f.app_classified
              /\ packet'.app_source = IF f.app_classified \/ decoded
                                      THEN "flow" ELSE packet.app_source
            BY <1>0, <3>1 DEF PacketInHand
        <3> QED
            BY <2>0, <3>2, <3>4, <3>5
    <2> QED
        BY ZenonT(40), <1>7, <2>1, <2>2 DEF FindFlow
<1>8. CASE DecodePacket
    <2>0. pc = "decode" /\ pc' = "filter"
        BY <1>8 DEF DecodePacket
    <2>1. CASE UNCHANGED <<flow_state, packet>>
        BY <2>0, <2>1
    <2>2. CASE /\ packet' = [packet EXCEPT !.packet_app = TRUE, !.app_source = "packet",
                                           !.flow_app = @ \/ packet.flow # NoFlow]
               /\ flow_state' = [f \in Flows |->
                      IF f = packet.flow THEN [flow_state[f] EXCEPT !.app_classified = TRUE]
                      ELSE flow_state[f]]
        <3>1. /\ packet'.packet_app /\ packet'.app_source = "packet"
              /\ packet'.flow = packet.flow
              /\ packet'.flow_was_classified = packet.flow_was_classified
              /\ packet'.flow_app = (packet.flow_app \/ packet.flow # NoFlow)
            BY <1>0, <2>2 DEF PacketInHand
        <3>2. packet.flow \in Flows => flow_state'[packet.flow].app_classified
            BY <1>0, <2>2 DEF FlowFlags
        <3>3. packet'.flow_app => packet.flow \in Flows
            BY <1>0, <2>0, <3>1 DEF PacketInHand
        <3> QED
            BY <2>0, <3>1, <3>2, <3>3
    <2> QED
        BY <1>8, <2>1, <2>2 DEF DecodePacket
<1>9. CASE ApplyFilters
    <2>1. CASE AppFiltersMayMatch /\ Skip("show") /\ UNCHANGED packet
        BY <1>9, <2>1 DEF ApplyFilters, AppFiltersMayMatch
    <2>2. CASE pc' = "loop"
        BY <2>2
    <2> QED
        BY <1>9, <2>1, <2>2 DEF ApplyFilters
<1>10. CASE Show
    BY <1>0, <1>10 DEF Show
<1>11. CASE Record
    BY <1>11 DEF Record, Abort
<1>12. CASE Finish
    BY <1>12 DEF Finish
<1>13. CASE handle_sigint \/ UNCHANGED vars
    BY <1>13 DEF handle_sigint, vars
<1> QED
    BY <1>1, <1>2, <1>3, <1>4, <1>5, <1>6, <1>7, <1>8, <1>9, <1>10, <1>11, <1>12, <1>13
    DEF Next, Step, Returned

(* The flag is read once per packet: a signal that comes after the test    *)
(* lets through the one packet that the test had admitted.                 *)
LEMMA StopBoundStep ==
    ASSUME TypeOK, StopBound, [Next]_vars
    PROVE  StopBound'
<1> USE DEF StopBound, StopIsPrompt, Skip, Exit
<1>0. /\ {"raw", "parse_failures", "filtered", "total"} = StatNames
      /\ \A n \in StatNames : stats[n] \in Nat
      /\ raw_at_stop \in Nat
    BY DEF StatNames, TypeOK
<1>1. CASE install_sigint_handler
    BY <1>1 DEF install_sigint_handler
<1>2. CASE StartupStep
    <2>1. pc' # "next"
        BY <1>2 DEF StartupStep, OpenSource, CheckDatalink, open_pcap_writer,
                    InitFragmentTable, InitFlowTable, csv_logger_open, Acquire, Fail
    <2> QED
        BY <1>2, <2>1 DEF StartupStep, signal, counts
<1>3. CASE LoopTest
    BY <1>0, <1>3 DEF LoopTest, signal, counts
<1>4. CASE pcap_next_ex
    BY <1>0, <1>4, CountedType DEF pcap_next_ex, Abort, signal
<1>5. CASE Parse
    BY <1>0, <1>5, CountedType DEF Parse, signal
<1>6. CASE Reassemble
    BY <1>0, <1>6, CountedType DEF Reassemble, Acquire, signal
<1>7. CASE FindFlow
    BY <1>7 DEF FindFlow, signal, counts
<1>8. CASE DecodePacket
    BY <1>8 DEF DecodePacket, signal, counts
<1>9. CASE ApplyFilters
    BY <1>0, <1>9, CountedType DEF ApplyFilters, signal
<1>10. CASE Show
    BY <1>10 DEF Show, signal
<1>11. CASE Record
    BY <1>0, <1>11, CountedType DEF Record, Abort, signal
<1>12. CASE Finish
    BY <1>12 DEF Finish, signal
<1>13. CASE handle_sigint
    BY <1>0, <1>13 DEF handle_sigint, counts
<1>14. CASE UNCHANGED vars
    BY <1>14 DEF vars
<1> QED
    BY <1>1, <1>2, <1>3, <1>4, <1>5, <1>6, <1>7, <1>8, <1>9, <1>10, <1>11, <1>12, <1>13, <1>14
    DEF Next, Step, Returned
----------------------------------------------------------------------------
(* Before startup nothing is held, counted or written.                     *)
LEMMA IInvInit == Init => IInv
<1> SUFFICES ASSUME Init PROVE IInv
    OBVIOUS
<1> USE DEF Init
<1>1. TypeOK
    <2>1. packet \in PacketInHand
        BY DEF NoPacket, PacketInHand
    <2>2. flow_state \in [Flows -> FlowFlags]
        BY DEF FreshFlow, FlowFlags
    <2> QED
        BY <2>1, <2>2 DEF TypeOK, PcValues, Startup, Resources
<1>2. Holdings
    BY DEF Holdings, Opened, Writing, Assembling, Following, Logging
<1>3. Counts
    <2>1. config.max_packets \in Nat
        BY CaptureAssumption DEF ConfigType
    <2> QED
        BY <2>1 DEF Counts, FunnelComplete, InHand, Startup, StatNames
<1>4. Files /\ Labels /\ StopBound
    BY DEF Files, Labels, Decoded, StopBound, StopIsPrompt, StatNames
<1> QED
    BY <1>1, <1>2, <1>3, <1>4 DEF IInv

(* The invariant is inductive: main thread and signal handler preserve it. *)
LEMMA IInvStep == IInv /\ [Next]_vars => IInv'
BY TypeStep, HoldingsStep, CountsStep, FilesStep, LabelsStep, StopBoundStep DEF IInv

(* The inductive invariant holds throughout.                               *)
LEMMA Invariance == Spec => []IInv
BY IInvInit, IInvStep, PTL DEF Spec

(* Whichever way capture_start returns, after any startup failure, read or *)
(* write error, end of file or signal, it has freed every resource, and no *)
(* rebuilt packet outlives its iteration of the loop.                      *)
THEOREM Released == Spec => []EverythingReleased
<1>1. IInv => EverythingReleased
    <2> SUFFICES ASSUME IInv PROVE EverythingReleased
        OBVIOUS
    <2>1. ASSUME pc = "exit" PROVE owned = {}
        BY <2>1 DEF IInv, TypeOK, Resources, Holdings, Opened, Writing, Assembling,
                    Following, Logging, InHand
    <2>2. ASSUME pc \in {"loop", "next", "finish"} PROVE "assembled" \notin owned
        BY <2>2 DEF IInv, Holdings, InHand
    <2> QED
        BY <2>1, <2>2 DEF EverythingReleased
<1> QED
    BY <1>1, Invariance, PTL

(* Every packet that libpcap delivers is counted under exactly one of      *)
(* parse failure, filtered out and displayed, for every --count, filter    *)
(* and outcome of the parser.                                              *)
THEOREM Funnel == Spec => []FunnelComplete
<1>1. IInv => FunnelComplete
    BY DEF IInv, Counts
<1> QED
    BY <1>1, Invariance, PTL

(* Terminal, CSV log, pcap file and statistics agree between packets,      *)
(* --count is never exceeded, and the application shown is labelled with   *)
(* the decoder that found it.                                              *)
THEOREM Agreement == Spec => []OutputsAgree
<1>1. IInv => OutputsAgree
    <2> SUFFICES ASSUME IInv PROVE OutputsAgree
        OBVIOUS
    <2>1. ASSUME pc \in {"loop", "next", "finish"} \/ exit_code = 0
          PROVE  /\ stats["total"] = captured_packets
                 /\ config.log => outputs.rows = captured_packets
                 /\ config.write => outputs.dumped = captured_packets
        BY <2>1 DEF IInv, Counts, Files
    <2>2. config.max_packets # 0 => captured_packets <= config.max_packets
        BY DEF IInv, Counts
    <2>3. ASSUME pc = "record"
          PROVE  packet.app_source = IF packet.packet_app THEN "packet"
                                     ELSE IF packet.flow_app THEN "flow" ELSE "none"
        BY <2>3 DEF IInv, Labels, Decoded
    <2> QED
        BY <2>1, <2>2, <2>3 DEF OutputsAgree
<1> QED
    BY <1>1, Invariance, PTL

(* Exit status 0 means that every displayed packet has its row on disk,    *)
(* and without --flush-log exit no interruption or error loses a row.      *)
THEOREM RowsSaved == Spec => []RowsOnDisk
<1>1. IInv => RowsOnDisk
    BY DEF IInv, Counts, Files, RowsOnDisk
<1> QED
    BY <1>1, Invariance, PTL

(* With --reassemble a displayed packet's flow was announced before it,    *)
(* and one that passed an app filter belongs to a classified flow.         *)
THEOREM Announced == Spec => []ShownFlowAnnounced
<1>1. IInv => ShownFlowAnnounced
    <2> SUFFICES ASSUME IInv, pc = "record", config.reassemble, ~config.json
                 PROVE  /\ config.app_filter => packet.flow # NoFlow /\ packet.flow_app
                        /\ packet.flow_app => flow_state[packet.flow].app_event_printed
        BY DEF ShownFlowAnnounced
    <2> QED
        BY CaptureAssumption DEF IInv, Labels, Decoded
<1> QED
    BY <1>1, Invariance, PTL

(* After Ctrl+C, whenever it arrives, at most one more packet is taken     *)
(* from libpcap.                                                           *)
THEOREM PromptStop == Spec => []StopIsPrompt
<1>1. IInv => StopIsPrompt
    BY DEF IInv, StopBound
<1> QED
    BY <1>1, Invariance, PTL
============================================================================
