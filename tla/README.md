# MiniSniffer: TLA+ models and proofs

MiniSniffer is a passive packet sniffer: libpcap delivers frames, a parser takes
them apart, IPv4 fragments and TCP streams are optionally reassembled, decoders
name the application protocol, filters decide what is shown, and counters
account for all of it. The program is sequential except for its SIGINT handler.
What makes it hard is its input: packets arrive reordered, duplicated, cut short
and contradictory, and every table is bounded.

## Inventory

| Component | State | Operations | What makes it correct |
|---|---|---|---|
| TCP reassembly (`tcp_reassembly.c`) | next sequence, stream buffer, up to 8 pending segments, FIN/RST, `unusable`, counters | init, cleanup, track flags, process segment (with the flush loop), release buffers | decoders read consecutive bytes; nothing accepted is lost; caps hold; flags are remembered |
| Stream buffer (`stream_buffer.c`) | data, length, consumed | init, append, consume, clear, cleanup | a bounded FIFO, whatever compaction does |
| Flow table (`flow.c`) | array of flows, lifetime counters | get-or-create with three evictions, update, release, snapshot, cleanup | one flow per connection; closed and idle flows leave; every flow and anomaly counted once |
| IPv4 fragments (`ipv4_frag.c`) | array of datagrams with byte ranges, byte budget | expire, process (malformed, full, conflict, grow, store, rebuild), cleanup | what is rebuilt was received, at its place; budget exact |
| Capture loop (`capture.c`, `stats.c`) | handles, tables, counters, `should_stop` | startup, loop steps, error exits, shutdown, signal handler | all released on every exit; outputs and counters agree; end of file ends it, and so does Ctrl+C outside a live read |
| Pre-filter and filters (`capture.c`, `filters.c`) | configuration | build BPF, match | pushing filters to the kernel changes nothing visible |
| Parser (`parser.c`) | none between packets | link, IPv4, IPv6 + extensions, ARP, transport | no read beyond the capture; padding is not payload; the right transport |
| DNS decoder (`app_dns.c`, `byte_reader.c`) | none between calls | message, name, TCP frame | bounds, termination, the right name |
| Other decoders and dispatch (`app_*.c`) | none between calls | HTTP, TLS, QUIC, DHCP, choice of decoder by port or signature | the verdict on a stream does not depend on how it was cut, nor on which of the two dispatchers made it |
| Command line (`cli.c`, `config.c`, `main.c`) | configuration record, which flow settings were given | read an option, validate, start | the configuration is what was written; unsound combinations never start a capture |
| Output and logging (`output.c`, `csv_logger.c`) | log file, flush mode | open, write a row, close, print | a reader gets back what a packet said; no row is lost silently |

**How they interact.** `capture_start` takes one frame at a time through
`parser` → fragment table (a completed datagram is parsed again and replaces
the packet) → flow table (get-or-create, TCP reassembly of the packet's
direction, stream decoder) → packet decoder → filters → display, CSV, pcap
dump and statistics. The only shared state with a second actor is
`should_stop`, set by the signal handler. The flow table owns the reassembly
state of both directions of each flow; eviction moves counters from there to the
table's totals.

**Hard behaviours.** Reordering, duplication, overlap and sequence wrap; snap
length truncation; the same identification or connection used again; clocks
that jump; full tables and failed allocations; failure half way through startup
or through a packet; a signal at any point. `PROJECT.json` lists them
line by line under `hazards`.

## Modules

| Module | Models | State and steps |
|---|---|---|
| `InOrderStream` | what a decoder is promised | a run of stream positions that grows at its end, closes, or is discarded |
| `TcpReassembly` | one direction of `tcp_reassembly.c` | one variable per struct field; one action per API call; the flush loop one iteration per step |
| `TcpDirection` | the fields of a direction that the flow table reads, as operators giving the possible outcomes of each call | none |
| `TcpReassemblyCalls` | composition of the two | remembers the direction at the start of a call and compares at its return |
| `FlowTable` | `flow.c` and its use in `capture.c:739-792` | `pc` walks one packet through the evictions, lookup, creation and update |
| `Ipv4Fragments` | `ipv4_frag.c` | one action per outcome of `ipv4_fragment_table_process`; expiry one datagram per step |
| `Capture` | `capture_start`, `handle_sigint`, counters of `stats.c` | `pc` names the stage; every stage is an action; the handler interleaves anywhere |
| `CommandLine` | `cli.c`, `config.c`, `main.c` | one option per step, then validation, then main's decision |
| `Filters` | `filters.c` | operators on a configuration of `CommandLine` and a packet |
| `PreFilter` | `build_bpf_filter_expression`, `filters_match`, fragments and flows between them, behind a command line | two pipelines fed the same packets, with and without the kernel filter |
| `Parser` | `parser.c` on one frame | `pc` walks the layers; IPv6 extension headers one per step |
| `DnsName` | the first question of a DNS message, read off its octets | operators: the reference for `DnsMessage`, the DNS decoder of `AppDecoder` |
| `DnsMessage` | `app_dns.c` on one buffer | `pc` walks header, name (one label or pointer per step), question |
| `AppDecoder` | `app_http.c`, `app_tls.c`, `app_quic.c`, `app_dhcp.c`, `app_decoder.c` | operators from octets to a verdict and metadata |
| `OutputText` | text writers of `csv_logger.c` and `output.c`, and their readers | operators from octets to octets |
| `AppStream` | `capture.c:466-535` and `739-785`: composition of the two above | a stream grows by one segment per step, or one datagram arrives |
| `Sums` | the totals that loops over a table compute | a recursive function |
| `SequenceLemmas` | facts on numbers, sums and sequences the proofs share | none |
| `TcpReassemblyProofs`, `FlowTableProofs`, `Ipv4FragmentsProofs`, `CaptureProofs`, `PreFilterProofs`, `ParserProofs` | theorems about the module each is named for (`PreFilterProofs`: also `CommandLine`; `TcpReassemblyProofs`: also `TcpReassemblyCalls`) | see Proofs |
| `DecoderProofs` | theorems about `DnsMessage` and `AppStream`, with the lemmas on `AppDecoder`, `DnsName` and `OutputText` they rest on | see Proofs |
| `MC*` | values for the constants | |

Abstractions: a payload byte is its position in the sender's stream (and, for
fragments, the datagram it was sent in), so a wrong splice is visible; sequence
numbers are modulo `2 * HalfMod`, with the signed-difference comparison of the
code; an endpoint is a number ordered as `compare_endpoint` orders it;
in `FlowTable` and `Capture` application metadata is whether there is any, in
`PreFilter` given with the traffic, in `AppDecoder` read from octets. Header
sizes in `Parser` are the real ones; in `AppDecoder` the fixed parts (method
names, the random of a ClientHello, the BOOTP header, field sizes) are
parameters, and the summary texts are left out. A command-line token is what
its readers make of it: the word it spells, its number, its octets and whether
it begins with "--"; an option has the name of the field it sets. What a decoder, libpcap, `malloc` or the disk answers is a choice.
In `FlowTable` a segment's effect on its direction is any outcome `TcpDirection`
allows; `CallsMatchInterface` says that these include every outcome of
`TcpReassembly`, and `CallsKeepInterface` proves it. The stream buffer is a sequence with a capacity: the program
never calls `stream_buffer_consume`, so its compaction plays no part.

Definitions commented as mutants are seeded faults: each is a plausible wrong
version of the definition that follows it and is used by no specification. Put
in its place it makes one named property fail (`mutants` in `PROJECT.json`),
which shows that the property depends on that code.

## Runs

| Run | Shows |
|---|---|
| `tcp_reassembly` | Stream is contiguous, is the longest run of what was accepted, pending store exact and flushed to a fixpoint, refinement of `InOrderStream`, flush terminates, `TcpDirection` covers every call |
| `flow_table` | flow, closure and anomaly accounting; one flow per connection; closed flows leave; the idle ones leave, and only those, though clocks jump |
| `ipv4_fragments` | budget exact, ranges true, only received bytes at their own positions; on traffic where identifications are reused only after the timeout, a rebuilt datagram is one that was sent |
| `capture` | resources, counters, outputs, app source, rows on disk in each flush mode, at most one packet after Ctrl+C, which ends the program unless a live read never returns; a savefile ends it in any case |
| `command_filters` | the configuration is what the command line says; a capture starts only with a sound one; under it the kernel filter changes nothing unless `--port` is given |
| `parser` | reads and payload inside capture and datagram, IPv6 transport as in the reference |
| `dns_message` | reads inside the message, writes inside the output, decoded name equals a reference definition, termination on pointer cycles |
| `app_stream` | however a message is cut, the flow is classified as what was sent; verdicts are final; both dispatchers agree; CSV rows, JSON strings and terminal text can be read back and stay in their cell, string or line |

Four runs show where code and documentation disagree; TLC finds a
counterexample (`findings` in `PROJECT.json` quotes both sides):

| Run | Disagreement |
|---|---|
| `tcp_truncated_fin` | after a FIN segment cut by the snap length the stream gets a hole (`tcp_reassembly.c:322`) |
| `fin_forgotten` | a bare FIN is erased when the direction is initialised for a later payload (`tcp_reassembly.c:162`) |
| `flags_untracked` | flags of segments to an unusable direction are not recorded (`tcp_reassembly.c:236`) |
| `pre_filter_port` | `--port` in the kernel withholds non-first fragments (`capture.c:177`) |

More divergences were met and are not runs: a failed CSV write
(`capture.c:844`) leaves the packet in hand outside the `--stats` funnel that
`docs/architecture.md:43-45` calls a full accounting (`FunnelComplete` states the
exception); the sequencing
baseline is the first segment *with payload*, not the first captured one
(`docs/architecture.md`, TCP section), and with `--reassemble` app filters look
only at flow metadata, so UDP packets never pass one (`filters.c:268`). Two
smaller ones: `--payload-hex` accepts a separator inside an octet, although
`cli.c:448-449` says separators "are not allowed to split a single nibble from its
pair" (`parse_payload_hex_pattern` models the code), and octets above 127 are
printed raw into what `README.md:101` of the repository calls JSON Lines
(`output.c:194`). And `docs/architecture.md:17-19` gives the capture loop "Ctrl+C
shutdown", which on an idle live capture waits for the next packet (see
Fairness); that is up to libpcap, which is outside this model.

### Bounds

Counters are bounded in guards by named constants (`MaxDeliveries`,
`MaxPackets`, `MaxFragments`, `MaxRaw`).

* `tcp_reassembly`: five bytes starting three below the wrap of a 16-value
  sequence space, every cut of up to three bytes, a four-byte buffer (it
  overflows), two pending slots (they fill), five deliveries: enough for two
  stored segments, the one that fills the gap, a stale one and a duplicate.
* `flow_table`: two slots for three connections, three packets, times 0 and
  the timeout in any order: capacity, idle and closed eviction all happen, in
  the middle and at the end of the capture. The two runs beside it need one
  connection and three packets.
* `ipv4_fragments`: units of two bytes, datagrams of up to eight, two table slots
  for three keys, two ranges, a budget of six bytes; seven fragments from a
  well-behaved or from a hostile set suffice to fill each of them and to
  rebuild twice. `RebuiltIsSent` speaks of the behaviours whose traffic, clock
  and network kept the rules (`WellBehaved`).
* `capture`: three packets, two flows, `--count` off or two, every meaningful
  combination of options, both kinds of flush mode.
* `command_filters`: every line of up to two of 28 options with right and wrong
  values, three or four for those that depend on each other, with the program's
  own limits; `SizeMax` is 2^31-1 because TLC's integers end there. Then four
  deliveries of five datagrams of four connections, whole or in two fragments.
* `parser`: every captured length up to 100 octets in front of two IPv4 header
  lengths, three total lengths, up to two extension headers of each kind.
* `dns_message`: all messages of up to five octets from {0, 1, 2, 4, 64, 192}
  behind the header; two pointers allowed, so chains of three and cycles occur;
  name limit three, so it is exceeded by one label, by several and by the dot.
* `app_stream`: some 20 TCP messages on hinted and other ports, three messages
  with each octet damaged in turn, 2200 DNS and mDNS names made of the octets the
  writers treat specially, DHCP (with a repeated option) and QUIC datagrams; every
  way to cut them into segments of up to 40 octets; a decode window of eight
  octets or one larger than every message. A stream
  may begin at octet 0 or 2, so captures that start in the middle occur.

No symmetry is used: flows and keys are ordered where the code orders them.

### Fairness

The only fairness is weak fairness of the program's own steps: code that is in
the middle of a call goes on. Nothing is assumed of packets or signals, nor of
what the disk answers. `FlushTerminates` and `DecodingEnds` are the termination
of loops; `StopEnds` and `SavefileEnds` that of the program.

In `Capture` a live `pcap_next_ex` (`Waiting`) has no fairness at all. The
one-second timeout of `pcap_open_live` limits how long libpcap collects
packets before it hands them over; on an idle interface libpcap may wait
without limit (on Linux with TPACKET_V3 it polls without a timeout and polls
again after an interrupted system call). `handle_sigint` only sets a flag and
does not call `pcap_breakloop`, so Ctrl+C may take no effect until the next
packet. `StopEnds` is what remains true: outside such a read the signal ends the
program, and a read that returns is the last. A savefile is read without
waiting, which is all `SavefileEnds` needs; `MaxRaw` bounds its packets.

## Proofs

What TLC checks on a small instance is proved here for every value of the
constants that meets the named assumptions, and for any number of steps (the
bounds on counters are arbitrary natural numbers). The assumptions say what a
packet, a segment or a command line is; TLC evaluates each of them on the values
of its run.

| Module | Theorem | Proves |
|---|---|---|
| `TcpReassemblyProofs` | `TypeCorrect` | `TypeOK` |
| | `AccountIsExact` | `PendingAccounting` |
| | `StreamIsContiguous` | `StreamContiguous` (*) |
| | `PendingWaitsForGap` | `PendingBeyondGap` (*) |
| | `NothingAcknowledgedIsLost` | `StreamIsLongestRun` (*) |
| | `ImplementsReader` | `ReaderSpec`: a direction implements `InOrderStream` (*) |
| | `CallsKeepInterface` | `CallsMatchInterface`: a direction changes as `TcpDirection` says |
| `FlowTableProofs` | `Accounted` | `FlowAccounting` |
| | `OneFlow` | `OneFlowPerConnection` |
| | `Reclaimed` | `ClosedReclaimed` |
| | `IdleExactly` | `IdleEviction` |
| | `Conserved` | `AnomaliesConserved` |
| | `Closures` | `ClosuresCounted` |
| `Ipv4FragmentsProofs` | `NoLeak` | `BytesAccounted` |
| | `RangesAreData` | `RangesDescribeData` |
| | `Rebuilt` | `RebuiltFromFragments` |
| | `RebuiltAsSent` | `RebuiltIsSent` |
| `CaptureProofs` | `Released` | `EverythingReleased` |
| | `Funnel` | `FunnelComplete` |
| | `Agreement` | `OutputsAgree` |
| | `RowsSaved` | `RowsOnDisk` |
| | `Announced` | `ShownFlowAnnounced` |
| | `PromptStop` | `StopIsPrompt` |
| `PreFilterProofs` | `CaptureConfigAlwaysSound`, `CaptureStartsSound` | `CaptureConfigSound`, of `CommandLine` alone and in the composition |
| | `ConfigIsAsWritten` | `ReadAsWritten` |
| | `PreFilterIsTransparent` | `TransparentWithoutPort` |
| `ParserProofs` | `ReadsAreInside` | `ReadsInside` |
| | `PayloadIsInside` | `PayloadInDatagram` |
| | `FindsTransport` | `TransportFound` |
| `DecoderProofs` | `NeverLeavesTheMessage` | `StaysInside` |
| | `DecoderIsRight` | `DecodesTheName` |
| | `StreamVerdictIsFinal` | `VerdictFinal` |
| | `SniffingPathsAgree` | `PacketAgreesWithStream` |
| | `SentIsClassified` | `ClassifiedAsSent` (**) |
| | `TextIsIntact` | `TextIntact` |
| | `CsvRowIsIntact` | `CsvRowIntact` |

(*) on condition of `FullCapture` (no FIN segment lost its tail); the run
`tcp_truncated_fin` shows that they fail without it.

(**) on condition of `WellFormed`: a message of the traffic that is said to be
well-formed decodes, in one piece, as what it is said to be. The theorem then
gives the same for every cut. That the decoder finds what a sender meant is a
matter of the messages; the run checks it on its own, all of which satisfy
`WellFormed`.

### The arguments

None of these properties is inductive as it stands. What each needs besides:

* **TCP reassembly.** A step can only be shown to append the right byte if
  `next_sequence` means something. `IInv` adds that a pending segment is a
  non-empty run labelled with the sequence number of its first byte
  (`PendingLabelled`), that on a usable direction `next_sequence` is that of the
  position just after the stream, or after the FIN (`Sequencing`), and that
  the flush loop runs only on such a direction (`FlushContext`). The heart is
  `SerialArithmetic`: for positions less than half the sequence space apart the
  wrapped comparison agrees with the order of positions. `StreamIsLongestRun`
  speaks of the moment a call returns; `KeptHeld` holds in the middle of the flush
  as well: past the end of the stream the acknowledged bytes are exactly the
  ones in the pending store. `PendingAccounting` compares the running total with
  a sum over the pending entries (`Owned`), which insertion and removal change by
  one entry.
  `CallsMatchInterface` compares the state at the start of a call with that at
  its return, and a call that reaches the flush loop takes many steps. `CallInv`
  says what it has done so far: the flags of one segment are noted, and every
  event counted past the first has cost a pending entry (`InCall`), so no
  counter grows by more than `MaxPending + 1`.
* **Flow table.** Every flow leaves through `remove_flow_at`, so its effect on
  the indices is settled first. `OneFlowPerConnection` needs that keys are in the
  order `flow_key` gives them (`Keys`); `IdleEviction` that the eviction has
  ended when the packet is looked up (`NoIdleInTable`), that the guarded difference
  measures silence (`IdleIsSilent`), and that no other removal counts as idle
  (`OnlyEvictIdleCounts`); `AnomaliesConserved` that
  a direction without buffers of an unclassified flow has counted nothing,
  so that the `memset` of `direction_init` loses nothing (`NothingToForget`).
* **IPv4 fragments.** `AllSound` is kept for each datagram: ranges sorted,
  disjoint and inside the buffer (`Sorted`), exactly the covered bytes filled
  in (`Filling`), each at the position it was sent at (`Placed`), the header that
  of the first fragment once it is there (`HeaderKept`). Sorted adjacent ranges
  that leave no gap are what the code's test for completeness relies on.
  `RebuiltIsSent` needs the clock: no datagram was seen later than now
  (`Clocked`), none is expired when a fragment is looked up (`Fresh`), so
  everything in a datagram comes from what its last fragment was cut from
  (`OneOrigin`). The proof showed that the senders need not agree on their last
  fragments, and that condition was dropped from `WellBehaved`.
* **Capture loop.** `Holdings` says at which stages each resource is held,
  `Counts` and `Files` give the counters in the middle of a packet, `Labels`
  relates the loop's local variables to the flow, and `StopBound` counts
  from the loop test instead of from the signal, which may come at any step.
* **Command line and pre-filter.** Both sizes stay positive while options are
  read, so that the code never divides by zero (`Sizes`), and an accepted line was
  checked by `Refused` or asks for help, which main looks for again
  (`Accepted`); `DivisionBoundsProduct` shows that two truncating divisions bound
  the product. `ReadSoFar` is `ReadAsWritten` for the tokens already read.
  `TransparentWithoutPort` needs that nothing is delivered before the
  configuration is final (`NothingYet`), and the proof needed an assumption that
  the run satisfied silently: datagrams of one connection have its
  protocol and its hosts (`PreFilterAssumption`).
* **Parser.** The offset stays inside the datagram and the datagram inside the
  capture (`Bounds`), nothing is handed on before the transport header
  (`Payload`), and the walk is at the end of the headers skipped so far
  (`Walk`, `Position`), which is what the reference computes from the other end.
* **DNS.** `StaysInside` needs only bounds (`Within`). `DecodesTheName` compares a
  loop that writes the name front to back with a reference that is recursive in
  the number of pointers left and in the position: `InLoop` says that what has been
  written, followed by the reference's reading of what remains, is the reference's
  reading of the whole, and that the place to continue after the first pointer
  is the reference's; `BeforeLoop` and `BehindLoop` carry this to the header and to
  the question.
* **Application decoders.** `StreamInv` says that a flow classified by its stream
  holds what some start of the stream was decoded to, that the stream of an
  unclassified flow does not decode, and that a packet holds what its
  octets decode to. The rest is about the decoders: each of them, once it accepts
  a buffer, gives the same answer on every longer one (`HttpFinal`, `TlsFinal`,
  `DnsFinal`, `QuicFinal`, and `BufferFinal`, `StreamFinal` for the dispatch,
  where another decoder might have taken the longer buffer). HTTP needs that the
  first blank line stays the first, DNS that the reference's reading
  never looks past the octets that were there. For DHCP this is false: a cut
  datagram may show an earlier option in place of a repeated one
  that was cut off. The proof attempt found it, and `VerdictFinal` says so now; the
  run has such a datagram. Likewise `PacketAgreesWithStream` excepts a method
  name without a space behind it, which the packet dispatcher does not take for
  a request (`payload_starts_with_http`) and the stream decoder does.
* **Text.** `TextInv`: every field of the metadata, whichever decoder found it,
  and every captured payload is a sequence of octets 0..255. A writer
  puts one piece per octet in a row; the readers walk that row. If a reader maps a
  piece that stands anywhere to its octet and goes on behind it (`EscapeRead`,
  `PieceRead`, `RunRead`), it maps the row to the text. `CsvRowIntact` needs
  in addition that cells begin where their separators end (`RowPlaces`,
  `RowRead`), and that escaping neither hides nor creates a formula at the start
  of a cell (`FormulaStays`, `FormulaWasThere`).

Induction over data is done without the library's induction theorems, whose
operator parameters the provers cannot instantiate: `SequenceLemmas` derives
from `WFMin` and `NatLessThanWellFounded` that a set of naturals has a least
element (`LeastNumber`) and from it `IntervalInduction` on sets. A recursive
function equals its definition only if some function does; `RunningTotalExists`
and `SolutionExists` construct one, which lets the proofs unfold `SumSeq`,
`Parser`'s `StartAt` and `DnsName`'s `Names` and `Ends`. The scans of
`AppDecoder` and the readers of `OutputText` look ahead instead:
`DownwardSolution` does the same for a definition whose value at a position
depends on the positions behind it, `UpwardSolution` for one that depends on
those before, `ChainSolution` for one that puts an element in front of what
follows. `FlattenIs` says where the pieces of a flattened sequence lie
(`LaidOut`).

### Only model-checked

* Liveness, which is out of the prover's reach: `FlushTerminates`,
  `DecodingEnds`, `StopEnds`, `SavefileEnds`.
* That the messages of `MCAppStream` decode, in one piece, as what they were
  written to be (see (**) above).
* The properties of the four runs that TLC refutes.

## Not modelled

Device listing and the choice of the default device (`capture.c:233-455`): a
lookup in the list libpcap returns, without state and without a promise to check.
Comparison of internationalised names (`filters.c:152-173`): libidn2 does all of
it and the default build does not have it. Layout, fixed words, numbers,
addresses, colours and the printed report (`logger.c`, `stats_print`, most of
`output.c` and `common.c`): formatting without state. `stream_buffer_consume`
and `stream_buffer_clear`: nothing calls them. The id, flags and summary texts
of decoded messages. Defensive NULL tests no caller can trigger are left out where
a module's header says so.

Behaviour met while modelling that no property is about, because the repository
promises nothing of it: a segment from the middle of a stream that looks like a
message by itself classifies the whole flow (`ClassifiedAsSent` excepts it); an
ALPN list whose text is full makes its ClientHello malformed; when the log
cannot be opened, the pcap file created just before stays behind and `O_EXCL`
refuses the same command a second time (`capture.c:648-656`).

## Plan

1. Done: all components above; every safety property of every passing run is a
   theorem.
2. Left to model: the flow table's capacity behind the pre-filter, where the two
   pipelines may evict differently; UTF-8 in JSON output.

## Running

    tlc -config MCFlowTable.cfg MCFlowTable
    tlapm FlowTableProofs.tla

Each run's module and configuration are in `PROJECT.json`; the modules with
theorems are `SequenceLemmas` and those named `*Proofs`.
