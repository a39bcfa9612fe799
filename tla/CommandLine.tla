---------------------------- MODULE CommandLine ----------------------------
(***************************************************************************)
(* The command line: cli_parse_args of src/cli.c on the defaults of        *)
(* src/config.c, and what main of src/main.c does with the result.         *)
(*                                                                         *)
(* A token is what its readers make of its text: the keyword it spells,    *)
(* its decimal value (-1 when it is not a plain number), its octets, and   *)
(* whether it begins with "--". An option is named after the field of      *)
(* AppConfig it sets; "no_color" clears color_enabled. A filter or path    *)
(* and its "enabled" flag are one field, Off while the flag is not set.    *)
(***************************************************************************)
EXTENDS Integers, Sequences

CONSTANTS
    CommandLines,               \* argv without the program name
    Off,                        \* an option that was not given
    Rejected,                   \* the verdict of a parser that refuses a text
    Canonical,                  \* address texts -> canonical texts
    IntMax, SizeMax,            \* INT_MAX, and SIZE_MAX and UINT32_MAX
    MAX_FLOWS, MAX_STREAM_BUFFER_BYTES, MAX_TOTAL_REASSEMBLY_BYTES,
    DEFAULT_MAX_FLOWS, DEFAULT_STREAM_BUFFER_BYTES

Token == [word : STRING, number : Int, text : Seq(Nat), dashed : BOOLEAN]

ASSUME CommandLineAssumption ==
    /\ CommandLines \subseteq Seq(Token) /\ Off # Rejected
    /\ {IntMax, SizeMax, MAX_FLOWS, MAX_STREAM_BUFFER_BYTES, MAX_TOTAL_REASSEMBLY_BYTES,
        DEFAULT_MAX_FLOWS, DEFAULT_STREAM_BUFFER_BYTES} \subseteq Nat \ {0}
    /\ DEFAULT_MAX_FLOWS <= MAX_FLOWS
    /\ DEFAULT_MAX_FLOWS <= (MAX_TOTAL_REASSEMBLY_BYTES \div 4) \div DEFAULT_STREAM_BUFFER_BYTES

VARIABLES
    argv, index,
    config,
    was_set,        \* the flow settings given: max_flows_was_set and its like
    status          \* how far main has come

commandVars == <<argv, index, config, was_set, status>>
----------------------------------------------------------------------------
(* The options.                                                            *)

Flags == {"version_requested", "list_interfaces", "quiet", "verbose", "no_color",
          "json_output", "no_bpf", "payload_display_enabled", "decode_app", "reassemble",
          "stats_mode"}

FlowSettings == {"max_flows", "stream_buffer_bytes", "flow_timeout_seconds"}

\* Positive numbers and the largest one accepted.
Limit == [max_packets |-> IntMax, filter_port |-> 65535, payload_preview_bytes |-> 256,
          payload_decode_bytes |-> 65535, max_flows |-> SizeMax,
          stream_buffer_bytes |-> SizeMax, flow_timeout_seconds |-> SizeMax]

\* Texts copied into a field of this size.
FieldSize == [interface_name |-> 64, log_path |-> 256, read_path |-> 256,
              write_path |-> 256, filter_http_host |-> 256, filter_http_method |-> 16,
              filter_dns_query |-> 256, filter_tls_sni |-> 256, filter_tls_alpn |-> 256]

\* Keywords; "idna" needs a build with libidn2.
Keywords == [filter_protocol |-> {"tcp", "udp", "icmp", "arp", "other"},
             log_flush_mode |-> {"always", "line", "exit"},
             filter_app_protocol |-> {"http", "dns", "tls", "dhcp", "mdns", "quic"},
             domain_match_mode |-> {"normalized", "exact"}]

DnsTypes == [A |-> 1, a |-> 1, NS |-> 2, ns |-> 2, CNAME |-> 5, cname |-> 5,
             AAAA |-> 28, aaaa |-> 28]
DhcpTypes == [discover |-> 1, offer |-> 2, request |-> 3, decline |-> 4, ack |-> 5,
              nak |-> 6, release |-> 7, inform |-> 8]

AppFilterFields ==
    {"filter_app_protocol", "filter_http_host", "filter_http_method", "filter_dns_query",
     "filter_dns_type", "filter_tls_sni", "filter_tls_alpn", "filter_dhcp_type",
     "filter_quic_version"}

ValueOptions ==
    DOMAIN Limit \cup DOMAIN FieldSize \cup DOMAIN Keywords \cup AppFilterFields
        \cup {"filter_host", "filter_payload_text", "filter_payload_hex"}

config_init_defaults ==
    [f \in Flags \cup ValueOptions |->
        CASE f \in Flags -> FALSE
          [] f = "interface_name" -> <<>>
          [] f = "max_packets" -> 0
          [] f = "payload_preview_bytes" -> 256
          [] f = "payload_decode_bytes" -> 2048
          [] f = "max_flows" -> DEFAULT_MAX_FLOWS
          [] f = "stream_buffer_bytes" -> DEFAULT_STREAM_BUFFER_BYTES
          [] f = "flow_timeout_seconds" -> 60
          [] f = "log_flush_mode" -> "line"
          [] f = "domain_match_mode" -> "normalized"
          [] OTHER -> Off]
----------------------------------------------------------------------------
(* The readers of a value.                                                 *)

\* parse_positive_int, parse_positive_size and parse_positive_uint32.
parse_positive(token, limit) ==
    IF token.number >= 1 /\ token.number <= limit THEN token.number ELSE Rejected

copy_arg(token, size) == IF Len(token.text) < size THEN token.text ELSE Rejected

parse_keyword(token, words) == IF token.word \in words THEN token.word ELSE Rejected

\* parse_dns_type and parse_dhcp_type: a name, else a number.
parse_code(token, names, limit) ==
    IF token.word \in DOMAIN names THEN names[token.word] ELSE parse_positive(token, limit)

\* Decimal or hexadecimal; zero is a version.
parse_quic_version(token) ==
    IF token.number >= 0 /\ token.number <= SizeMax THEN token.number ELSE Rejected

parse_ip_host(token) ==
    IF token.word \in DOMAIN Canonical THEN Canonical[token.word] ELSE Rejected

hex_value(o) ==
    CASE o \in 48..57 -> o - 48
      [] o \in 97..102 -> o - 87
      [] o \in 65..70 -> o - 55
      [] OTHER -> -1

\* isspace, ':' and '-' are skipped wherever they stand, inside an octet too.
parse_payload_hex_pattern(token) ==
    LET separator(o) == o \in {9, 10, 11, 12, 13, 32, 58, 45}
        digits == SelectSeq(token.text, LAMBDA o : ~separator(o))
    IN  IF /\ digits # <<>> /\ Len(digits) % 2 = 0 /\ Len(digits) <= 2 * 128
           /\ \A i \in DOMAIN digits : hex_value(digits[i]) >= 0
        THEN [i \in 1..(Len(digits) \div 2) |->
                 16 * hex_value(digits[2 * i - 1]) + hex_value(digits[2 * i])]
        ELSE Rejected

ParseValue(f, token) ==
    CASE f \in DOMAIN Limit -> parse_positive(token, Limit[f])
      [] f \in DOMAIN FieldSize -> copy_arg(token, FieldSize[f])
      [] f \in DOMAIN Keywords -> parse_keyword(token, Keywords[f])
      [] f = "filter_dns_type" -> parse_code(token, DnsTypes, 65535)
      [] f = "filter_dhcp_type" -> parse_code(token, DhcpTypes, 255)
      [] f = "filter_quic_version" -> parse_quic_version(token)
      [] f = "filter_host" -> parse_ip_host(token)
      [] f = "filter_payload_hex" -> parse_payload_hex_pattern(token)
      [] f = "filter_payload_text" ->
            IF Len(token.text) \in 1..128 THEN token.text ELSE Rejected
----------------------------------------------------------------------------
(* cli_parse_args.                                                         *)

CommandInit ==
    /\ argv \in CommandLines
    /\ index = 1 /\ was_set = {} /\ status = "parsing"
    /\ config = config_init_defaults

Option == argv[index]

fail_with_error == status' = "failed" /\ UNCHANGED <<index, config, was_set>>

\* Mutant of has_value: any next token is a value.
AnyValue(k) == k + 1 <= Len(argv)

has_value(k) == k + 1 <= Len(argv) /\ ~argv[k + 1].dashed

SetFlag ==
    /\ Option.dashed /\ Option.word \in Flags
    /\ config' = [config EXCEPT ![Option.word] = TRUE]
    /\ index' = index + 1
    /\ UNCHANGED <<was_set, status>>

SetValue ==
    /\ Option.dashed /\ Option.word \in ValueOptions
    /\ IF has_value(index) /\ ParseValue(Option.word, argv[index + 1]) # Rejected
       THEN /\ config' = [config EXCEPT ![Option.word] =
                             ParseValue(Option.word, argv[index + 1])]
            /\ was_set' = was_set \cup ({Option.word} \cap FlowSettings)
            /\ index' = index + 2
            /\ UNCHANGED status
       ELSE fail_with_error

\* --help ends parsing, before anything is validated.
Help ==
    /\ Option.dashed /\ Option.word = "help"
    /\ status' = "parsed"
    /\ UNCHANGED <<index, config, was_set>>

UnknownOption ==
    /\ ~Option.dashed \/ Option.word \notin Flags \cup ValueOptions \cup {"help"}
    /\ fail_with_error

ParseOption ==
    /\ status = "parsing" /\ index <= Len(argv)
    /\ SetFlag \/ SetValue \/ Help \/ UnknownOption
    /\ UNCHANGED argv

\* Mutant of BuffersTooLarge: one buffer per flow instead of four.
OneBufferPerFlow(c) ==
    c.max_flows > MAX_TOTAL_REASSEMBLY_BYTES \div c.stream_buffer_bytes

\* A flow has two directions, each with a stream and pending segments.
BuffersTooLarge(c) ==
    c.max_flows > (MAX_TOTAL_REASSEMBLY_BYTES \div 4) \div c.stream_buffer_bytes

\* The checks after the last option, whatever order the options came in.
Refused(c, given) ==
    \/ c.reassemble /\ ~c.decode_app
    \/ ~c.reassemble /\ given # {}
    \/ c.reassemble /\ c.max_flows > MAX_FLOWS
    \/ c.reassemble /\ c.stream_buffer_bytes > MAX_STREAM_BUFFER_BYTES
    \/ c.reassemble /\ BuffersTooLarge(c)
    \/ ~c.decode_app /\ \E f \in AppFilterFields : c[f] # Off

Validate ==
    /\ status = "parsing" /\ index > Len(argv)
    /\ status' = IF Refused(config, was_set) THEN "failed" ELSE "parsed"
    /\ UNCHANGED <<argv, index, config, was_set>>

args_requested_help == \E k \in 1..Len(argv) : argv[k].dashed /\ argv[k].word = "help"

\* The rest of main; argv is not read again.
Main ==
    /\ status = "parsed"
    /\ status' = IF args_requested_help \/ config.version_requested THEN "done"
                 ELSE IF config.list_interfaces THEN "listed" ELSE "capture"
    /\ argv' = <<>> /\ index' = 1
    /\ UNCHANGED <<config, was_set>>

CommandStep == ParseOption \/ Validate \/ Main

CommandSpec == CommandInit /\ [][CommandStep]_commandVars
----------------------------------------------------------------------------
(* A capture starts only with a configuration the rest of the program is   *)
(* built for: app filters and reassembly have their decoder, no flow       *)
(* setting is silently ignored, and four buffers for each of max_flows     *)
(* flows fit in MAX_TOTAL_REASSEMBLY_BYTES. It holds for every order and   *)
(* repetition of options, on the path around the checks that --help takes  *)
(* too, and although the aggregate is tested by a division that must not   *)
(* round the limit up nor divide by zero.                                  *)
CaptureConfigSound ==
    status = "capture" =>
        /\ config.reassemble => config.decode_app
        /\ \A f \in AppFilterFields : config[f] # Off => config.decode_app
        /\ was_set # {} => config.reassemble
        /\ config.max_flows > 0 /\ config.stream_buffer_bytes > 0
        /\ config.reassemble =>
              /\ config.max_flows <= MAX_FLOWS
              /\ 4 * config.max_flows * config.stream_buffer_bytes
                    <= MAX_TOTAL_REASSEMBLY_BYTES

(* The configuration is what the command line says, read as a whole: every *)
(* option up to --help has its last value and every other one its default, *)
(* no option was taken for a value nor a value for an option. A line is    *)
(* refused only if it has a token that is neither an option nor a          *)
(* readable value of the option before it, lacks a value, or is refused    *)
(* for what its options say together.                                      *)
ReadAsWritten ==
    LET helps == {k \in 1..Len(argv) : argv[k].dashed /\ argv[k].word = "help"}
        last == IF helps = {} THEN Len(argv)
                ELSE (CHOOSE k \in helps : \A j \in helps : k <= j) - 1
        IsOption(k, set) == argv[k].dashed /\ argv[k].word \in set
        readable(k) == ParseValue(argv[k].word, argv[k + 1]) # Rejected
        well_formed ==
            \A k \in 1..last :
                \/ IsOption(k, Flags)
                \/ IsOption(k, ValueOptions) /\ k < last /\ ~argv[k + 1].dashed /\ readable(k)
                \/ ~argv[k].dashed /\ k > 1 /\ IsOption(k - 1, ValueOptions)
        Given(f) == {k \in 1..last : argv[k].dashed /\ argv[k].word = f}
        Latest(f) == CHOOSE k \in Given(f) : \A j \in Given(f) : j <= k
        written == [f \in Flags \cup ValueOptions |->
                       IF Given(f) = {} THEN config_init_defaults[f]
                       ELSE IF f \in Flags THEN TRUE
                       ELSE ParseValue(f, argv[Latest(f) + 1])]
        refused == Refused(written, {f \in FlowSettings : Given(f) # {}})
    IN  /\ status = "parsed" => /\ well_formed /\ config = written
                                /\ helps = {} => ~refused
        /\ status = "failed" => IF well_formed THEN helps = {} /\ refused ELSE TRUE
============================================================================
