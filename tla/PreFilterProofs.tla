-------------------------- MODULE PreFilterProofs --------------------------
(***************************************************************************)
(* Proofs about CommandLine and PreFilter, for every command line, every   *)
(* value of the limits and every set of datagrams.                         *)
(*                                                                         *)
(* CaptureConfigSound speaks of the moment a capture starts; the argument  *)
(* needs what is true while options are still read: the two sizes are      *)
(* positive, and a line that cli_parse_args accepted was not refused       *)
(* unless it asks for help, in which case main starts no capture.          *)
(*                                                                         *)
(* ReadAsWritten compares the configuration with the whole line. Its       *)
(* invariant, ReadSoFar, says the same of the part of the line that has    *)
(* been read, and that the next token is not the value of the last one.    *)
(*                                                                         *)
(* TransparentWithoutPort needs that nothing is delivered before the       *)
(* configuration is final, since the filters of the packets already shown  *)
(* would otherwise change behind them.                                     *)
(***************************************************************************)
EXTENDS PreFilter, SequenceLemmas, TLAPS

Sizes ==
    /\ DOMAIN config = Flags \cup ValueOptions
    /\ config.max_flows \in Nat \ {0}
    /\ config.stream_buffer_bytes \in Nat \ {0}

Accepted ==
    /\ status = "parsed" => args_requested_help \/ ~Refused(config, was_set)
    /\ status = "capture" => ~Refused(config, was_set)

Configured == argv \in Seq(Token) /\ index \in Nat \ {0} /\ Sizes /\ Accepted
----------------------------------------------------------------------------
(* The limit tested by two truncating divisions (BuffersTooLarge) bounds   *)
(* the product that the flow table may allocate.                           *)
LEMMA DivisionBoundsProduct ==
    ASSUME NEW T \in Nat, NEW s \in Nat \ {0}, NEW m \in Nat, m <= (T \div 4) \div s
    PROVE  4 * m * s <= T
<1> DEFINE q == T \div 4
           k == q \div s
<1>1. q \in Nat /\ 4 * q <= T
  OBVIOUS
<1>2. k \in Nat /\ s * k <= q
  <2> HIDE DEF q
  <2> QED
    BY <1>1
<1> HIDE DEF q, k
<1>3. m <= k
  BY DEF q, k
<1>4. s * m <= s * k
  BY <1>2, <1>3
<1>5. 4 * (s * m) <= T
  BY <1>1, <1>2, <1>4
<1> QED
  BY <1>5

(* parse_positive returns a positive number or refuses.                    *)
LEMMA PositiveValue ==
    ASSUME NEW f \in {"max_flows", "stream_buffer_bytes"}, NEW token \in Token,
           ParseValue(f, token) # Rejected
    PROVE  ParseValue(f, token) \in Nat \ {0}
<1>1. /\ f \in DOMAIN Limit /\ f \notin DOMAIN FieldSize /\ f \notin DOMAIN Keywords
      /\ f \notin {"filter_dns_type", "filter_dhcp_type", "filter_quic_version",
                   "filter_host", "filter_payload_hex", "filter_payload_text"}
  BY DEF Limit, FieldSize, Keywords
<1>2. ParseValue(f, token) = parse_positive(token, Limit[f])
  BY <1>1, SMTT(30) DEF ParseValue
<1>3. token.number \in Int
  BY DEF Token
<1> DEFINE L == Limit[f]
<1> HIDE DEF L
<1>4. parse_positive(token, L) # Rejected
  BY <1>2 DEF L
<1>5. token.number >= 1 /\ parse_positive(token, L) = token.number
  BY <1>4, Zenon DEF parse_positive
<1> QED
  BY <1>2, <1>3, <1>5 DEF L

(* Both sizes the budget check divides by are set by options with a value. *)
LEMMA SizeOptions ==
    /\ "max_flows" \in ValueOptions /\ "stream_buffer_bytes" \in ValueOptions
    /\ "max_flows" \notin Flags /\ "stream_buffer_bytes" \notin Flags
  BY DEF ValueOptions, Limit, Flags

(* app_config_init: the default sizes are positive.                        *)
LEMMA DefaultSizes == CommandInit => Sizes
<1> SUFFICES ASSUME CommandInit PROVE Sizes
  OBVIOUS
<1>1. config = config_init_defaults
  BY DEF CommandInit
<1>2. DOMAIN config = Flags \cup ValueOptions
  BY <1>1 DEF config_init_defaults
<1>3. config["max_flows"] = DEFAULT_MAX_FLOWS
  BY <1>1, SizeOptions DEF config_init_defaults
<1>4. config["stream_buffer_bytes"] = DEFAULT_STREAM_BUFFER_BYTES
  BY <1>1, SizeOptions DEF config_init_defaults
<1> QED
  BY <1>2, <1>3, <1>4, CommandLineAssumption DEF Sizes
----------------------------------------------------------------------------
(* Before the first option is read the invariant holds.                    *)
LEMMA Initially == CommandInit => Configured
  BY DefaultSizes, CommandLineAssumption DEF CommandInit, Configured, Accepted

(* One option of cli_parse_args: a size that is set was read within its    *)
(* limits, so it stays positive.                                           *)
LEMMA OptionStep ==
    ASSUME Configured, ParseOption
    PROVE  Configured'
<1>1. argv' = argv /\ argv \in Seq(Token) /\ index \in 1..Len(argv)
  BY DEF Configured, ParseOption
<1>2. status = "parsing"
  BY DEF ParseOption
<1>3. CASE fail_with_error
  BY <1>1, <1>2, <1>3 DEF fail_with_error, Configured, Sizes, Accepted
<1>4. CASE SetFlag
  <2>1. config'.max_flows = config.max_flows
        /\ config'.stream_buffer_bytes = config.stream_buffer_bytes
        /\ DOMAIN config' = DOMAIN config
    BY <1>4, SizeOptions DEF SetFlag, Configured, Sizes
  <2>2. index' = index + 1 /\ status' = "parsing"
    BY <1>2, <1>4 DEF SetFlag
  <2> QED
    BY <1>1, <2>1, <2>2 DEF Configured, Sizes, Accepted
<1>5. CASE SetValue /\ ~fail_with_error
  <2> DEFINE v == ParseValue(Option.word, argv[index + 1])
  <2>1. /\ v # Rejected /\ index + 1 \in 1..Len(argv)
        /\ config' = [config EXCEPT ![Option.word] = v]
        /\ index' = index + 2 /\ status' = status
    BY <1>1, <1>5 DEF SetValue, has_value
  <2>2. argv[index + 1] \in Token
    BY <1>1, <2>1
  <2>3. ASSUME NEW f \in {"max_flows", "stream_buffer_bytes"}
        PROVE  config'[f] \in Nat \ {0}
    <3>1. CASE Option.word = f
      <4>1. v \in Nat \ {0}
        BY <2>1, <2>2, <3>1, PositiveValue
      <4> QED
        BY <2>1, <3>1, <4>1, SizeOptions DEF Configured, Sizes
    <3>2. CASE Option.word # f
      BY <2>1, <3>2 DEF Configured, Sizes
    <3> QED
      BY <3>1, <3>2
  <2>4. DOMAIN config' = Flags \cup ValueOptions
    BY <2>1 DEF Configured, Sizes
  <2>5. config'["max_flows"] \in Nat \ {0} /\ config'["stream_buffer_bytes"] \in Nat \ {0}
    BY <2>3
  <2> QED
    BY <1>1, <1>2, <2>1, <2>4, <2>5 DEF Configured, Sizes, Accepted
<1>6. CASE Help
  <2>1. args_requested_help'
    BY <1>1, <1>6 DEF Help, Option, args_requested_help
  <2> QED
    BY <1>1, <1>6, <2>1 DEF Help, Configured, Sizes, Accepted
<1> QED
  BY <1>3, <1>4, <1>5, <1>6 DEF ParseOption, UnknownOption

(* The checks after the last option: a line that passes them is accepted.  *)
LEMMA ValidateStep ==
    ASSUME Configured, Validate
    PROVE  Configured'
<1>1. /\ argv' = argv /\ index' = index /\ config' = config /\ was_set' = was_set
      /\ status' = IF Refused(config, was_set) THEN "failed" ELSE "parsed"
  BY DEF Validate
<1>2. Refused(config, was_set)' = Refused(config, was_set)
  BY <1>1 DEF Refused, BuffersTooLarge
<1> QED
  BY <1>1, <1>2 DEF Configured, Sizes, Accepted

(* main: help, a listing, a failed line, or a capture with an accepted     *)
(* configuration.                                                          *)
LEMMA MainStep ==
    ASSUME Configured, Main
    PROVE  Configured'
<1>1. config' = config /\ was_set' = was_set /\ argv' = <<>> /\ index' = 1
  BY DEF Main
<1>2. Refused(config, was_set)' = Refused(config, was_set)
  BY <1>1 DEF Refused, BuffersTooLarge
<1>3. status' = "capture" => ~Refused(config, was_set)
  BY DEF Main, Configured, Accepted
<1>4. status' # "parsed"
  BY DEF Main
<1> QED
  BY <1>1, <1>2, <1>3, <1>4 DEF Configured, Sizes, Accepted

(* Every step of reading a command line and of main keeps the invariant.   *)
LEMMA Inductive == Configured /\ [CommandStep]_commandVars => Configured'
<1> SUFFICES ASSUME Configured, [CommandStep]_commandVars PROVE Configured'
  OBVIOUS
<1>1. CASE UNCHANGED commandVars
  BY <1>1 DEF commandVars, Configured, Sizes, Accepted, args_requested_help, Refused, BuffersTooLarge
<1> QED
  BY <1>1, OptionStep, ValidateStep, MainStep DEF CommandStep

(* The invariant gives the claim at the moment a capture starts.           *)
LEMMA Implied == Configured => CaptureConfigSound
<1> SUFFICES ASSUME Configured, status = "capture"
             PROVE  /\ config.reassemble => config.decode_app
                    /\ \A f \in AppFilterFields : config[f] # Off => config.decode_app
                    /\ was_set # {} => config.reassemble
                    /\ config.max_flows > 0 /\ config.stream_buffer_bytes > 0
                    /\ config.reassemble =>
                          /\ config.max_flows <= MAX_FLOWS
                          /\ 4 * config.max_flows * config.stream_buffer_bytes
                                <= MAX_TOTAL_REASSEMBLY_BYTES
  BY DEF CaptureConfigSound
<1>1. ~Refused(config, was_set)
  BY DEF Configured, Accepted
<1>2. config.max_flows \in Nat \ {0} /\ config.stream_buffer_bytes \in Nat \ {0}
  BY DEF Configured, Sizes
<1>3. MAX_FLOWS \in Nat /\ MAX_TOTAL_REASSEMBLY_BYTES \in Nat
  BY CommandLineAssumption
<1>4. /\ config.reassemble => config.decode_app
      /\ was_set # {} => config.reassemble
      /\ \A f \in AppFilterFields : config[f] # Off => config.decode_app
  BY <1>1, Zenon DEF Refused
<1>5. ASSUME config.reassemble
      PROVE  /\ config.max_flows <= MAX_FLOWS
             /\ 4 * config.max_flows * config.stream_buffer_bytes
                   <= MAX_TOTAL_REASSEMBLY_BYTES
  <2>1. ~(config.max_flows > MAX_FLOWS) /\ ~BuffersTooLarge(config)
    BY <1>1, <1>5 DEF Refused
  <2>2. config.max_flows
            <= (MAX_TOTAL_REASSEMBLY_BYTES \div 4) \div config.stream_buffer_bytes
    BY <2>1, <1>2, <1>3 DEF BuffersTooLarge
  <2> QED
    BY <1>2, <1>3, <2>1, <2>2, DivisionBoundsProduct
<1> QED
  BY <1>2, <1>4, <1>5

(* cli_parse_args and main never start a capture with a configuration      *)
(* that breaks the dependencies between options or the memory limit.       *)
THEOREM CaptureConfigAlwaysSound == CommandSpec => []CaptureConfigSound
<1>1. CommandInit => Configured
  BY Initially
<1>2. Configured /\ [CommandStep]_commandVars => Configured'
  BY Inductive
<1>3. Configured => CaptureConfigSound
  BY Implied
<1> QED
  BY <1>1, <1>2, <1>3, PTL DEF CommandSpec

(* The pre-filter takes part in no decision about the command line: what   *)
(* is true of every parse is true of every capture.                        *)
THEOREM CaptureStartsSound == Spec => []CaptureConfigSound
<1>1. Init => Configured
    BY Initially DEF Init
<1>2. Configured /\ [Next]_vars => Configured'
    <2> SUFFICES ASSUME Configured, [Next]_vars PROVE Configured'
        OBVIOUS
    <2>1. [CommandStep]_commandVars
        BY DEF Next, vars, Command, Deliver, Done
    <2> QED
        BY <2>1, Inductive
<1> QED
    BY <1>1, <1>2, Implied, PTL DEF Spec
----------------------------------------------------------------------------
(* ReadAsWritten compares the configuration with the whole line; the loop  *)
(* of cli_parse_args has read a part of it. What the property says of the  *)
(* line a, restricted to its first n tokens:                               *)

IsOption(a, k, set) == a[k].dashed /\ a[k].word \in set

Formed(a, k, n) ==
    \/ IsOption(a, k, Flags)
    \/ IsOption(a, k, ValueOptions) /\ k < n /\ ~a[k + 1].dashed
         /\ ParseValue(a[k].word, a[k + 1]) # Rejected
    \/ ~a[k].dashed /\ k > 1 /\ IsOption(a, k - 1, ValueOptions)

AllFormed(a, n) == \A k \in 1..n : Formed(a, k, n)

GivenTo(a, f, n) == {k \in 1..n : a[k].dashed /\ a[k].word = f}

LatestTo(a, f, n) == CHOOSE k \in GivenTo(a, f, n) : \A j \in GivenTo(a, f, n) : j <= k

WrittenTo(a, n) ==
    [f \in Flags \cup ValueOptions |->
        IF GivenTo(a, f, n) = {} THEN config_init_defaults[f]
        ELSE IF f \in Flags THEN TRUE
        ELSE ParseValue(f, a[LatestTo(a, f, n) + 1])]

SettingsTo(a, n) == {f \in FlowSettings : GivenTo(a, f, n) # {}}

Helps(a) == {k \in 1..Len(a) : a[k].dashed /\ a[k].word = "help"}

LastOf(a) ==
    IF Helps(a) = {} THEN Len(a)
    ELSE (CHOOSE k \in Helps(a) : \A j \in Helps(a) : k <= j) - 1

(* The tokens read so far are well formed and were obeyed, and the next    *)
(* token is not the value of the one before it.                            *)
ReadSoFar ==
    /\ index \in 1..(Len(argv) + 1)
    /\ \A k \in 1..(index - 1) : k \notin Helps(argv)
    /\ AllFormed(argv, index - 1)
    /\ index > 1 => ~IsOption(argv, index - 1, ValueOptions)
    /\ config = WrittenTo(argv, index - 1)
    /\ was_set = SettingsTo(argv, index - 1)

AsWritten(a, n) ==
    /\ status = "parsed" =>
          /\ AllFormed(a, n) /\ config = WrittenTo(a, n)
          /\ Helps(a) = {} => ~Refused(WrittenTo(a, n), SettingsTo(a, n))
    /\ status = "failed" /\ AllFormed(a, n) =>
          Helps(a) = {} /\ Refused(WrittenTo(a, n), SettingsTo(a, n))

Parsed == (status = "parsing" => ReadSoFar) /\ ReadAsWritten

(* The property in these terms.                                            *)
LEMMA PropertyRestated == ReadAsWritten <=> AsWritten(argv, LastOf(argv))
<1>1. Helps(argv) = {k \in 1..Len(argv) : argv[k].dashed /\ argv[k].word = "help"}
    BY DEF Helps
<1> QED
    BY Zenon DEF ReadAsWritten, AsWritten, LastOf, Helps, AllFormed, Formed, IsOption, WrittenTo,
       SettingsTo, GivenTo, LatestTo

(* The same of the state after a step.                                     *)
LEMMA PropertyRestatedNext == ReadAsWritten' <=> AsWritten(argv, LastOf(argv))'
BY Zenon DEF ReadAsWritten, AsWritten, LastOf, Helps, AllFormed, Formed, IsOption, WrittenTo,
   SettingsTo, GivenTo, LatestTo

(* No name is both a flag and an option with a value, nor "help".          *)
LEMMA OptionNames ==
    /\ \A f \in Flags : f \notin ValueOptions /\ f \notin FlowSettings
    /\ "help" \notin Flags /\ "help" \notin ValueOptions
    /\ FlowSettings \subseteq ValueOptions
<1>1. \A f \in Flags : /\ f \notin DOMAIN Limit /\ f \notin DOMAIN FieldSize
                       /\ f \notin DOMAIN Keywords /\ f \notin AppFilterFields
                       /\ f \notin {"filter_host", "filter_payload_text", "filter_payload_hex"}
                       /\ f \notin FlowSettings
    BY DEF Flags, Limit, FieldSize, Keywords, AppFilterFields, FlowSettings
<1>2. /\ "help" \notin DOMAIN Limit /\ "help" \notin DOMAIN FieldSize
      /\ "help" \notin DOMAIN Keywords /\ "help" \notin AppFilterFields /\ "help" \notin Flags
      /\ "help" \notin {"filter_host", "filter_payload_text", "filter_payload_hex"}
    BY DEF Flags, Limit, FieldSize, Keywords, AppFilterFields
<1>3. FlowSettings \subseteq DOMAIN Limit
    BY DEF FlowSettings, Limit
<1> QED
    BY <1>1, <1>2, <1>3 DEF ValueOptions

(* One more token gives one option at most.                                *)
LEMMA GivenStep ==
    ASSUME NEW a, NEW f, NEW i \in Nat \ {0}
    PROVE  GivenTo(a, f, i) = IF a[i].dashed /\ a[i].word = f THEN GivenTo(a, f, i - 1) \cup {i}
                              ELSE GivenTo(a, f, i - 1)
<1>1. 1..i = (1..(i - 1)) \cup {i}
    OBVIOUS
<1> QED
    BY <1>1 DEF GivenTo

(* A flag adds itself to what is written.                                  *)
LEMMA FlagWritten ==
    ASSUME NEW a, NEW i \in Nat \ {0}, IsOption(a, i, Flags)
    PROVE  /\ WrittenTo(a, i) = [WrittenTo(a, i - 1) EXCEPT ![a[i].word] = TRUE]
           /\ SettingsTo(a, i) = SettingsTo(a, i - 1)
<1> DEFINE w == a[i].word
<1>1. w \in Flags /\ a[i].dashed
    BY DEF IsOption
<1>2. \A f : f # w => GivenTo(a, f, i) = GivenTo(a, f, i - 1)
    BY GivenStep
<1>3. GivenTo(a, w, i) # {}
    BY <1>1, GivenStep
<1> HIDE DEF w
<1>4. \A f \in Flags \cup ValueOptions :
         WrittenTo(a, i)[f] = IF f = w THEN TRUE ELSE WrittenTo(a, i - 1)[f]
    <2> SUFFICES ASSUME NEW f \in Flags \cup ValueOptions
                 PROVE  WrittenTo(a, i)[f] = IF f = w THEN TRUE ELSE WrittenTo(a, i - 1)[f]
        OBVIOUS
    <2>1. CASE f = w
        BY <1>1, <1>3, <2>1 DEF WrittenTo
    <2>2. CASE f # w
        <3>1. GivenTo(a, f, i) = GivenTo(a, f, i - 1) /\ LatestTo(a, f, i) = LatestTo(a, f, i - 1)
            BY <1>2, <2>2 DEF LatestTo
        <3> QED
            BY <2>2, <3>1 DEF WrittenTo
    <2> QED
        BY <2>1, <2>2
<1>5. /\ WrittenTo(a, i) = [f \in Flags \cup ValueOptions |-> WrittenTo(a, i)[f]]
      /\ DOMAIN WrittenTo(a, i - 1) = Flags \cup ValueOptions
    BY DEF WrittenTo
<1>6. WrittenTo(a, i) = [WrittenTo(a, i - 1) EXCEPT ![w] = TRUE]
    <2> DEFINE g == WrittenTo(a, i)
               h == WrittenTo(a, i - 1)
    <2> HIDE DEF g, h
    <2> QED
        BY <1>4, <1>5 DEF g, h
<1>7. SettingsTo(a, i) = SettingsTo(a, i - 1)
    BY <1>1, <1>2, OptionNames DEF SettingsTo
<1> QED
    BY <1>6, <1>7 DEF w

(* An option with a value replaces what was written for it before.         *)
LEMMA ValueWritten ==
    ASSUME NEW a, NEW i \in Nat \ {0}, IsOption(a, i, ValueOptions), ~a[i + 1].dashed
    PROVE  /\ WrittenTo(a, i + 1) =
                 [WrittenTo(a, i - 1) EXCEPT ![a[i].word] = ParseValue(a[i].word, a[i + 1])]
           /\ SettingsTo(a, i + 1) = SettingsTo(a, i - 1) \cup ({a[i].word} \cap FlowSettings)
<1> DEFINE w == a[i].word
           v == ParseValue(w, a[i + 1])
<1>1. w \in ValueOptions /\ w \notin Flags /\ a[i].dashed
    BY OptionNames DEF IsOption
<1>2. i + 1 \in Nat \ {0} /\ (i + 1) - 1 = i
    OBVIOUS
<1>3. \A f : GivenTo(a, f, i + 1) = GivenTo(a, f, i)
    <2> DEFINE k == i + 1
    <2>1. k \in Nat \ {0} /\ k - 1 = i /\ ~a[k].dashed
        BY <1>2
    <2> HIDE DEF k
    <2>2. \A f : GivenTo(a, f, k) = GivenTo(a, f, i)
        BY <2>1, GivenStep
    <2> QED
        BY <2>2 DEF k
<1>4. \A f : f # w => GivenTo(a, f, i + 1) = GivenTo(a, f, i - 1)
    BY <1>3, GivenStep
<1>5. GivenTo(a, w, i + 1) = GivenTo(a, w, i - 1) \cup {i}
    BY <1>1, <1>3, GivenStep
<1>6. LatestTo(a, w, i + 1) = i
    <2> DEFINE G == GivenTo(a, w, i + 1)
    <2>1. i \in G /\ \A j \in G : j \in Nat /\ j <= i
        BY <1>5 DEF GivenTo
    <2>2. LatestTo(a, w, i + 1) = CHOOSE k \in G : \A j \in G : j <= k
        BY DEF LatestTo
    <2> HIDE DEF G
    <2> DEFINE c == CHOOSE k \in G : \A j \in G : j <= k
    <2>3. c \in G /\ \A j \in G : j <= c
        BY <2>1
    <2> HIDE DEF c
    <2>4. c = i
        BY <2>1, <2>3
    <2> QED
        BY <2>2, <2>4 DEF c
<1> HIDE DEF w
<1>7. \A f \in Flags \cup ValueOptions :
         WrittenTo(a, i + 1)[f] = IF f = w THEN v ELSE WrittenTo(a, i - 1)[f]
    <2> SUFFICES ASSUME NEW f \in Flags \cup ValueOptions
                 PROVE  WrittenTo(a, i + 1)[f] = IF f = w THEN v ELSE WrittenTo(a, i - 1)[f]
        OBVIOUS
    <2>1. CASE f = w
        <3>1. GivenTo(a, w, i + 1) # {}
            BY <1>5
        <3>2. WrittenTo(a, i + 1)[w] = ParseValue(w, a[LatestTo(a, w, i + 1) + 1])
            BY <1>1, <3>1 DEF WrittenTo
        <3> QED
            BY <1>6, <2>1, <3>2
    <2>2. CASE f # w
        <3>1. /\ GivenTo(a, f, i + 1) = GivenTo(a, f, i - 1)
              /\ LatestTo(a, f, i + 1) = LatestTo(a, f, i - 1)
            BY <1>4, <2>2 DEF LatestTo
        <3> QED
            BY <2>2, <3>1 DEF WrittenTo
    <2> QED
        BY <2>1, <2>2
<1> DEFINE g == WrittenTo(a, i + 1)
           h == WrittenTo(a, i - 1)
<1>8. g = [f \in Flags \cup ValueOptions |-> g[f]] /\ DOMAIN h = Flags \cup ValueOptions
    BY DEF WrittenTo
<1>9. g = [h EXCEPT ![w] = v]
    <2> HIDE DEF g, h, v
    <2> QED
        BY <1>7, <1>8 DEF g, h
<1>10. SettingsTo(a, i + 1) = SettingsTo(a, i - 1) \cup ({w} \cap FlowSettings)
    BY <1>4, <1>5 DEF SettingsTo
<1> QED
    BY <1>9, <1>10 DEF w

(* While no "help" has been read, the end of the line, or the next "help", *)
(* is not before the token in hand.                                        *)
LEMMA LastFacts ==
    ASSUME NEW a \in Seq(Token), NEW i \in 1..(Len(a) + 1), \A k \in 1..(i - 1) : k \notin Helps(a)
    PROVE  /\ i \in Helps(a) => LastOf(a) = i - 1
           /\ i = Len(a) + 1 => Helps(a) = {} /\ LastOf(a) = i - 1
           /\ i \in 1..Len(a) /\ i \notin Helps(a) => LastOf(a) \in i..Len(a)
<1> DEFINE H == Helps(a)
           c == CHOOSE k \in H : \A j \in H : k <= j
<1>1. Len(a) \in Nat /\ H \subseteq 1..Len(a) /\ \A k \in H : k \in Nat /\ k >= i
    BY DEF Helps
<1>2. LastOf(a) = IF H = {} THEN Len(a) ELSE c - 1
    BY DEF LastOf
<1> HIDE DEF H
<1>3. H # {} => c \in H /\ \A j \in H : c <= j
    <2> SUFFICES ASSUME H # {} PROVE \E k \in H : \A j \in H : k <= j
        OBVIOUS
    <2>1. H \in SUBSET Nat
        BY <1>1
    <2> QED
        BY <2>1, LeastNumber
<1> HIDE DEF c
<1>4. i \in H => c = i
    <2> SUFFICES ASSUME i \in H PROVE c = i
        OBVIOUS
    <2>1. c \in Nat /\ c >= i /\ c <= i
        BY <1>1, <1>3
    <2> QED
        BY <2>1
<1>5. i = Len(a) + 1 => H = {}
    BY <1>1
<1>6. i \in 1..Len(a) /\ i \notin H => (H # {} => c - 1 \in i..Len(a))
    <2> SUFFICES ASSUME i \in 1..Len(a), i \notin H, H # {} PROVE c - 1 \in i..Len(a)
        OBVIOUS
    <2>1. c \in 1..Len(a) /\ c >= i /\ c # i
        BY <1>1, <1>3
    <2> QED
        BY <1>1, <2>1
<1> QED
    BY <1>1, <1>2, <1>4, <1>5, <1>6 DEF H

(* A refused or unreadable token makes the line ill-formed.                *)
LEMMA FailureIsJustified ==
    ASSUME argv \in Seq(Token), ReadSoFar, index <= Len(argv), fail_with_error, argv' = argv,
           \/ SetValue /\ ~(has_value(index) /\ ParseValue(Option.word, argv[index + 1]) # Rejected)
           \/ UnknownOption
    PROVE  Parsed'
<1> DEFINE i == index
           last == LastOf(argv)
<1>1. i \in 1..Len(argv) /\ Len(argv) \in Nat /\ status' = "failed"
    BY DEF ReadSoFar, fail_with_error
<1>2. i \notin Helps(argv)
    <2>1. ~(argv[i].dashed /\ argv[i].word = "help")
        BY OptionNames DEF SetValue, UnknownOption, Option
    <2> QED
        BY <2>1 DEF Helps
<1>3. last \in i..Len(argv)
    <2>1. \A k \in 1..(i - 1) : k \notin Helps(argv)
        BY DEF ReadSoFar
    <2> HIDE DEF i
    <2> QED
        BY <1>1, <1>2, <2>1, LastFacts
<1> HIDE DEF last
<1>4. ~Formed(argv, i, last)
    <2>1. CASE SetValue /\ ~(has_value(index) /\ ParseValue(Option.word, argv[index + 1]) # Rejected)
        <3>1. argv[i].dashed /\ argv[i].word \in ValueOptions /\ argv[i].word \notin Flags
            BY <2>1, OptionNames DEF SetValue, Option
        <3>2. ASSUME i < last, ~argv[i + 1].dashed, ParseValue(argv[i].word, argv[i + 1]) # Rejected
              PROVE  FALSE
            <4>1. i + 1 <= Len(argv)
                BY <1>1, <1>3, <3>2
            <4> QED
                BY <2>1, <3>2, <4>1 DEF has_value, Option
        <3> QED
            BY <3>1, <3>2 DEF Formed, IsOption
    <2>2. CASE UnknownOption
        <3>1. i > 1 => ~IsOption(argv, i - 1, ValueOptions)
            BY DEF ReadSoFar
        <3>2. ~argv[i].dashed \/ (argv[i].word \notin Flags /\ argv[i].word \notin ValueOptions)
            BY <2>2 DEF UnknownOption, Option
        <3>3. ~IsOption(argv, i, Flags) /\ ~IsOption(argv, i, ValueOptions)
            BY <3>2 DEF IsOption
        <3> QED
            BY <3>1, <3>3 DEF Formed
    <2> QED
        BY <2>1, <2>2
<1>5. ~AllFormed(argv, last)
    BY <1>1, <1>3, <1>4 DEF AllFormed
<1>6. AsWritten(argv, last)'
    BY <1>1, <1>5 DEF AsWritten, last
<1>7. ReadAsWritten'
    BY <1>6, PropertyRestatedNext DEF last
<1> QED
    BY <1>1, <1>7 DEF Parsed

(* One option of cli_parse_args.                                           *)
LEMMA OptionRead ==
    ASSUME argv \in Seq(Token), Parsed, ParseOption
    PROVE  Parsed'
<1> DEFINE i == index
<1>1. /\ status = "parsing" /\ index <= Len(argv) /\ argv' = argv /\ ReadSoFar
      /\ Len(argv) \in Nat /\ index \in 1..Len(argv)
    BY DEF ParseOption, Parsed, ReadSoFar
<1>2. /\ \A k \in 1..(index - 1) : k \notin Helps(argv)
      /\ AllFormed(argv, index - 1) /\ config = WrittenTo(argv, index - 1)
      /\ was_set = SettingsTo(argv, index - 1)
    BY <1>1 DEF ReadSoFar
<1>3. CASE SetFlag
    <2>1. /\ config' = [config EXCEPT ![argv[i].word] = TRUE] /\ index' = i + 1
          /\ was_set' = was_set /\ status' = "parsing" /\ IsOption(argv, i, Flags)
        BY <1>1, <1>3 DEF SetFlag, Option, IsOption
    <2>2. config' = WrittenTo(argv, i) /\ was_set' = SettingsTo(argv, i)
        <3>1. i \in Nat \ {0}
            BY <1>1
        <3> HIDE DEF i
        <3>2. /\ WrittenTo(argv, i) = [WrittenTo(argv, i - 1) EXCEPT ![argv[i].word] = TRUE]
              /\ SettingsTo(argv, i) = SettingsTo(argv, i - 1)
            BY <2>1, <3>1, FlagWritten
        <3> QED
            BY <1>2, <2>1, <3>2 DEF i
    <2>3. i \notin Helps(argv) /\ ~IsOption(argv, i, ValueOptions)
        BY <2>1, OptionNames DEF IsOption, Helps
    <2>4. AllFormed(argv, i)
        <3> SUFFICES ASSUME NEW k \in 1..i PROVE Formed(argv, k, i)
            BY DEF AllFormed
        <3>1. CASE k = i
            BY <2>1, <3>1 DEF Formed
        <3>2. CASE k # i
            <4>1. k \in 1..(i - 1)
                BY <1>1, <3>2
            <4>2. Formed(argv, k, i - 1)
                BY <1>2, <4>1 DEF AllFormed
            <4>3. k < i - 1 => k < i
                BY <1>1
            <4> QED
                BY <4>2, <4>3, Zenon DEF Formed
        <3> QED
            BY <3>1, <3>2
    <2>5. i \in 1..Len(argv) /\ index' - 1 = i /\ index' \in 1..(Len(argv) + 1)
        BY <1>1, <2>1
    <2>6. \A k \in 1..i : k \notin Helps(argv)
        <3>1. \A k \in 1..i : k = i \/ k \in 1..(i - 1)
            BY <2>5
        <3> QED
            BY <1>2, <2>3, <3>1
    <2> HIDE DEF i
    <2>7. ReadSoFar'
        BY <1>1, <2>2, <2>3, <2>4, <2>5, <2>6 DEF ReadSoFar
    <2>8. ReadAsWritten'
        BY <2>1 DEF ReadAsWritten
    <2> QED
        BY <2>7, <2>8 DEF Parsed
<1>4. CASE SetValue /\ has_value(index) /\ ParseValue(Option.word, argv[index + 1]) # Rejected
    <2> DEFINE v == ParseValue(argv[i].word, argv[i + 1])
    <2>1. /\ config' = [config EXCEPT ![argv[i].word] = v] /\ index' = i + 2
          /\ was_set' = was_set \cup ({argv[i].word} \cap FlowSettings)
          /\ status' = "parsing" /\ IsOption(argv, i, ValueOptions)
          /\ i + 1 <= Len(argv) /\ ~argv[i + 1].dashed /\ v # Rejected
        BY <1>1, <1>4 DEF SetValue, Option, IsOption, has_value
    <2>2. config' = WrittenTo(argv, i + 1) /\ was_set' = SettingsTo(argv, i + 1)
        <3>1. i \in Nat \ {0}
            BY <1>1
        <3> HIDE DEF i
        <3>2. /\ WrittenTo(argv, i + 1) = [WrittenTo(argv, i - 1) EXCEPT ![argv[i].word] = v]
              /\ SettingsTo(argv, i + 1) = SettingsTo(argv, i - 1) \cup ({argv[i].word} \cap FlowSettings)
            BY <2>1, <3>1, ValueWritten
        <3> HIDE DEF v
        <3> QED
            BY <1>2, <2>1, <3>2 DEF i
    <2>3. /\ i \notin Helps(argv) /\ i + 1 \notin Helps(argv)
          /\ ~IsOption(argv, i + 1, ValueOptions)
        BY <2>1, OptionNames DEF IsOption, Helps
    <2>4. AllFormed(argv, i + 1)
        <3> SUFFICES ASSUME NEW k \in 1..(i + 1) PROVE Formed(argv, k, i + 1)
            BY DEF AllFormed
        <3>0. i < i + 1 /\ i + 1 > 1 /\ (i + 1) - 1 = i
            BY <1>1
        <3>1. CASE k = i
            BY <2>1, <3>0, <3>1 DEF Formed
        <3>2. CASE k = i + 1
            <4>1. IsOption(argv, (i + 1) - 1, ValueOptions)
                BY <2>1, <3>0
            <4> QED
                BY <2>1, <3>0, <3>2, <4>1, Zenon DEF Formed
        <3>3. CASE k # i /\ k # i + 1
            <4>1. k \in 1..(i - 1)
                BY <1>1, <3>3
            <4>2. Formed(argv, k, i - 1)
                BY <1>2, <4>1 DEF AllFormed
            <4>3. k < i - 1 => k < i + 1
                BY <1>1
            <4> QED
                BY <4>2, <4>3, Zenon DEF Formed
        <3> QED
            BY <3>1, <3>2, <3>3
    <2> DEFINE n == i + 1
    <2>5. n \in 1..Len(argv) /\ index' - 1 = n /\ index' \in 1..(Len(argv) + 1)
        BY <1>1, <2>1
    <2>6. \A k \in 1..n : k \notin Helps(argv)
        <3>1. \A k \in 1..n : k = n \/ k = i \/ k \in 1..(i - 1)
            BY <1>1
        <3> QED
            BY <1>2, <2>3, <3>1
    <2>7. /\ config' = WrittenTo(argv, n) /\ was_set' = SettingsTo(argv, n)
          /\ ~IsOption(argv, n, ValueOptions) /\ AllFormed(argv, n)
        BY <2>2, <2>3, <2>4
    <2> HIDE DEF i, n
    <2>8. ReadSoFar'
        BY <1>1, <2>5, <2>6, <2>7 DEF ReadSoFar
    <2>9. ReadAsWritten'
        BY <2>1 DEF ReadAsWritten
    <2> QED
        BY <2>8, <2>9 DEF Parsed
<1>5. CASE SetValue /\ ~(has_value(index) /\ ParseValue(Option.word, argv[index + 1]) # Rejected)
    <2>1. fail_with_error
        BY <1>5 DEF SetValue
    <2> QED
        BY <1>1, <1>5, <2>1, FailureIsJustified
<1>6. CASE UnknownOption
    <2>1. fail_with_error
        BY <1>6 DEF UnknownOption
    <2> QED
        BY <1>1, <1>6, <2>1, FailureIsJustified
<1>7. CASE Help
    <2>1. status' = "parsed" /\ config' = config /\ was_set' = was_set /\ i \in Helps(argv)
        BY <1>1, <1>7 DEF Help, Option, Helps
    <2>2. LastOf(argv) = index - 1 /\ Helps(argv) # {}
        <3>1. i \in 1..(Len(argv) + 1) /\ \A k \in 1..(i - 1) : k \notin Helps(argv)
            BY <1>1, <1>2
        <3> HIDE DEF i
        <3>2. LastOf(argv) = i - 1
            BY <2>1, <3>1, LastFacts
        <3> QED
            BY <2>1, <3>2 DEF i
    <2>3. AsWritten(argv, LastOf(argv))'
        BY <1>1, <1>2, <2>1, <2>2 DEF AsWritten
    <2>4. ReadAsWritten'
        BY <2>3, PropertyRestatedNext
    <2> QED
        BY <2>1, <2>4 DEF Parsed
<1> QED
    BY <1>3, <1>4, <1>5, <1>6, <1>7 DEF ParseOption

(* The checks after the last option see the whole line.                    *)
LEMMA LineValidated ==
    ASSUME argv \in Seq(Token), Parsed, Validate
    PROVE  Parsed'
<1>1. /\ argv' = argv /\ config' = config /\ status = "parsing" /\ index > Len(argv)
      /\ status' = IF Refused(config, was_set) THEN "failed" ELSE "parsed"
      /\ ReadSoFar /\ Len(argv) \in Nat
    BY DEF Validate, Parsed
<1>2. /\ index = Len(argv) + 1 /\ index - 1 = Len(argv)
      /\ \A k \in 1..(index - 1) : k \notin Helps(argv)
      /\ AllFormed(argv, index - 1) /\ config = WrittenTo(argv, index - 1)
      /\ was_set = SettingsTo(argv, index - 1)
    BY <1>1 DEF ReadSoFar
<1>3. Helps(argv) = {} /\ LastOf(argv) = index - 1
    <2> DEFINE i == index
    <2>1. i \in 1..(Len(argv) + 1) /\ i = Len(argv) + 1 /\ \A k \in 1..(i - 1) : k \notin Helps(argv)
        BY <1>1, <1>2
    <2> HIDE DEF i
    <2>2. Helps(argv) = {} /\ LastOf(argv) = i - 1
        BY <2>1, LastFacts
    <2> QED
        BY <2>2 DEF i
<1> DEFINE n == LastOf(argv)
           r == Refused(config, was_set)
<1>4. AllFormed(argv, n) /\ config = WrittenTo(argv, n) /\ was_set = SettingsTo(argv, n)
    BY <1>2, <1>3
<1>5. Refused(WrittenTo(argv, n), SettingsTo(argv, n)) <=> r
    BY <1>4
<1> HIDE DEF r
<1>6. status' = IF r THEN "failed" ELSE "parsed"
    BY <1>1 DEF r
<1>7. AsWritten(argv, n)'
    <2>1. status' = "parsed" => ~Refused(WrittenTo(argv, n), SettingsTo(argv, n))
        BY <1>5, <1>6
    <2>2. status' = "failed" => Refused(WrittenTo(argv, n), SettingsTo(argv, n))
        BY <1>5, <1>6
    <2>3. LastOf(argv)' = LastOf(argv) /\ Helps(argv') = {}
        BY <1>1, <1>3
    <2> QED
        BY <1>1, <1>4, <2>1, <2>2, <2>3 DEF AsWritten
<1>8. ReadAsWritten'
    BY <1>7, PropertyRestatedNext
<1> QED
    BY <1>6, <1>8 DEF Parsed

(* Every step of reading a command line and of main keeps it as written.   *)
LEMMA ParsedKept ==
    ASSUME Configured, Parsed, [CommandStep]_commandVars
    PROVE  Parsed'
<1>1. argv \in Seq(Token)
    BY SMTT(30) DEF Configured
<1>2. CASE Main
    <2>1. status' \notin {"parsing", "parsed", "failed"}
        BY <1>2 DEF Main
    <2> QED
        BY <2>1 DEF Parsed, ReadAsWritten
<1>3. CASE UNCHANGED commandVars
    <2>1. UNCHANGED <<argv, index, config, was_set, status>>
        BY <1>3 DEF commandVars
    <2>2. AsWritten(argv, LastOf(argv))
        BY PropertyRestated DEF Parsed
    <2>3. AsWritten(argv, LastOf(argv))'
        BY <2>1, <2>2 DEF AsWritten
    <2>4. ReadAsWritten'
        BY <2>3, PropertyRestatedNext
    <2>5. (status = "parsing" => ReadSoFar)'
        BY <2>1 DEF Parsed, ReadSoFar
    <2> QED
        BY <2>4, <2>5 DEF Parsed
<1> QED
    BY <1>1, <1>2, <1>3, OptionRead, LineValidated DEF CommandStep

(* Nothing has been read and nothing is set.                               *)
LEMMA NothingRead == CommandInit => Parsed
<1> SUFFICES ASSUME CommandInit PROVE Parsed
    OBVIOUS
<1>1. /\ index = 1 /\ was_set = {} /\ config = config_init_defaults /\ status = "parsing"
      /\ argv \in Seq(Token) /\ Len(argv) \in Nat
    BY CommandLineAssumption DEF CommandInit
<1>2. \A f : GivenTo(argv, f, 0) = {}
    BY DEF GivenTo
<1>3. config = WrittenTo(argv, 0)
    <2>1. WrittenTo(argv, 0) = [f \in Flags \cup ValueOptions |-> config_init_defaults[f]]
        BY <1>2 DEF WrittenTo
    <2>2. config_init_defaults = [f \in Flags \cup ValueOptions |-> config_init_defaults[f]]
        <3>1. config_init_defaults \in
                 [Flags \cup ValueOptions -> {config_init_defaults[f] : f \in Flags \cup ValueOptions}]
            BY Zenon DEF config_init_defaults
        <3> QED
            BY <3>1
    <2> QED
        BY <1>1, <2>1, <2>2
<1>4. was_set = SettingsTo(argv, 0)
    BY <1>1, <1>2 DEF SettingsTo
<1>5. AllFormed(argv, 0)
    BY DEF AllFormed
<1>6. ReadSoFar
    <2>1. index - 1 = 0 /\ index \in 1..(Len(argv) + 1) /\ ~(index > 1) /\ 1..(index - 1) = {}
        BY <1>1
    <2> QED
        BY <1>3, <1>4, <1>5, <2>1 DEF ReadSoFar
<1> QED
    BY <1>1, <1>6 DEF Parsed, ReadAsWritten

(* Whatever line is given, cli_parse_args obeys every option up to "help"  *)
(* with its last value, takes no option for a value nor a value for an     *)
(* option, and refuses a line only for something that is wrong with it.    *)
THEOREM ConfigIsAsWritten == Spec => []ReadAsWritten
<1>1. Init => Configured /\ Parsed
    BY Initially, NothingRead DEF Init
<1>2. Configured /\ Parsed /\ [Next]_vars => Configured' /\ Parsed'
    <2> SUFFICES ASSUME Configured, Parsed, [Next]_vars PROVE Configured' /\ Parsed'
        OBVIOUS
    <2>1. [CommandStep]_commandVars
        BY DEF Next, vars, Command, Deliver, Done
    <2> QED
        BY <2>1, Inductive, ParsedKept
<1>3. Parsed => ReadAsWritten
    BY DEF Parsed
<1> QED
    BY <1>1, <1>2, <1>3, PTL DEF Spec
----------------------------------------------------------------------------
(* The pre-filter without a port.                                          *)

Apps == {Unknown} \cup {d.app : d \in Datagrams}
Holdings == {{}, {"first"}, {"rest"}}

PipelineTypes ==
    /\ got \in [Pipelines -> [Datagrams -> Holdings]]
    /\ flow_app \in [Pipelines -> [Connections -> Apps]]
    /\ shown \in [Pipelines -> SUBSET (Datagrams \X Parts)]

(* Packets are only handled once the configuration is final.               *)
NothingYet ==
    status # "capture" =>
        /\ \A p \in Pipelines : shown[p] = {}
        /\ \A p \in Pipelines, d \in Datagrams :
              got[p][d] = {} /\ flow_app[p][d.connection] = Unknown

Plain(d) == \A e \in Datagrams : e.connection = d.connection => ~e.ext

(* The pipelines agree about one datagram.                                 *)
Agree(d) ==
    /\ \A part \in Parts :
          <<d, part>> \in shown["bpf"] <=> <<d, part>> \in shown["software"]
    /\ Delivered("bpf", d, "whole") =>
          /\ got["bpf"][d] = got["software"][d]
          /\ flow_app["bpf"][d.connection] = flow_app["software"][d.connection]

PipelinesInv == PipelineTypes /\ NothingYet /\ TransparentWithoutPort

(* Without a port clause, the kernel treats the fragments of a datagram,   *)
(* and the datagrams of a connection, alike.                               *)
LEMMA DeliveredAlike ==
    ASSUME config.filter_port = Off, NEW d \in Datagrams, NEW e \in Datagrams,
           d.connection = e.connection, ~d.ext, ~e.ext, NEW part \in Parts
    PROVE  Delivered("bpf", e, part) <=> Delivered("bpf", d, "whole")
<1>1. d.protocol = e.protocol /\ d.hosts = e.hosts
    BY PreFilterAssumption
<1>2. ASSUME NEW clause \in build_bpf_filter_expression(config)
      PROVE  ClauseAccepts(clause, e, part) <=> ClauseAccepts(clause, d, "whole")
    <2>1. CASE clause[1] = "protocol"
        BY <1>1, <2>1 DEF ClauseAccepts
    <2>2. CASE clause[1] = "host"
        BY <1>1, <2>2 DEF ClauseAccepts
    <2>3. clause[1] \in {"protocol", "host"}
        BY DEF build_bpf_filter_expression
    <2> QED
        BY <2>1, <2>2, <2>3
<1> QED
    BY <1>2 DEF Delivered

(* The software filters repeat the kernel's decision: what it keeps from   *)
(* the program would not have been displayed.                              *)
LEMMA RejectedIsHidden ==
    ASSUME config.filter_port = Off, NEW d \in Datagrams, ~d.ext,
           ~Delivered("bpf", d, "whole"), NEW part \in Parts, NEW known
    PROVE  ~filters_match(config, Context(d, part, known))
<1> DEFINE v == View(d, part)
<1>1. Context(d, part, known).packet = v /\ v.protocol = d.protocol /\ v.hosts = d.hosts
    BY DEF Context, View
<1>2. PICK clause \in build_bpf_filter_expression(config) : ~ClauseAccepts(clause, d, "whole")
    BY DEF Delivered
<1> HIDE DEF v
<1>3. CASE clause[1] = "protocol"
    <2>1. clause[2] = config.filter_protocol /\ config.filter_protocol # Off
        BY <1>2, <1>3 DEF build_bpf_filter_expression
    <2>2. d.protocol # config.filter_protocol
        BY <1>2, <1>3, <2>1 DEF ClauseAccepts
    <2>3. ~protocol_filter_matches(config, v)
        BY <1>1, <2>1, <2>2 DEF protocol_filter_matches
    <2> QED
        BY <1>1, <2>3 DEF filters_match
<1>4. CASE clause[1] = "host"
    <2>1. clause[2] = config.filter_host /\ config.filter_host # Off
        BY <1>2, <1>4 DEF build_bpf_filter_expression
    <2>2. config.filter_host \notin d.hosts
        BY <1>2, <1>4, <2>1 DEF ClauseAccepts
    <2>3. ~host_filter_matches(config, v)
        BY <1>1, <2>1, <2>2 DEF host_filter_matches
    <2> QED
        BY <1>1, <2>3 DEF filters_match
<1>5. clause[1] \in {"protocol", "host"}
    BY <1>2 DEF build_bpf_filter_expression
<1> QED
    BY <1>3, <1>4, <1>5

(* The fragment table holds at most one of two fragments.                  *)
LEMMA FragmentTypes ==
    ASSUME NEW held \in Holdings, NEW part \in Parts
    PROVE  HeldAfter(held, part) \in Holdings /\ Effective(held, part) \in Parts
<1>1. CASE part = "whole"
    BY <1>1 DEF HeldAfter, Effective, Parts
<1>2. CASE part # "whole" /\ held = {}
    <2>1. held \cup {part} # {"first", "rest"} /\ part \notin held
        BY <1>2
    <2>2. HeldAfter(held, part) = {part} /\ Effective(held, part) = part
        BY <1>2, <2>1 DEF HeldAfter, Effective
    <2> QED
        BY <1>2, <2>2 DEF Parts, Holdings
<1>3. CASE part # "whole" /\ held # {}
    <2>1. part \in held \/ held \cup {part} = {"first", "rest"}
        BY <1>3 DEF Parts, Holdings
    <2>2. HeldAfter(held, part) = {}
        BY <1>3, <2>1 DEF HeldAfter
    <2> QED
        BY <2>2 DEF Holdings, Effective, Parts
<1> QED
    BY <1>1, <1>2, <1>3

(* One packet, in one pipeline: what it changes there.                     *)
LEMMA OnePipeline ==
    ASSUME PipelineTypes, NEW x \in Datagrams, NEW part \in Parts, Deliver(x, part),
           NEW p \in Pipelines
    PROVE  /\ got'[p] = IF Delivered(p, x, part)
                        THEN [got[p] EXCEPT ![x] = HeldAfter(@, part)] ELSE got[p]
           /\ flow_app'[p] =
                 IF Delivered(p, x, part) /\ HasFlow(x, Effective(got[p][x], part))
                 THEN [flow_app[p] EXCEPT ![x.connection] = IF @ = Unknown THEN x.app ELSE @]
                 ELSE flow_app[p]
           /\ shown'[p] =
                 IF /\ Delivered(p, x, part)
                    /\ filters_match(config, Context(x, Effective(got[p][x], part),
                                                     flow_app[p][x.connection]))
                 THEN shown[p] \cup {<<x, Effective(got[p][x], part)>>} ELSE shown[p]
<1>1. /\ got' = [q \in Pipelines |->
              IF Delivered(q, x, part)
              THEN [got[q] EXCEPT ![x] = HeldAfter(@, part)] ELSE got[q]]
      /\ flow_app' = [q \in Pipelines |->
              IF Delivered(q, x, part) /\ HasFlow(x, Effective(got[q][x], part))
              THEN [flow_app[q] EXCEPT ![x.connection] = IF @ = Unknown THEN x.app ELSE @]
              ELSE flow_app[q]]
      /\ shown' = [q \in Pipelines |->
              IF /\ Delivered(q, x, part)
                 /\ filters_match(config, Context(x, Effective(got[q][x], part),
                                                  flow_app[q][x.connection]))
              THEN shown[q] \cup {<<x, Effective(got[q][x], part)>>} ELSE shown[q]]
    BY Zenon DEF Deliver
<1> QED
    BY <1>1, Zenon

(* A packet keeps the types of both pipelines.                             *)
LEMMA DeliverTypes ==
    ASSUME PipelineTypes, NEW x \in Datagrams, NEW part \in Parts, Deliver(x, part)
    PROVE  PipelineTypes'
<1>1. ASSUME NEW p \in Pipelines
      PROVE  /\ got'[p] \in [Datagrams -> Holdings]
             /\ flow_app'[p] \in [Connections -> Apps]
             /\ shown'[p] \in SUBSET (Datagrams \X Parts)
    <2>1. /\ got[p] \in [Datagrams -> Holdings] /\ flow_app[p] \in [Connections -> Apps]
          /\ shown[p] \in SUBSET (Datagrams \X Parts)
        BY DEF PipelineTypes
    <2>2. got[p][x] \in Holdings /\ x.connection \in Connections /\ x.app \in Apps
        BY <2>1 DEF Connections, Apps
    <2> DEFINE held == got[p][x]
               seen == Effective(held, part)
    <2>3. HeldAfter(held, part) \in Holdings /\ seen \in Parts
        BY <2>2, FragmentTypes
    <2>4. got'[p] = got[p] \/ got'[p] = [got[p] EXCEPT ![x] = HeldAfter(held, part)]
        BY OnePipeline, Zenon
    <2>5. \/ flow_app'[p] = flow_app[p]
          \/ flow_app'[p] = [flow_app[p] EXCEPT ![x.connection] = x.app]
          \/ flow_app'[p] = [flow_app[p] EXCEPT ![x.connection] = @]
        <3>1. \/ flow_app'[p] = flow_app[p]
              \/ flow_app'[p] = [flow_app[p] EXCEPT ![x.connection] =
                                    IF @ = Unknown THEN x.app ELSE @]
            BY OnePipeline, Zenon
        <3> QED
            BY <3>1
    <2>6. shown'[p] = shown[p] \/ shown'[p] = shown[p] \cup {<<x, seen>>}
        BY OnePipeline, Zenon
    <2> HIDE DEF held, seen
    <2>7. got'[p] \in [Datagrams -> Holdings]
        BY <2>1, <2>3, <2>4
    <2>8. flow_app'[p] \in [Connections -> Apps]
        BY <2>1, <2>2, <2>5
    <2>9. shown'[p] \in SUBSET (Datagrams \X Parts)
        BY <2>1, <2>3, <2>6
    <2> QED
        BY <2>7, <2>8, <2>9
<1>2. /\ got' = [q \in Pipelines |-> got'[q]] /\ flow_app' = [q \in Pipelines |-> flow_app'[q]]
      /\ shown' = [q \in Pipelines |-> shown'[q]]
    BY DEF Deliver
<1> QED
    BY <1>1, <1>2 DEF PipelineTypes

(* A packet of one datagram changes nothing for another, except what its   *)
(* connection was classified as.                                           *)
LEMMA OthersUntouched ==
    ASSUME PipelineTypes, NEW x \in Datagrams, NEW part \in Parts, Deliver(x, part),
           NEW d \in Datagrams, NEW p \in Pipelines
    PROVE  /\ d # x => got'[p][d] = got[p][d]
           /\ d # x => \A q \in Parts : <<d, q>> \in shown'[p] <=> <<d, q>> \in shown[p]
           /\ d.connection # x.connection =>
                 flow_app'[p][d.connection] = flow_app[p][d.connection]
<1>1. got[p] \in [Datagrams -> Holdings] /\ flow_app[p] \in [Connections -> Apps]
    BY DEF PipelineTypes
<1>2. got'[p] = got[p] \/ got'[p] = [got[p] EXCEPT ![x] = HeldAfter(@, part)]
    BY OnePipeline, Zenon
<1>3. \/ flow_app'[p] = flow_app[p]
      \/ flow_app'[p] = [flow_app[p] EXCEPT ![x.connection] = IF @ = Unknown THEN x.app ELSE @]
    BY OnePipeline, Zenon
<1>4. \/ shown'[p] = shown[p]
      \/ shown'[p] = shown[p] \cup {<<x, Effective(got[p][x], part)>>}
    BY OnePipeline, Zenon
<1>5. d.connection \in Connections
    BY DEF Connections
<1> QED
    BY <1>1, <1>2, <1>3, <1>4, <1>5

(* Both pipelines treat a packet of a plain connection alike.              *)
LEMMA DeliverAgrees ==
    ASSUME PipelineTypes, config.filter_port = Off, NEW x \in Datagrams, NEW part \in Parts,
           Deliver(x, part), NEW d \in Datagrams, Plain(d),
           \A e \in Datagrams : Plain(e) => Agree(e)
    PROVE  Agree(d)'
<1>1. config' = config /\ Agree(d)
    BY DEF Deliver, commandVars
<1>2. Delivered("bpf", d, "whole")' = Delivered("bpf", d, "whole")
    BY <1>1 DEF Delivered
<1>3. "bpf" \in Pipelines /\ "software" \in Pipelines
    BY DEF Pipelines
<1>4. CASE d.connection # x.connection
    <2>1. d # x
        BY <1>4
    <2> QED
        BY <1>1, <1>2, <1>3, <1>4, <2>1, OthersUntouched DEF Agree
<1>5. CASE d.connection = x.connection
    <2>1. Plain(x) /\ ~x.ext /\ ~d.ext /\ "whole" \in Parts
        BY <1>5 DEF Plain, Parts
    <2>2. Agree(x)
        BY <2>1
    <2>3. /\ Delivered("bpf", x, part) <=> Delivered("bpf", d, "whole")
          /\ Delivered("bpf", x, part) <=> Delivered("bpf", x, "whole")
        BY <1>5, <2>1, DeliveredAlike
    <2>4. Delivered("software", x, part)
        BY DEF Delivered
    <2>5. /\ got["bpf"] \in [Datagrams -> Holdings] /\ got["software"] \in [Datagrams -> Holdings]
          /\ flow_app["bpf"] \in [Connections -> Apps]
          /\ flow_app["software"] \in [Connections -> Apps]
          /\ x.connection \in Connections
        BY <1>3 DEF PipelineTypes, Connections
    <2>6. CASE Delivered("bpf", x, part)
        <3> DEFINE held == got["software"][x]
                   known == flow_app["software"][x.connection]
                   seen == Effective(held, part)
        <3>1. got["bpf"][x] = held /\ flow_app["bpf"][x.connection] = known
            BY <2>2, <2>3, <2>6 DEF Agree
        <3>2. /\ got'["bpf"] = [got["bpf"] EXCEPT ![x] = HeldAfter(held, part)]
              /\ got'["software"] = [got["software"] EXCEPT ![x] = HeldAfter(held, part)]
            BY <1>3, <2>4, <2>6, <3>1, OnePipeline
        <3>3. got'["bpf"][x] = got'["software"][x]
            BY <2>5, <3>2
        <3>4. flow_app'["bpf"][x.connection] = flow_app'["software"][x.connection]
            <4>1. CASE HasFlow(x, seen)
                <5>1. /\ flow_app'["bpf"] = [flow_app["bpf"] EXCEPT ![x.connection] =
                                                IF @ = Unknown THEN x.app ELSE @]
                      /\ flow_app'["software"] = [flow_app["software"] EXCEPT ![x.connection] =
                                                IF @ = Unknown THEN x.app ELSE @]
                    BY <1>3, <2>4, <2>6, <3>1, <4>1, OnePipeline
                <5> QED
                    BY <2>5, <3>1, <5>1
            <4>2. CASE ~HasFlow(x, seen)
                <5>1. /\ flow_app'["bpf"] = flow_app["bpf"]
                      /\ flow_app'["software"] = flow_app["software"]
                    BY <1>3, <2>4, <2>6, <3>1, <4>2, OnePipeline
                <5> QED
                    BY <3>1, <5>1
            <4> QED
                BY <4>1, <4>2
        <3>5. \A q \in Parts : <<x, q>> \in shown'["bpf"] <=> <<x, q>> \in shown'["software"]
            <4>1. CASE filters_match(config, Context(x, seen, known))
                <5>1. /\ shown'["bpf"] = shown["bpf"] \cup {<<x, seen>>}
                      /\ shown'["software"] = shown["software"] \cup {<<x, seen>>}
                    BY <1>3, <2>4, <2>6, <3>1, <4>1, OnePipeline
                <5> QED
                    BY <2>2, <5>1 DEF Agree
            <4>2. CASE ~filters_match(config, Context(x, seen, known))
                <5>1. shown'["bpf"] = shown["bpf"] /\ shown'["software"] = shown["software"]
                    BY <1>3, <2>4, <2>6, <3>1, <4>2, OnePipeline
                <5> QED
                    BY <2>2, <5>1 DEF Agree
            <4> QED
                BY <4>1, <4>2
        <3>6. CASE d = x
            BY <1>2, <3>3, <3>4, <3>5, <3>6 DEF Agree
        <3>7. CASE d # x
            <4>1. /\ got'["bpf"][d] = got["bpf"][d] /\ got'["software"][d] = got["software"][d]
                  /\ \A q \in Parts : <<d, q>> \in shown'["bpf"] <=> <<d, q>> \in shown["bpf"]
                  /\ \A q \in Parts :
                        <<d, q>> \in shown'["software"] <=> <<d, q>> \in shown["software"]
                BY <1>3, <3>7, OthersUntouched
            <4> QED
                BY <1>1, <1>2, <1>5, <3>4, <4>1 DEF Agree
        <3> QED
            BY <3>6, <3>7
    <2>7. CASE ~Delivered("bpf", x, part)
        <3> DEFINE held == got["software"][x]
                   known == flow_app["software"][x.connection]
                   seen == Effective(held, part)
        <3>1. seen \in Parts
            BY <2>5, FragmentTypes
        <3>2. ~filters_match(config, Context(x, seen, known))
            <4>1. ~Delivered("bpf", x, "whole")
                BY <2>3, <2>7
            <4> HIDE DEF known, seen
            <4> QED
                BY <2>1, <3>1, <4>1, RejectedIsHidden
        <3>3. shown'["bpf"] = shown["bpf"] /\ shown'["software"] = shown["software"]
            BY <1>3, <2>7, <3>2, OnePipeline
        <3>4. ~Delivered("bpf", d, "whole")'
            BY <1>2, <2>3, <2>7
        <3> QED
            BY <1>1, <3>3, <3>4 DEF Agree
    <2> QED
        BY <2>6, <2>7
<1> QED
    BY <1>4, <1>5

(* TransparentWithoutPort, datagram by datagram.                           *)
LEMMA AgreementOfEach ==
    TransparentWithoutPort <=>
        (config.filter_port = Off => \A d \in Datagrams : Plain(d) => Agree(d))
BY DEF TransparentWithoutPort, Plain, Agree

(* Packets are handled with the final configuration.                       *)
LEMMA DeliverStep ==
    ASSUME PipelinesInv, NEW x \in Datagrams, NEW part \in Parts, Deliver(x, part)
    PROVE  PipelinesInv'
<1>1. PipelineTypes' /\ status' = "capture" /\ config' = config
    BY DeliverTypes DEF PipelinesInv, Deliver, commandVars
<1>2. TransparentWithoutPort'
    <2> SUFFICES ASSUME config.filter_port = Off, NEW d \in Datagrams, Plain(d)
                 PROVE  Agree(d)'
        BY <1>1 DEF TransparentWithoutPort, Plain, Agree
    <2>1. \A e \in Datagrams : Plain(e) => Agree(e)
        BY AgreementOfEach DEF PipelinesInv
    <2> QED
        BY <2>1, DeliverAgrees DEF PipelinesInv
<1> QED
    BY <1>1, <1>2 DEF PipelinesInv, NothingYet

(* Two pipelines that have seen nothing agree, whatever the configuration. *)
LEMMA NothingAgrees ==
    ASSUME NothingYet, status # "capture"
    PROVE  TransparentWithoutPort
<1>1. "bpf" \in Pipelines /\ "software" \in Pipelines
    BY DEF Pipelines
<1>2. /\ \A p \in Pipelines : shown[p] = {}
      /\ \A p \in Pipelines, d \in Datagrams :
            got[p][d] = {} /\ flow_app[p][d.connection] = Unknown
    BY Zenon DEF NothingYet
<1>3. shown["bpf"] = {} /\ shown["software"] = {}
    BY <1>1, <1>2, Zenon
<1>4. SUFFICES ASSUME config.filter_port = Off, NEW d \in Datagrams, Plain(d)
              PROVE  Agree(d)
    BY DEF TransparentWithoutPort, Plain, Agree
<1>5. /\ got["bpf"][d] = {} /\ got["software"][d] = {}
      /\ flow_app["bpf"][d.connection] = Unknown
      /\ flow_app["software"][d.connection] = Unknown
    BY <1>1, <1>2, Zenon
<1> QED
    BY <1>3, <1>5 DEF Agree

(* cli_parse_args and main come before the first packet.                   *)
LEMMA CommandKeeps ==
    ASSUME PipelinesInv, Command
    PROVE  PipelinesInv'
<1>1. UNCHANGED <<got, flow_app, shown>> /\ status # "capture"
    BY DEF Command, CommandStep, ParseOption, Validate, Main
<1>2. PipelineTypes' /\ NothingYet'
    BY <1>1 DEF PipelinesInv, PipelineTypes, NothingYet
<1>3. TransparentWithoutPort'
    <2>1. /\ "bpf" \in Pipelines /\ "software" \in Pipelines
        BY DEF Pipelines
    <2>2. /\ shown'["bpf"] = {} /\ shown'["software"] = {}
          /\ \A d \in Datagrams :
                /\ got'["bpf"][d] = got'["software"][d]
                /\ flow_app'["bpf"][d.connection] = flow_app'["software"][d.connection]
        BY <1>1, <2>1 DEF PipelinesInv, NothingYet
    <2> QED
        BY <2>2 DEF TransparentWithoutPort
<1> QED
    BY <1>2, <1>3 DEF PipelinesInv

(* Without --port, and for connections without IPv6 extension headers, the *)
(* kernel pre-filter changes neither what is displayed, nor how flows are  *)
(* classified, nor what the fragment table holds of what it lets through,  *)
(* for every command line and every traffic in any order.                  *)
THEOREM PreFilterIsTransparent == Spec => []TransparentWithoutPort
<1>1. Init => PipelinesInv
    <2> SUFFICES ASSUME Init PROVE PipelinesInv
        OBVIOUS
    <2>1. /\ got = [p \in Pipelines |-> [d \in Datagrams |-> {}]]
          /\ flow_app = [p \in Pipelines |-> [c \in Connections |-> Unknown]]
          /\ shown = [p \in Pipelines |-> {}] /\ status # "capture"
        BY DEF Init, CommandInit
    <2>2. {} \in Holdings /\ Unknown \in Apps
        BY DEF Holdings, Apps
    <2>3. PipelineTypes
        BY <2>1, <2>2 DEF PipelineTypes
    <2>4. NothingYet
        <3>1. \A d \in Datagrams : d.connection \in Connections
            BY DEF Connections
        <3> QED
            BY <2>1, <3>1 DEF NothingYet
    <2> QED
        BY <2>1, <2>3, <2>4, NothingAgrees DEF PipelinesInv
<1>2. PipelinesInv /\ [Next]_vars => PipelinesInv'
    <2> SUFFICES ASSUME PipelinesInv, [Next]_vars PROVE PipelinesInv'
        OBVIOUS
    <2>1. CASE UNCHANGED vars
        BY <2>1 DEF vars, commandVars, PipelinesInv, PipelineTypes, NothingYet,
                    TransparentWithoutPort, Delivered
    <2> QED
        BY <2>1, CommandKeeps, DeliverStep DEF Next, Done
<1>3. PipelinesInv => TransparentWithoutPort
    BY DEF PipelinesInv
<1> QED
    BY <1>1, <1>2, <1>3, PTL DEF Spec
============================================================================
