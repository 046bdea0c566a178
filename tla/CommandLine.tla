------------------------------ MODULE CommandLine ------------------------------
(***************************************************************************)
(* The command line: CliOptions, how parse_args reads one argument after   *)
(* the other into it, the conversions of its values, validate_options.     *)
(*                                                                         *)
(* A text is what the conversions tell apart: a word (case is ignored      *)
(* where it does not matter), a number with something or nothing behind    *)
(* its digits, hex characters, or an option, named by the field it sets.   *)
(***************************************************************************)
EXTENDS HexInput

Word(w) == [kind |-> "word", word |-> w]
\* n is what stoul reads of a number and rest says that it stops before the
\* end; int is what Python's int() makes of the same text, if it takes it.
Number(n) == [kind |-> "number", n |-> n, rest |-> FALSE, int |-> {n}]
NumberAndMore(n) == [kind |-> "number", n |-> n, rest |-> TRUE, int |-> {}]
Grouped(n, whole) == [kind |-> "number", n |-> n, rest |-> TRUE, int |-> {whole}]  \* n_...
OtherDigits(n) == [kind |-> "digits", int |-> {n}]    \* those of another script
Chars(chars) == [kind |-> "chars", chars |-> chars]
Option(name) == [kind |-> "option", name |-> name]

Empty == Word("")

DefaultOptions ==
    [mode |-> Empty, host |-> Empty, port |-> 0, serial_port |-> Empty, baudrate |-> 115200,
     data_bits |-> 8, stop_bits |-> 1, parity |-> "none", flow_control |-> "none",
     listen_host |-> Empty, listen_port |-> 0, bind_host |-> Word("0.0.0.0"), bind_port |-> 0,
     target_host |-> Empty, target_port |-> 0, log_path |-> Empty, ipc_path |-> Empty,
     decoder |-> Word("raw"), frame_size |-> 0, delimiter |-> <<>>, include_delimiter |-> TRUE,
     length_size |-> 2, length_endian |-> Word("big"), length_includes_header |-> FALSE,
     send_format |-> "text", send_file |-> Empty, send_option_count |-> 0,
     hex_raw |-> FALSE, hex_frame |-> FALSE, latency |-> TRUE, help |-> FALSE, version |-> FALSE]

StringFields == {"host", "serial_port", "listen_host", "bind_host", "target_host", "log_path",
                 "ipc_path", "decoder", "length_endian"}
PortFields == {"port", "listen_port", "bind_port", "target_port"}
SizeFields == {"frame_size", "length_size"}
SendFlags == {"send_text", "send_hex", "send_file"}

ValueFlags == (StringFields \ {"serial_port"}) \cup PortFields \cup SizeFields
              \cup {"baudrate", "data_bits", "stop_bits", "parity", "flow_control", "delimiter",
                    "send_file"}
BareFlags == {"help", "version", "hex_raw", "hex_frame", "latency", "include_delimiter",
              "length_includes_header", "send_text", "send_hex"}

-----------------------------------------------------------------------------
(***************************************************************************)
(* Conversions: the set of the value a text stands for, or no value.       *)
(***************************************************************************)
\* stoul wraps a negative number, to one beyond every limit here.
Within(low, high, t) ==
    IF t.kind = "number" /\ ~t.rest /\ t.n \in low..high THEN {t.n} ELSE {}

ParsePort(t) == Within(1, 65535, t)
ParseBaudrate(t) == Within(1, 4000000, t)
ParseDataBits(t) == Within(5, 8, t)
ParseStopBits(t) == Within(1, 2, t)

OneOf(names, t) == IF t.kind = "word" /\ t.word \in names THEN {t.word} ELSE {}

ParseParity(t) == OneOf({"none", "odd", "even"}, t)
ParseFlowControl(t) == OneOf({"none", "software", "hardware"}, t)

ParseDelimiter(t) ==
    IF t.kind = "chars" /\ ParseDelimiterBytes(t.chars).ok
    THEN {ParseDelimiterBytes(t.chars).bytes} ELSE {}

\* Sizes are not checked to their last character; a negative one stands for
\* itself modulo 2^64.
ParseSize(t) == IF t.kind = "number" THEN {t.n} ELSE {}

Convert(field, t) ==
    CASE field \in StringFields -> {t}
      [] field \in PortFields -> ParsePort(t)
      [] field \in SizeFields -> ParseSize(t)
      [] field = "baudrate" -> ParseBaudrate(t)
      [] field = "data_bits" -> ParseDataBits(t)
      [] field = "stop_bits" -> ParseStopBits(t)
      [] field = "parity" -> ParseParity(t)
      [] field = "flow_control" -> ParseFlowControl(t)
      [] field = "delimiter" -> ParseDelimiter(t)

-----------------------------------------------------------------------------
(***************************************************************************)
(* parse_args.  A parser has the options so far, the flag whose value comes *)
(* next, and whether it has thrown.                                        *)
(***************************************************************************)
NoFlag == "none"

StartParser == [options |-> DefaultOptions, want |-> NoFlag, threw |-> FALSE]

Throw(p) == [p EXCEPT !.threw = TRUE]

Set(p, field, values) ==
    IF values = {} THEN Throw(p)
    ELSE [p EXCEPT !.options[field] = CHOOSE v \in values : TRUE, !.want = NoFlag]

SetSendFormat(p, format, path) ==
    IF p.options.send_option_count > 0 THEN Throw(p)
    ELSE [p EXCEPT !.options.send_option_count = 1, !.options.send_format = format,
                   !.options.send_file = path, !.want = NoFlag]

\* Mutant: --port takes a number for a port whatever the mode.
TakeValue_ByText(p, t) ==
    IF p.want = "send_file" THEN SetSendFormat(p, "file", t)
    ELSE LET field == IF p.want = "port" /\ p.options.mode = Word("serial") /\ t.kind # "number"
                      THEN "serial_port" ELSE p.want
         IN  Set(p, field, Convert(field, t))

\* --port is a device in serial mode, as far as the mode has been read.
TakeValue(p, t) ==
    IF p.want = "send_file" THEN SetSendFormat(p, "file", t)
    ELSE LET field == IF p.want = "port" /\ p.options.mode = Word("serial")
                      THEN "serial_port" ELSE p.want
         IN  Set(p, field, Convert(field, t))

TakeFlag(p, name) ==
    CASE name = "send_text" -> SetSendFormat(p, "text", Empty)
      [] name = "send_hex" -> SetSendFormat(p, "hex", Empty)
      [] name \in BareFlags \ SendFlags -> Set(p, name, {TRUE})
      [] name \in ValueFlags -> [p EXCEPT !.want = name]
      [] OTHER -> Throw(p)

\* An argument that follows a flag is its value, whatever it looks like.
ReadArgument(p, t) ==
    IF p.threw THEN p
    ELSE IF p.want # NoFlag THEN TakeValue(p, t)
    ELSE IF t.kind = "option" THEN TakeFlag(p, t.name)
    ELSE IF t.kind = "number" /\ t.n < 0 THEN Throw(p)
    ELSE IF p.options.mode = Empty THEN [p EXCEPT !.options.mode = t]
    ELSE Throw(p)

Parsed(p) == ~p.threw /\ p.want = NoFlag

-----------------------------------------------------------------------------
Modes == {"engine", "tcp-client", "tcp-server", "tcp-proxy", "serial", "udp"}

Required ==
    [m \in Modes |->
        CASE m = "engine" -> {"ipc_path"}
          [] m = "tcp-client" -> {"host", "port"}
          [] m = "tcp-server" -> {"listen_host", "listen_port"}
          [] m = "tcp-proxy" -> {"listen_host", "listen_port", "target_host", "target_port"}
          [] m = "serial" -> {"serial_port", "baudrate"}
          [] m = "udp" -> {"bind_host", "bind_port"}]

Present(options, field) ==
    IF field \in StringFields THEN options[field] # Empty ELSE options[field] # 0

\* validate_options returns.
Valid(options) ==
    \E m \in Modes :
        /\ options.mode = Word(m)
        /\ \A field \in Required[m] : Present(options, field)
        /\ m = "udp" => /\ Present(options, "target_host") <=> Present(options, "target_port")
                        /\ options.send_option_count > 0 => Present(options, "target_host")

\* main() once the arguments are read.
Outcome(p, count) ==
    IF ~Parsed(p) THEN "error"
    ELSE IF p.options.help \/ count = 0 THEN "help"
    ELSE IF p.options.version THEN "version"
    ELSE IF Valid(p.options) THEN "run" ELSE "error"
=============================================================================
