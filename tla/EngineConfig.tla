----------------------------- MODULE EngineConfig -----------------------------
(***************************************************************************)
(* The config object of the configure command and of get_status, between   *)
(* the viewer's form, JSON and the engine's options.                        *)
(***************************************************************************)
EXTENDS CommandLine

CONSTANT INT_WIDTH          \* bits of an int: 32 in the build

ASSUME IntWidthAssumption == INT_WIDTH \in Nat /\ 2 ^ INT_WIDTH > 4000000

Str(text) == [kind |-> "string", text |-> text]
Num(n) == [kind |-> "integer", n |-> n]
Fraction(n) == [kind |-> "fraction", n |-> n]    \* n and something behind the point
Bool(b) == [kind |-> "boolean", b |-> b]
Null == [kind |-> "null"]
Object(members) == [kind |-> "object", members |-> members]

DecoderFields == {"decoder", "frame_size", "delimiter", "include_delimiter", "length_size",
                  "length_endian", "length_includes_header"}
BoolFields == {"hex_raw", "hex_frame", "latency", "include_delimiter", "length_includes_header"}
TopFields == ((StringFields \cup PortFields \cup BoolFields)
              \cup {"mode", "serial_port", "baudrate", "data_bits", "stop_bits", "parity", "flow_control"})
             \ (DecoderFields \cup {"ipc_path"})

Key(field) == IF field = "delimiter" THEN "delimiter_hex" ELSE field

Absent(members, key) == key \notin DOMAIN members \/ members[key] = Null

-----------------------------------------------------------------------------
(* From JSON to the options: a set of one value, or of none if it throws. *)

\* get<std::uint64_t>() and get<std::size_t>(): the point and what is behind it
\* are dropped, and a negative number is one modulo 2^64.
GetWide(v) == IF v.kind \in {"integer", "fraction"} THEN {v.n} ELSE {}

\* get<int>() keeps the low bits of a number, and takes a boolean for one.
GetInt(v) ==
    IF v.kind = "boolean" THEN {IF v.b THEN 1 ELSE 0}
    ELSE {n % 2 ^ INT_WIDTH : n \in GetWide(v)}

GetPort(v) == IF v.kind = "integer" /\ v.n \in 0..65535 THEN {v.n} ELSE {}

Text(field, t) ==
    CASE field \in {"mode"} \cup StringFields -> {t}
      [] field = "delimiter" /\ t = Empty -> {<<>>}
      [] OTHER -> Convert(field, t)

Decode(field, v) ==
    CASE field \in PortFields -> GetPort(v)
      [] field \in BoolFields -> IF v.kind = "boolean" THEN {v.b} ELSE {}
      [] field \in SizeFields -> GetWide(v)
      [] field = "baudrate" -> UNION {ParseBaudrate(Number(n)) : n \in GetWide(v)}
      [] field = "data_bits" -> UNION {ParseDataBits(Number(n)) : n \in GetInt(v)}
      [] field = "stop_bits" -> UNION {ParseStopBits(Number(n)) : n \in GetInt(v)}
      [] OTHER -> IF v.kind = "string" THEN Text(field, v.text) ELSE {}

Get(members, field) ==
    IF Absent(members, Key(field)) THEN {DefaultOptions[field]}
    ELSE Decode(field, members[Key(field)])

FromJson(config) ==
    LET decoder == IF Absent(config.members, "decoder") THEN Object(<<>>)
                   ELSE config.members["decoder"]
        got(field) == IF field \in TopFields THEN Get(config.members, field)
                      ELSE IF field \in DecoderFields THEN Get(decoder.members, field)
                      ELSE {DefaultOptions[field]}
    IN  IF decoder.kind # "object" \/ \E field \in DOMAIN DefaultOptions : got(field) = {} THEN {}
        ELSE {[field \in DOMAIN DefaultOptions |-> CHOOSE v \in got(field) : TRUE]}

\* What configure makes of a config: nothing if it is refused.
Configured(config) ==
    {options \in IF config.kind = "object" THEN FromJson(config) ELSE {} : Valid(options)}

-----------------------------------------------------------------------------
(* From the options to JSON. *)

Encode(field, value) ==
    CASE field \in {"mode"} \cup StringFields -> Str(value)
      [] field \in {"parity", "flow_control"} -> Str(Word(value))
      [] field \in BoolFields -> Bool(value)
      [] field = "delimiter" -> Str(IF value = <<>> THEN Empty ELSE Chars(ToHex(value)))
      [] OTHER -> Num(value)

Members(options, fields) ==
    [key \in {Key(field) : field \in fields} |->
        LET field == CHOOSE f \in fields : Key(f) = key IN Encode(field, options[field])]

ToJson(options) ==
    LET top == Members(options, TopFields)
        decoder == Object(Members(options, DecoderFields))
    IN  Object([key \in DOMAIN top \cup {"decoder"} |->
                   IF key = "decoder" THEN decoder ELSE top[key]])
=============================================================================
