------------------------------ MODULE CaptureForm ------------------------------
(***************************************************************************)
(* The viewer's capture form, and the config it sends: what the user has   *)
(* typed or chosen, by field, in the widgets of the mode chosen.           *)
(***************************************************************************)
EXTENDS EngineConfig

ModeFields ==
    [m \in Modes \ {"engine"} |->
        IF m = "serial" THEN {"serial_port", "baudrate"}
        ELSE Required[m] \cup IF m = "udp" THEN {"target_host", "target_port"} ELSE {}]

Blank(t) == t = Empty

\* int() goes on behind an underscore and reads digits of every script.
PythonInt(t) == IF t.kind \in {"number", "digits"} THEN t.int ELSE {}

PortOf(t) == IF Blank(t) THEN {0} ELSE PythonInt(t) \cap (0..65535)

BaudrateOf(t) == IF Blank(t) THEN {115200} ELSE PythonInt(t)

\* Mutant: a blank Bind Host is sent as it is.
FieldValue_Blank(field, t) ==
    IF field \in PortFields THEN {Num(n) : n \in PortOf(t)}
    ELSE IF field = "baudrate" THEN {Num(n) : n \in BaudrateOf(t)}
    ELSE {Str(t)}

FieldValue(field, t) ==
    IF field \in PortFields THEN {Num(n) : n \in PortOf(t)}
    ELSE IF field = "baudrate" THEN {Num(n) : n \in BaudrateOf(t)}
    ELSE {Str(IF field = "bind_host" /\ Blank(t) THEN Word("0.0.0.0") ELSE t)}

\* build_decoder_config: all of the decoder's widgets, whichever is in use.
DecoderConfig(form) ==
    [decoder |-> Str(form.decoder), frame_size |-> Num(form.frame_size),
     delimiter_hex |-> Str(form.delimiter), include_delimiter |-> Bool(form.include_delimiter),
     length_size |-> Num(form.length_size), length_endian |-> Str(form.length_endian),
     length_includes_header |-> Bool(form.length_includes_header)]

\* What the fields of the other modes are sent as.
Unused(field) ==
    CASE field \in PortFields -> Num(0)
      [] field = "baudrate" -> Num(115200)
      [] field = "bind_host" -> Str(Word("0.0.0.0"))
      [] OTHER -> Str(Empty)

\* The config of a form: none if a text in it is refused.
BuildCaptureConfig(form) ==
    LET mode == form.mode.word
        used == ModeFields[mode]
        value(field) == FieldValue(field, form[field])
        plain == UNION {ModeFields[m] : m \in DOMAIN ModeFields}
        common == [mode |-> Str(form.mode), hex_raw |-> Bool(FALSE), hex_frame |-> Bool(FALSE),
                   latency |-> Bool(TRUE), decoder |-> Object(DecoderConfig(form)),
                   log_path |-> Str(IF form.log THEN form.log_path ELSE Empty)]
    IN  IF \E field \in used : value(field) = {} THEN {}
        ELSE {Object([key \in plain \cup DOMAIN common |->
                 IF key \in DOMAIN common THEN common[key]
                 ELSE IF key \in used THEN CHOOSE v \in value(key) : TRUE
                 ELSE Unused(key)])}
=============================================================================
