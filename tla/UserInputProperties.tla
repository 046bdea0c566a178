-------------------------- MODULE UserInputProperties --------------------------
(***************************************************************************)
(* What must be true of what the program makes of its input.               *)
(***************************************************************************)
EXTENDS UserInput

Run(p) == IF Outcome(p, 1) = "run" THEN {p.options} ELSE {}

OverIpc(form) == UNION {Configured(config) : config \in BuildCaptureConfig(form)}

FlagOf(field) == IF field = "serial_port" THEN "port" ELSE field

\* The arguments that are flags: a value flag's value is not one.
FlagPositions(args) ==
    LET isFlag[i \in 0..Len(args)] ==
            /\ i > 0 /\ args[i].kind = "option"
            /\ ~(isFlag[i - 1] /\ args[i - 1].name \in ValueFlags)
    IN  {i \in DOMAIN args : isFlag[i]}

\* A command line that is run sets each field to the value last given for its
\* flag, wherever it stands, and leaves the others alone; the values of --port
\* are ports or, in serial mode, devices, and one send option is given at most.
ParsedAsGiven ==
    task.kind = "argv" =>
        \A options \in Run(parser) :
            LET given(name) == {i \in FlagPositions(entered) : entered[i].name = name}
                fields == IF options.mode = Word("serial")
                          THEN (ValueFlags \ {"port"}) \cup {"serial_port"} ELSE ValueFlags
            IN  /\ \A field \in fields \ SendFlags :
                      {options[field]} =
                          IF given(FlagOf(field)) = {} THEN {DefaultOptions[field]}
                          ELSE Convert(field, entered[Max(given(FlagOf(field))) + 1])
                /\ Cardinality(UNION {given(name) : name \in SendFlags}) = options.send_option_count

\* The command line that says what a form says: the mode, and a flag for every
\* field that is not blank.
Arguments(form) ==
    LET value(field) == IF field \in SizeFields THEN Number(form[field]) ELSE form[field]
        filled == {field \in ModeFields[form.mode.word] \cup SizeFields
                             \cup {"decoder", "delimiter", "length_endian"}
                             \cup (IF form.log THEN {"log_path"} ELSE {}) : ~Blank(value(field))}
        give(field, args) == args \o <<Option(FlagOf(field)), value(field)>>
    IN  FoldSet(give, <<form.mode>>, filled)
        \o (IF form.length_includes_header THEN <<Option("length_includes_header")>> ELSE <<>>)

NumberFields(form) == ModeFields[form.mode.word] \cap (PortFields \cup {"baudrate"})

\* The form with its ports and its rate written in plain digits.
InDigits(form) ==
    [field \in DOMAIN form |->
        IF field \in NumberFields(form) /\ PythonInt(form[field]) # {}
        THEN Number(CHOOSE n \in PythonInt(form[field]) : TRUE) ELSE form[field]]

\* The form, through the viewer's config and the engine's reading of it, and the
\* command line that gives the same numbers in plain digits start the same
\* capture, and one is refused where the other is, with two exceptions: the form
\* takes the port 0 for no port (_parse_port), and a number with underscores or
\* in the digits of another script, which int() reads (capture_command.py:124),
\* is refused when it is given to the command line as it was typed.
TwoWaysAgree ==
    task.kind = "form" /\ entered.include_delimiter =>
        LET plain == InDigits(entered)
            cli == Run(Parse(Arguments(plain)))
            noZero == \A field \in NumberFields(entered) \cap PortFields :
                         plain[field] # Number(0)
        IN  /\ cli \subseteq OverIpc(entered)
            /\ noZero => OverIpc(entered) \subseteq cli
            /\ plain # entered => Run(Parse(Arguments(entered))) = {}

Accepted ==
    CASE task.kind = "argv" -> Run(parser)
      [] task.kind = "form" -> OverIpc(entered)
      [] task.kind = "config" -> Configured(Object(entered))
      [] OTHER -> {}

\* What get_status reports of the options of a capture configures the same
\* capture again: nothing is lost on the way but what configure does not carry.
ConfigRoundTrips ==
    \A options \in Accepted :
        FromJson(ToJson(options)) =
            {[field \in DOMAIN options |->
                 IF field \in TopFields \cup DecoderFields THEN options[field]
                 ELSE DefaultOptions[field]]}

IsToken(s) ==
    \/ Len(s) = 1 /\ IsSeparator(s[1])
    \/ Len(s) = 2 /\ IsHex(s[1]) /\ IsHex(s[2])
    \/ Len(s) = 4 /\ PrefixAt(s, 1) /\ IsHex(s[3]) /\ IsHex(s[4])

BytesOf(token) ==
    IF Len(token) = 1 THEN <<>> ELSE <<HexByte(token[Len(token) - 1], Last(token))>>

\* The bytes of every way to cut a text into separators and bytes, each hh or 0xhh.
Readings(text) ==
    LET token(i, n) == SubSeq(text, i, i + n - 1)
        from[i \in 1..(Len(text) + 1)] ==
            IF i > Len(text) THEN {<<>>}
            ELSE UNION {{BytesOf(token(i, n)) \o rest : rest \in from[i + n]} :
                           n \in {n \in 1..(Len(text) + 1 - i) : IsToken(token(i, n))}}
    IN  from[1]

\* parse_hex_payload takes exactly the texts that are made of separators and
\* whole bytes, and reads the bytes in their order.
HexIsReadByGrammar ==
    task.kind = "hex" =>
        {r.bytes : r \in {ParseHexPayload(entered)} \ {Refused}}
            = Readings(entered)

\* The engine takes what the viewer sends, and the viewer sends the bytes that
\* the same text is for the command line; a delimiter comes back as it was read.
HexWaysAgree ==
    task.kind = "hex" =>
        LET clean == CleanHexInput(entered)
            sent == ParseHexPayload(clean.chars)
            here == ParseHexPayload(entered)
            delimiter == ParseDelimiterBytes(entered)
        IN  /\ clean.ok => sent.ok
            /\ here.ok /\ here.bytes # <<>> => clean.ok /\ sent = here
            /\ delimiter.ok => ParseDelimiterBytes(ToHex(delimiter.bytes)) = delimiter
=============================================================================
