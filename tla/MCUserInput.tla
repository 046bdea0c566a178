------------------------------ MODULE MCUserInput ------------------------------
(* The instance of UserInput for TLC. *)
EXTENDS UserInputProperties

Task(kind, start, choices, limit) ==
    [kind |-> kind, start |-> start, choices |-> choices, limit |-> limit]

Dev == Word("dev")
LF == Chars(<<"l", "f">>)
Hex(a, b) == Chars(<<a, b>>)
Udp == <<Word("udp"), Option("bind_port"), Number(7)>>

CommandLines ==
    {Task("argv", <<>>, {Word("serial"), Option("port"), Number(7), Dev, Option("version")}, 6),
     Task("argv", <<Word("serial"), Option("port"), Dev>>,
          {Option("baudrate"), Option("data_bits"), Option("stop_bits"), Option("parity"),
           Number(8), Number(2), NumberAndMore(1), Word("odd")}, 7),
     Task("argv", <<>>, {Word("engine"), Word("tcp-client"), Option("ipc_path"), Option("host"),
                         Option("port"), Number(0), Number(65535)}, 6),
     Task("argv", Udp, {Option("target_host"), Option("target_port"), Option("send_hex"),
                        Option("send_file"), Option("help"), Number(9), Number(65536)}, 8),
     Task("argv", Udp, {Option("decoder"), Option("frame_size"), Option("delimiter"),
                        Option("latency"), NumberAndMore(4), Number(-1), LF, Hex("+", "a"),
                        Hex("x", "a")}, 7)}

Ports == {Empty, Number(0), Number(9), NumberAndMore(9), Number(65536), OtherDigits(9)}
Hosts == {Empty, Dev, Number(4)}

\* The widgets as they are when the viewer starts.
Widgets(mode, texts) ==
    texts @@ [mode |-> Word(mode), decoder |-> Word("raw"), frame_size |-> 1,
              delimiter |-> Hex("0", "A"), include_delimiter |-> TRUE, length_size |-> 1,
              length_endian |-> Word("big"), length_includes_header |-> FALSE,
              log |-> FALSE, log_path |-> Word("log")]

Form(mode, texts, choices) == Task("form", Widgets(mode, texts), choices, 0)

Forms ==
    {Form("udp", [bind_host |-> Dev, bind_port |-> Number(7), target_host |-> Dev,
                  target_port |-> Number(9)],
          [bind_host |-> Hosts, bind_port |-> Ports, target_host |-> Hosts, target_port |-> Ports,
           log |-> BOOLEAN]),
     Form("tcp-client", [host |-> Dev, port |-> Number(9)],
          [host |-> Hosts, port |-> Ports, delimiter |-> {Empty, LF, Hex("x", "a"), Hex("-", "0")},
           decoder |-> {Word("raw"), Word("delimiter")}, include_delimiter |-> BOOLEAN,
           frame_size |-> {1, 1000000}, length_size |-> {1, 2, 4},
           length_endian |-> {Word("big"), Word("little")}, length_includes_header |-> BOOLEAN]),
     Form("tcp-server", [listen_host |-> Dev, listen_port |-> Number(9)],
          [listen_host |-> Hosts, listen_port |-> Ports, log |-> BOOLEAN,
           log_path |-> {Empty, Word("log")}]),
     Form("tcp-proxy", [listen_host |-> Dev, listen_port |-> Number(9), target_host |-> Dev,
                        target_port |-> Number(9)],
          [listen_host |-> Hosts, listen_port |-> Ports, target_host |-> Hosts,
           target_port |-> Ports]),
     Form("serial", [serial_port |-> Dev, baudrate |-> Number(115200)],
          [serial_port |-> Hosts,
           baudrate |-> {Empty, Dev, Number(0), Number(9600), Number(4000001), Number(-1),
                         NumberAndMore(9600), Grouped(115, 115200), Grouped(4, 4000001),
                         OtherDigits(9600)}])}

\* The integers that an int takes for 8 and for 1 are among the numbers.
Numbers == {Num(8), Num(1), Num(0), Num(-1), Num(2 ^ INT_WIDTH + 8), Fraction(8), Fraction(1),
            Bool(TRUE), Null, Str(Empty)}
Texts == {Str(Word("serial")), Str(Dev), Str(Empty), Null, Num(1)}

Configs ==
    {Task("config", [mode |-> Str(Word("serial")), serial_port |-> Str(Dev)],
          [baudrate |-> Numbers, data_bits |-> Numbers, stop_bits |-> Numbers,
           parity |-> {Str(Word("odd")), Str(Empty), Null, Num(0)}, log_path |-> Texts], 5),
     Task("config", [mode |-> Str(Word("udp"))],
          [bind_port |-> Numbers \cup {Num(65535), Num(65536)}, bind_host |-> Texts,
           target_port |-> Numbers, latency |-> {Bool(FALSE), Null, Num(1)},
           decoder |-> {Null, Bool(TRUE), Object(<<>>), Object([delimiter_hex |-> Str(LF)]),
                        Object([delimiter_hex |-> Str(Empty), frame_size |-> Fraction(4)]),
                        Object([length_size |-> Num(-1), include_delimiter |-> Bool(FALSE)])}], 4)}

InputTasks ==
    CommandLines \cup Forms \cup Configs
    \cup {Task("hex", <<>>, {"0", "a", "x", " ", "g"}, 7),
          Task("hex", <<>>, {"0", "A", "X", ":", "-", "+"}, 5)}
=============================================================================
