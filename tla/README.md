# packet-probe: TLA+ models

packet-probe captures the bytes of a device's TCP, UDP or serial connection, cuts them into
frames, logs them as JSON lines and serves them to viewers over a Unix socket. In *engine mode*
viewers also configure, start and stop captures and send data over that socket.

## 1. The system

| part | state it keeps | operations | talks to |
|---|---|---|---|
| engine process (`engine_controller.cpp`, `run_engine.cpp`) | `mutex_`, `capturing_`, `config_`, `session_`, `pipeline_`, `recorder_`, `events_seen_` | install, shutdown (twice: once called, once from the destructor), the handlers configure, start_capture, stop_capture, send, get_status, list_serial_ports | called by the IPC server on its threads; owns a session; called back by the session |
| event pipeline (`event_pipeline.cpp`) | a decoder and a bookkeeping record per stream, the sequence allocator | consume | called by sessions on their threads, calls the sink (recorder, then IPC) |
| frame decoders (`src/decoder`) | a buffer per stream | decode, reset | called by the pipeline |
| latency tracker | pending request per connection | observe, reset | called by the proxy session |
| TCP proxy session | `stopped_`, acceptor, sockets, forwarding threads | start, stop; accept and forward threads | pipeline |
| direct sessions (TCP client, TCP server, UDP, serial) | `stopped_`, the transport | start, stop, send; the transport's callbacks | pipeline |
| CLI run modes (`run_common.hpp`) | the session on the main thread's stack, the IPC handler guard | run_sender_session | session, IPC server |
| IPC event server | `is_running`, the socket path, the transport, the handler slot | start, stop, broadcast, send_to_client, set_command_handler | viewers, engine or CLI send handler |
| JSONL recorder | the stream `output_`, the file | open, record, close | pipeline sink; the viewer reads the file |
| viewer worker and connector | socket, stop flag | run, stop, send_command | engine |
| viewer main window | running/starting flags, pending commands, event table, pause buffer | the slots of its buttons and of the worker's signals | worker |
| command line (`cli_options.cpp`, ...) | the options read so far | parse_args, validate_options | main |
| engine configuration (`engine_config.cpp`), capture form (`capture_command.py`) | none | texts to config to options, and back | `configure`, `get_status` |
| hex input (`send_input_parser.cpp`, `_clean_hex_input`, `parse_delimiter_bytes`) | none | texts to bytes | standard input, `send`, decoder settings |

What is hard about it:

* **Threads without a common lock.** Sessions call back on the transport's threads and take no
  lock; `mutex_` serialises command handlers only, and is held while callback threads are joined.
* **Lifetimes.** `on_event` reads `pipeline_` and the sink holds a bare pointer to the recorder,
  while a handler may be tearing both down; the IPC server calls a *copy* of a handler whose
  owner may be gone.
* **Failure in the middle.** A capture is built in four steps that can each throw.
* **Order.** Commands of several viewers, status broadcasts and events share one outgoing
  stream, and events also go to a file.
* **A file that outlives its writers.** Every capture and every process appends to the same log;
  writes fail and are torn by crashes, and nothing repairs a line.
* **Two languages, several readers.** The same settings and the same hex text are read by Python
  and by C++, as arguments, as JSON and as widgets.

`PROJECT.json` lists each hazard at its line with the properties that cover it.


## 2. The modules

| module | what it is |
|---|---|
| `EngineMessages` | the commands, results, status messages and events of the control protocol |
| `EngineProtocol` | what engine mode promises its viewers, with no threads or locks: the abstract specification |
| `EngineController` | the engine process: main thread, handler slot, `mutex_`, controller, session, callback threads |
| `EngineProperties`, `MCEngine` | its properties, the refinement mapping to `EngineProtocol`; its instances |
| `EngineProofs` | the theorems about its lifetimes and types; the proof that it implements `EngineProtocol` |
| `EngineHistoryProofs` | the theorems about what viewers have been told and what the log holds |
| `FrameDecoders` | the four decoders as operators on a buffer: how long the frame at its head is, what of it is delivered |
| `EventPipeline` | `consume` called by several threads: decoders, contributing events, the sequence allocator, `mutex_` |
| `EventPipelineProperties`, `MCEventPipeline` | framing stated on whole streams, numbering, provenance; instances |
| `EventPipelineProofs` | the theorems about numbers, parents and losses |
| `FramingProofs` | the theorems about where streams are cut and what frames carry |
| `TcpProxySession` | the proxy session's four threads and the latency tracker |
| `TcpProxyProperties`, `MCTcpProxy` | its properties; its instances |
| `TcpProxyProofs` | the theorems about it |
| `SenderSession` | a run in a direct mode: the main thread with the session on its stack, the transport's callbacks, the IPC server's send handler |
| `SenderProperties`, `MCSender` | its properties; its instances |
| `SenderProofs` | the theorems about it |
| `EventLog` | the log file as writes leave it, and what the viewer's loader makes of it |
| `PacketTable` | the viewer's event table: the last `MAX_EVENTS` events and their names |
| `EventDelivery` | composes the two: processes that come, crash and go, recorder, broadcasts, a viewer's connection and its window |
| `EventDeliveryProperties`, `MCEventDelivery` | its properties; its instance |
| `EventDeliveryProofs` | the theorems about the log file and the table |
| `Viewer` | the viewer's main window, connection workers, engine process, and the engine reduced to its protocol |
| `ViewerProperties`, `MCViewer` | its properties; its instances |
| `ViewerProofs` | the theorems about its connections, pending commands and buttons |
| `HexInput` | hex payloads, the viewer's cleaning, delimiters, `to_hex` |
| `CommandLine` | `CliOptions`, the conversions, `parse_args` as a step per argument, `validate_options` |
| `EngineConfig` | the config object between JSON and options |
| `CaptureForm` | the viewer's form and the config it builds |
| `UserInput` | a user who types arguments, fills in a form, writes a config or types hex |
| `UserInputProperties`, `MCUserInput` | what must be true of what becomes of it; the instance |

Definitions keep the names of the code. Operators whose names end in `_Something` under a
comment `Mutant:` are plausible bugs; no specification uses them, they are there to show that
the property they belong to notices.

### How the state and the actions correspond to the code

**EngineController.** `capturing`, `config`, `session`, `pipeline`, `recorder` are the members of
the class; a capture attempt gets a number (`runs`) and the three owning pointers hold the
number of the attempt they belong to, or `Null`, so that "alive" and "of the same capture" can
be told apart. `pc` says where each thread is. A critical section with a single visible effect
(configure, get_status, each refusal) is one action; `start_capture` is a step for the recorder,
the pipeline, the session's `start`, the wait for it and the roll-back of each failure;
`stop_capture` and `shutdown` share the steps that stop, join, destroy and reset, in the code's
order; `send` is two. A callback is two steps, `Record` (pipeline and log) and `Broadcast`, and
takes no lock. `transport` is the attempt whose transport still delivers. `Shutdown` may run
with handlers under way, because the server calls a copy of its handler; `StopServer` ends them
only afterwards, and a handler entering the controller after its destruction has no step: that
behaviour is undefined and the model stops at it.

**EventPipeline.** `MakeEvent` is the session's numbering of an event before `consume`;
`SinkEvent`, `FeedDecoder`, `ExtractFrame`, `DecoderReturned` or `DecoderThrew`, `MakeFrameEvent`,
`LeaveDecoder` and `SinkDerived` are `consume` from top to bottom, with `mutex_` held from
`FeedDecoder` to `LeaveDecoder` or `DecoderThrew`. `input` and `cuts` are histories: every byte
a stream was given with the event it came in, and where it was cut.

**TcpProxySession.** One variable for each flag, the acceptor, the pair of sockets and the
three `std::thread` members; the owner's `start`, `stop` and destructor, the accept thread and the
two forwarding loops are a step per system call or shared access. A chunk is named by the
number of its event. `CloseWakesAccept` is the one thing the platform decides.

**SenderSession.** `run` holds the options; the main thread's `pc` walks through `run_<mode>`,
`run_sender_session`, the guard's destructor and the destruction of the stack's objects in their
order (`alive` is what is left of them). `send` has one model for its two callers, the main thread
and the IPC threads: it looks, unlocks, gives the bytes to the transport and emits. The four session
classes share their actions and differ in `TcpClientEnds`, `UdpEnds`, ... (which callbacks set
`stopped_`), `TcpClientReady`, ... (what `send` asks for) and `SerialStops`, `OtherStops`; the TCP
server has callbacks of its own, which look at the active client under `state_mutex` (`LockState`), and
a destructor in two steps: `FreeState` destroys what the callbacks lock, `FreeSession` the transport,
which waits for them, as `~Impl` does. `map` spreads the shared actions over the
four files, whose code for them is the same. A thread about to use an object that is gone has no
step (`Undefined`).

**Viewer.** The window's fields are one record and its helper methods are operators on it,
composed as the methods call each other; each slot is one action, because slots run one at a
time on the window's thread. Workers are threads whose signals go through `queue`. `up` and
`down` are the lines on the wire. `engine` is what `EngineProtocol` leaves visible to a viewer:
whether it is up, configured and capturing; its field `shared` remembers whether another viewer
has used it. It may refuse any `configure`, because what the form builds need not be valid. `Connected` is
the condition under which the window sends commands.

**EventLog, PacketTable, EventDelivery.** A write is `whole`, `open` (no newline) or `torn`; a line
of the file is JSON if it is all of one write and nothing else. `stream` is the recorder's
`output_`: whether it is open, has failed, and what its buffer still holds. The sink is two steps,
`record` (`Write`, `WriteFails` or `WriteIgnored`) and `Broadcast`. `Crash` may fall between them
or inside a write, and leaves the socket file; `StartEngine` removes it, as `start()` does. The
worker's `linked` is the time between `start_sync()` and the `connected` signal, when messages are
already delivered; a worker that was stopped before is `stopping`, and emits its `connected` all the
same if `start_sync()` succeeds. `ui` holds the fields of the window that events touch; `OpenLogFile` is
`open_log_file()` with its disconnect, clear and load, which may fail. `ui.offline` is the mode the
window shows for a loaded log, kept until the next `connected`. `log` is the history of the last
opening: whether the user has asked for a connection or cleared the table since, and whether the
stopped connection's `connected` was still to come (`late`).

**HexInput, CommandLine, EngineConfig, CaptureForm, UserInput.** A text is reduced to what the
conversions tell apart: a word, a number with or without something behind its digits, characters
where a conversion reads them one by one, or an option, named by the field it sets. A number
says what `stoul` reads of it and what Python's `int()` does: the second goes on behind an underscore and
reads the digits of every script. The form strips its texts, which therefore have no spaces around them. A conversion is
the set of the value a text stands for: of one element, or of none where the code throws.
`TakeValue`, `TakeFlag` and `ReadArgument` are one turn of the loop of `parse_args`; the parser's
`want` is the flag whose value comes next. `GetWide`, `GetInt` and `GetPort` are nlohmann's
conversions as the code calls them, `GetInt` modulo 2^`INT_WIDTH`.

## 3. The runs

| run | instance | what it shows |
|---|---|---|
| `engine_commands` | two viewers, two lines each, one callback thread, with fairness | idle is quiescent, statuses are current, destruction is clean, the engine implements `EngineProtocol`, every handler and shutdown finishes |
| `engine_modes` | one viewer, four lines, three configurations (plain, proxy, refused decoder), all commands, two events | callbacks find their capture, captures are separate on the wire and in the log, the log is never behind the socket, exactly one result per command |
| `engine_early_command` | *violation*: a command that arrives before `install` | finding: no result |
| `pipeline` | one caller, four chunks of one or two bytes over {0, 1, 2}, every decoder and option; and a receiver and two senders that share a stream, three events | streams are cut as if read whole and frames carry the bytes between two cuts; numbers are unique and follow the stream; parents are complete; losses are reported |
| `proxy_sessions` | two chunks each way, with fairness, close wakes `accept` | no thread, joinable handle or socket survives; the end is reported, once; forwarded = recorded; proper latency pairs; `stop` returns; both directions end together |
| `proxy_stop_hangs` | *violation*: close does not wake `accept` | finding: `stop` and with it `stop_capture` wait for a connection |
| `sender_runs` | four modes, file, pipe and terminal input, one line, one viewer's command, three callbacks, signals, with fairness | callbacks find session and pipeline, and a TCP server's state unless `stop` has left its transport open (section 5); a TCP server's log belongs to one client at a time; a piped run says what ended it; a run that is over ends |
| `sender_handler_outlives` | *violation* | finding: a send reaches a destroyed session |
| `viewer` | a patient user, two connections, four commands each, any of them refused, another viewer, process and link failing anywhere | pending commands end, Start comes back, the buttons match the engine, a live connection belongs to the window |
| `viewer_sync` | *violation* | findings: a status dropped during a start leaves the viewer wrong; with `OthersUse = FALSE` the run ends instead in a link lost during a start, which leaves Start disabled and every later status dropped |
| `event_delivery` | five workloads: two processes, failing writes, three captures; a table of two rows with three events; two connections with the engine restarted between them; a table and a file together | what can be read of a capture is how it began and all that was written; what was seen is logged; a table is a gapless part of what was sent; an opened log is shown to its end, unless a `connected` of the stopped connection comes behind it; rows have distinct names |
| `user_input` | five kinds of command line, five forms, two kinds of config, two alphabets of hex characters | options are what was given last; form and command line agree, but for port 0 and numbers only `int()` reads; a reported config configures the same; hex is read by its grammar, and alike everywhere |

### Bounds and why they are enough

* Engine: two viewers give every pair of handlers, and one callback thread every overlap of a
  callback with a handler; the properties never speak of two callbacks. Two lines each reach
  configure-start against start-stop, and the four lines of `engine_modes` a whole capture
  cycle of one viewer with an error anywhere in it, or two starts. Two events suffice for an
  event on either side of a status.
* Pipeline: four chunks of up to two bytes cover a delimiter, a header and a body each divided
  over a boundary, two frames in a chunk and a frame over three chunks. The chunks of the
  second workload are half a frame, a frame and a half, and half a frame with a refused header.
* Proxy: two chunks each way are needed for a gap (a failed write and a later success) and for
  pairing out of order. Where closing the listener does not wake `accept` the session has fewer
  behaviours and no others, so that the safety properties need no second instance.
* Direct modes: three callbacks are a connection, data and an end, or a second client's connection
  and data while the first is active, or after it has left. One line and one command meet each
  step of stopping and destroying.
* Viewer: a connection and its successor; four commands allow attach, configure, start and stop.
  Other viewers act only while fewer than `MaxBacklog` lines are under way, which bounds the
  queue and not the state they act in.

* Events: two processes and three captures put a torn line before a metadata line, behind one and
  between two of the same capture's lines. Three events overflow a table of `MAX_EVENTS = 2` while
  a parent's child is still in it; two connections give a restart of the numbers. The workloads
  are separate because files and tables meet only when a log is opened (the last one).
* Input: six to eight arguments give a flag twice, a flag in place of a value, `--port` before and
  after the mode. Each form is filled in any order with every boundary of its fields; configs are
  written member by member over the types nlohmann tells apart. Seven hex characters are a
  prefixed byte, a separator and the beginning of the next. `INT_WIDTH = 24` stands for 32, within
  TLC's own integers, and 2^24 + 8 is among the inputs.

All bounds cap what the environment does (lines, events, reads, connections); no bound is on a
counter of the program itself.

### Fairness

* Engine: a handler that has begun is carried on with (weak), a thread waiting for `mutex_` gets
  it eventually (strong: a `std::mutex` gives no order, but the threads ahead are finitely many),
  callbacks run on, and the main thread leaves its signal loop. No fairness on viewers sending,
  on events or on transports failing. Joining the session is assumed to return: this is what
  the proxy runs examine, and for a listening proxy it is not so on Linux (`proxy_stop_hangs`).
* Proxy: threads run on; a blocking read or `accept` returns only when its socket is closed (and
  only where closing wakes it). No application, no device and no data are promised.
* Direct modes: every thread carries on with what it has begun; connecting ends in one way or
  another. Nobody need type, close the input, connect, send a command or a signal, which is why
  `RunEnds` leaves out a run that waits for a line.

### Assumptions about surroundings

Transports stop delivering callbacks when their `stop` or their destructor has returned, and call
back on one thread at a time; a client's `start` holds true only after it has connected; the IPC
server's `stop` waits for its handlers; writes to a file or socket
take effect in the order of the calls; a viewer's client sends a line whole or not at all, and
the server's broadcasts reach a connection in their order, up to where it ends. In
`EventDelivery` the sink is called by one thread at a time (callers that race are `EventPipeline`'s
subject), at most one engine process uses a socket path and a log at a time, and the user lets a
connection end before asking for the next and does not open a log while it is being made.

## 4. The proofs

`EngineProofs` proves, for all sets of viewers, callback threads and configurations and all
bounds, from the assumptions named in `EngineMessages` and `EngineController` alone:

* `TypeCorrect`: `[]TypeOK`;
* `Invariant`: `[]EngineInv`;
* `CallbacksAreSafe`, `RestIsConsistent`, `DestructionIsClean`: `[]CallbackFindsItsCapture`,
  `[]IdleIsQuiescent`, `[]DestroyedIsQuiescent`;
* `ConfigIsFixed`: the action property `ConfigFixedDuringCapture`.

None of the lifetime properties is inductive: that a callback finds its pipeline depends on no
handler being between the steps that destroy it, which depends on who holds `mutex_`, on what
exists of a capture at each point of building it, and on the transport having been joined before
anything is reset. `EngineInv` says so in five parts: `LockDiscipline` (a thread is inside a
handler exactly if it owns `mutex_`), `CallbackDiscipline` (callbacks belong to the current attempt;
a handler's own thread runs one only while sending, starting or destroying), `Resting` (nobody
building or stopping: all of a capture or nothing), `BuildingAt` and `StoppingAt` (what exists at
each step), `Ending` (what shutdown may rely on). The proof is one lemma per action, most of
them instances of four lemmas about how the lock moves (`HoldLock`, `FreeLock`, `Holder`,
`MoverSuffices`).

It also proves `Refinement`, `Spec => ImplementsProtocol`, from the same assumptions:
initial states map to the protocol's, and each step of the engine process to a step of
`EngineProtocol` or to none. The mapping is in `EngineProperties`: a `start_capture` counts as under
way from its first step to its result (`Starting`), a status is owed from a successful result to
its broadcast (`Owed`). The proof needs of `EngineInv` that only the owner of `mutex_` is inside
a handler, so that nobody owes a status or is starting when another command takes effect, and
that a callback's attempt is the current one (`Emit`). One lemma per action or group of actions names its abstract
step; building, rolling back, stopping and destroying a capture are stutters but for the one step
that changes `capturing` or sends the result.

`EngineHistoryProofs` proves

* `StatusIsFollowed`: `[]StatusIsCurrent`;
* `AnsweredOnce`: `[]OneResultPerCommand`;
* `CapturesDoNotMix`, `LogLeads`: `[]CapturesAreSeparate`, `[]LoggedBeforeSeen`;
* `History`: `[]HistoryInv`.

These relate `wire` and `log`, which only grow, to the state at hand. `HistoryInv` says what the state
owes the past: `Announced` (the last status is the state, unless a handler is about to broadcast one or
shutdown has taken the handler away), `Accounted` (as many replies as commands taken, less the one
being worked on), `WireInOrder` (no event of an attempt to come has been seen, and none of the
current one before an `idle` that came after it), `LogInOrder` (while a recorder exists, the last
metadata line is its own; before an attempt has its recorder, nothing of it is anywhere; an
event being broadcast is in the log). Each is inductive only together with `EngineInv`.

`EventPipelineProofs` proves, for any callers, streams, decoder settings and chunks that
`WorkloadAssumption` admits (settings that a decoder's constructor accepts, chunks of at least one byte):

* `Invariant`: `[](TypeOK /\ PipelineInv)`, and from it `TypeCorrect`: `[]TypeOK`;
* `NumbersAreUnique`: `[]NumbersTellTheOrder`;
* `ParentsAreKnown`: `[]ParentsAreTheSource`;
* `LossesAreTold`: `[]LossIsReported`.

`consume` numbers frames under `mutex_` and passes them to the sink outside it, so that the log alone
shows no order. `PipelineInv` speaks of what callers still hold as well: `Control` (who may be
inside, with what), `Numbering` (numbers in the log and in callers' hands are all different and past),
`TakenInOrder` (frames held or logged are ordered as their numbers, those not yet numbered lie after
all of them), `Sourcing` (the contributors of a stream are logged, account for all it buffers, and end
with the event being decoded; what is derived has its parents) and `Losses` (a byte taken off
is in a frame somewhere or an error names its event). The one exception, a buffer refused
for good by the length-prefix decoder, whose event was dropped from the contributors, is in
`ContributorsAccount`.

`FramingProofs` proves from these

* `FramingInvariant`: `[]FramingInv`;
* `FramingIsTheWholes`: `[]FramingIsCanonical`.

The decoders see a buffer, the property speaks of the whole stream. `BuffersTheRest` connects the two: a
buffer is the stream after what was taken. From that, lemmas about the four decoders, one each,
show that the first frame of the buffer is the shortest complete one of the rest of the stream and
that a decoder that returns leaves none (`NothingIsLeft`), which stays true until the stream's
next chunk. A raw decoder's frame ends with its event, which takes `FedOnce` (no event's bytes come
twice) and `RawKeepsNothing`. `CutsDivide` and `FramesAreCut` carry the cuts made so far, and the frames
on their way to the log, over later input.

`TcpProxyProofs` proves, for any number of reads and for both answers to what the platform and
the options decide (`EnvironmentAssumption`, `MaxReadsAssumption`):

* `TypeCorrect`: `[]TypeOK`;
* `Lifetimes` (`[]LifetimeInv`) and from it `DestructionIsClean`: `[]DestroyedIsSilent`;
* `OneReporter` (`[]EndInv`) and from it `EndReported`: `[]EndIsReported` (at most once, and at
  least once by the time the session is destroyed);
* `DataIsInStep` (`[]DataInv`) and from it `ForwardedAsRecorded`: `[]ForwardsWhatItRecords`, and
  `PairsAreProper`: `[]LatencyPairsAreProper`.

That a destroyed session is silent rests on the second `stop()`, the destructor's, which may only
find a `std::thread` to join because the accept thread, which creates the forwarding threads and
assigns their handles in two steps, was joined by the first. `LifetimeInv` says what that needs:
`Starting` (nothing runs before its step of `start`), `Handles` (a running thread is joinable or
its creator is about to store it), `AcceptIsOver` (from the join of the accept thread on, no
thread is created) and `Destroying` (what the second call has still to join). `EndInv` counts the
threads between their exchange of `stopped_` and their report: none before the session has ended
and after it is reported, at most one in between, and one if it had listened and met no error.

The threads number a chunk, record it, show it to the latency tracker and write it in four steps,
and the other direction may come between any two. `DataInv` follows the chunk in each thread's hands:
`NumbersAreGiven` (it is below the counter and, until recorded, above all its direction has
recorded), `Forwarding` (as long as no write has failed, everything recorded but this chunk has been
forwarded; a thread whose write failed never writes again, which keeps out gaps) and `Measuring` (the
queue is increasing, recorded and above every measured request, and a chunk not yet observed is
above both). That a forwarding thread starts with nothing recorded is taken from `LifetimeInv`.

`SenderProofs` proves, for any modes, handler threads, clients, lines, commands and callbacks, from
`ThreadsAssumption` and `ClientsAssumption`:

* `Lifetimes` (`[]LifeInv`) and from it `CallbacksAreSafe`: `[]CallbackFindsItsSession`;
* `RunsReportTheirEnd`: `[]RunReportsItsEnd`;
* `BytesAreAttributed`: `[]BytesBelongToActiveClient`.

`LifeInv` ties the objects on the main thread's stack and the session's members to where that thread is:
everything exists up to its step that destroys the transport, which waits for the callback under way,
but for the state of a TCP server session, which goes one step earlier. That a callback nevertheless
finds it, if `stop` has done its work, needs to know that a transport that was never made or has gone
calls nobody, and that one is `closed` only while `stop` waits for it. The other two
speak about the log, and each needs to know what is about to be told. `EndInv`: `stopped` is true
during the loop, or `Io` is about to set it, only once an event that ends the session has been
told, and whoever is past the loop has an error, a signal, a file or a terminal to show for it, or
that event. `ServerInv`: what `Io` is about to tell of a connection agrees with `active_client`,
which only `Io` changes; when it is not telling, the log's last word on connections is
that the active client has come (`Shown`); and a thread that is about to emit otherwise tells of
bytes sent. `DataType` gives the log and the threads' notices their types.

`ViewerProofs` proves, for any number of connections and commands and with or without other
viewers, `TypeCorrect` (`[]TypeOK`) and, for a patient user (each of the form
`Patient => (Spec => []...)`, because for an impatient one they do not hold, section 6):

* `Invariant`: `[]ViewerInv`;
* `PendingAnswered`: `[]PendingIsAnswered`;
* `StartIsBack`: `[]StartComesBack`;
* `ConnectionOwned`: `[]ConnectionIsOwned`;
* `ControlsInvariant`: `[]ControlsInv`, and with it
* `ControlsMatch`: `[]ControlsMatchEngine`.

The window acts on signals that say nothing of the worker they come from, so the invariant says
which worker that is, and what the signals still in the queue will do to the window. `OneConnection`:
one worker at a time is alive, and every signal in the queue, like the window's worker, is its or,
when none is alive, the last one's. `Wiring` and `Forgotten`: what there can be of a connection at
each point of its worker, and that one the window has forgotten is ending or has no engine process
to connect to. `SignalOrder`: `connecting` is the first signal and the end of the connection the
last, so that `finished`, which makes the window forget whichever worker it has, finds nothing
behind it. `Shown`: what the window shows until the end arrives and after. `Pending`: every pending
command went over the window's connection, and its answer or the end of that connection is on
its way. Each part needs another: that a slot does not drop an answer needs the order of the
signals, and that a new connection starts with nothing pending needs `Shown` of the one before. TLC
has checked `TypeOK` and the six parts on two workers with four commands and on three with two.

`ControlsInv` is what the buttons need besides. The window shows the state it was last told, and when
an answer arrives it may be old: a command that was sent before a detach can still take effect
after it. The invariant follows a start through both. `OneStart`: the commands of a start, pending or on
a wire, are one at most, over the window's connection or one before, and as long as there is one the
window is starting, which keeps Start out. `IdleForStart`: until it takes effect the engine is idle, if
no one else uses it, so that Start is never offered during a capture. `NothingStale`: once it has been
answered, whatever is still in the queue or on a wire was said after it and tells of the capture.
`Numbered` and `Matched` tie answers to the commands the window noted: the numbers of a connection's
lines grow, an answer comes before every line that is still to be handled, and has the operation that
was noted under its number. `Buttons`: both are out only while an answer is pending, which
`PendingIsAnswered` then brings; `EngineGone`: without an engine there is nothing of all this. TLC has
checked the seven parts on the instance of the `viewer` run (2,044,390 states).

`EventDeliveryProofs` proves, for any workload, any `MAX_EVENTS` and any interleaving of processes,
crashes, failing writes, connections and clicks, from `WorkloadAssumption` and `MaxEventsAssumption`:

* `DeliveryInvariant`: `[]DeliveryInv`;
* `LogPrefixes`, `SeenLogged`: `[]LogHoldsPrefixes`, `[]SeenIsLogged`;
* `TableSegment`: `[]TableIsASegment`;
* `OfflineLog`: `[]OfflineShowsTheLog`, with the late `connected` that clears the log as its exception;
* `RowNames`: `[]RowsAreTellable`.

*The file.* What can be read back is decided line by line by what stands before and behind a write, so
`LogInv` gives each capture a place `b` in the file: its safe events are the writes `b + 1` to `b + s`
(`LogOf`), all whole and behind a whole one, and any other write of an event of the capture comes later
and is of the one event after them. `InProgress` says where the next write of the capture that is
being made goes: to the end, behind a whole write, until its stream fails; `StreamInv` what a failed
stream still holds and may write when it is closed. That the metadata line is the
first a capture writes is what makes `b` exist, and a whole event line that follows a torn
one never counts. `LoggedInv` follows an event from `record()` over the wire and the queue to the window.

*The window.* `Told` is all that the table has been given, what is kept back and what is queued. For
an attached viewer it and the wire are a segment of what was sent, the end of it while the connection
lasts (`SegmentInv`); before `connected` has been handled this holds of the queue alone,
because that signal clears the table (`Seen`). `ControlInv` says which signals can still be in the queue
at each point of the worker's life. `OfflineInv` says the same of an opened log: its connection is ending or has ended, what the
table was given and the queue make up `opened`, and only if it was opened `late` is a `connected` still to
come, or has come and cleared it. `CountInv` is for the counter. `TableInv` ties the rows, their names and the counts of children to all that the table has been
given since it was cleared; `SentInv` orders it by its numbers, which makes names different.

*Folds.* The events of a queue or of a file are those at a set of places, in order; a listing of the
places (`Enumerates`) is unique and grows by one at the end, which replaces an induction over
the sequence. `AppendEvents` is a fold over the places of its events: `MoreRows` proves what it does by
looking at the least number of events for which the table would be wrong.

Only model-checked:

* Liveness (`HandlersFinish`, `StopReturns`, `SidesEndTogether`, `RunEnds`), which is out of
  the prover's reach together with ENABLED.
* What `UserInput` says of texts: its parsers are RECURSIVE operators or folds over what was typed, and
  that they read every text properly is an induction over data.

## 5. Findings

Four runs end in a violation, one of them in two ways; `PROJECT.json` quotes the line each contradicts. In short: an early
viewer's command is dropped; a listening proxy cannot be stopped until someone connects; when a
direct session cannot be started, the send handler survives it, and so does a call of the handler
that is under way when its guard goes; a viewer that is starting misses another's capture; a viewer that loses
its connection while starting cannot start again. Divergences that have no run: `docs/architecture.md:91` pairs a request with "the next"
response, where the proxy observes an event after numbering and emitting it
(`tcp_proxy_capture_session.cpp:150`), so that a response may be paired with a later request and the
latency be negative; `docs/validation/tcp-server-client.md:30` pipes bytes into a TCP server to send
them "on connection", where the run reads the line at once and `send` refuses it while nobody is
connected (`tcp_server_capture_session.cpp:160`; in the model, `NotReady` before any `ServerOnConnect`);
`docs/jsonl-format.md:3` speaks of one metadata line, where every start with the same path appends
another (`jsonl_recorder.cpp:13`), which `CapturesAreSeparate` takes into account;
`docs/jsonl-format.md:50` of a separate high range for derived events, where the pipeline uses the
session's allocator (`event_pipeline.cpp:77`), as `docs/architecture.md:107` says.

Met while modelling delivery and input, each a behaviour the models have:

* `docs/ipc-protocol.md` treats a directory or a non-socket file at the socket path as an error;
  `start()` (`ipc_event_server.cpp:45`) removes any file that is not a directory, and `stop()`
  whatever is there.
* `docs/jsonl-format.md` uses `seq` for file-local order; a second process that appends to the
  same log starts again at 1.
* `~Impl` of the TCP server session destroys `client_info`, `active_client` and `state_mutex` before
  `server` (`tcp_server_capture_session.cpp:14`), and a session that has ended by itself reaches it
  with the server running, because `stop` returns at once (`:143`). A callback of that moment locks a
  destroyed mutex. The engine destroys such a session in the same way. `CallbackFindsItsSession` excludes
  exactly this (`NeverStopped`); in the model such a callback has no step. The sessions for TCP
  clients, UDP and serial ports have no state beside the transport.
* `docs/validation/viewer-jsonl-log.md:44-45` expects of an opened log: "Viewer status changes to
  `offline log`.", "Event table shows recorded events.". `open_log_file()` stops the connection but not
  the signals it has posted, nor its `connected`, which `run()` emits after `stop()` too
  (`ipc_client.py:70`). Posted events are appended to the log, the late `disconnected` sets the mode back
  to idle (`main_window.py:904`), and a `connected` handled behind the loading runs `clear_all()`
  (`:881`): the log is gone from the table until it is opened again. TLC reaches it in a few steps
  (attach, and open a log before `connected` has been handled). `OfflineShowsTheLog` states what is left
  of the promise, and that the log goes in no other way.
* The filter's count is not refreshed when a paused table resumes (`main_window.py:1287`; the
  count itself is not modelled).
* `configure` is documented to apply the command line's validation. Ports of other modes may be 0,
  numbers are narrowed before they are checked (2^32 + 8 data bits are 8, 8.5 are 8, `true` stop
  bits are 1), and the form takes port 0 for no port where the command line refuses it.
* The editable baud rate has no validator (`main_window.py:338`) and is read by `int()`
  (`capture_command.py:124`): `115_200` and digits of another script are taken, where the command line
  refuses them. `TwoWaysAgree` names the exception: such a form starts what the same number in plain digits
  starts.
* `--latency` enables what is enabled already, and nothing disables it.
* `--frame-size 4x` is 4 and `--frame-size -1` is 2^64 - 1 (`cli_decoder_options.cpp:21`);
  `--delimiter +A` is one byte 0x0A, because `stoul` takes the sign (`frame_decoder_factory.cpp:42`).
* The viewer takes `00x1` or `A B` for one byte, which the command line refuses (`main_window.py:1425`);
  `HexWaysAgree` is therefore stated for what the command line accepts.

## 6. What is not modelled

* The IPC event server's metadata line to each client and its limit of sixteen; the loop of the
  CLI's proxy mode, which stops a session as the engine does; printing.
* Of the viewer: filters and the details of a selected event; the send and serial-port
  commands (request and answer without state); closing the window; engines it did not launch.
  Its user is assumed to be patient (`Patient`) in two ways, and the code has no defence against one
  who is not. He lets one connection end before asking for the next: clicking Detach again within
  the 50 ms a worker takes to notice makes a second connection, and the signals of the first are then
  taken for those of the second; `ConnectionIsOwned` and `PendingIsAnswered` fail. And he clicks the
  app-bar button for what it says: it stays enabled, saying Attach, until `connecting` is handled
  (`main_window.py:908`), and a second click before the worker's thread has begun stops a worker that
  then connects all the same, because `run()` sets `_running` (`ipc_client.py:49`). With
  `Patient = FALSE` and `OthersUse = FALSE` this is TLC's shortest counterexample of `ConnectionIsOwned`.
  `EventDelivery` has the same patient user, who opens no log in that moment either: `stop()` reaches
  a worker that has made its client (`ipc_client.py:61`).
* The help text, JSON's own syntax, printed events, stored settings, widgets: text and layout.
* wirestead and Boost.Asio: only their callbacks and results.

## 7. Plan

1. *IPC event server* as a module of its own that `EngineController` and `SenderSession` compose:
   handler copies, clients dropped on a failed write, the metadata line a client gets on
   connecting against broadcasts of the same moment.
2. *Viewer*, impatient (`Patient = FALSE`); the proxy mode's loop as one more direct mode.
