----------------------------- MODULE EventDelivery -----------------------------
(***************************************************************************)
(* The way of an event from the pipeline's sink to the log file and to a   *)
(* viewer's table: one thread calls the sink, which records the event and  *)
(* then broadcasts it; a viewer attaches to the socket, and its window     *)
(* shows, pauses, clears, or opens the log instead.                        *)
(*                                                                         *)
(* An engine process may crash anywhere and be started again on the same   *)
(* socket path and the same log file; writing may fail.  The user lets a   *)
(* connection end before asking for the next (Viewer has the others), and  *)
(* opens no log in the moment before run() has made its client.            *)
(*                                                                         *)
(* attempted, safe, failed, sent, opened, log and shown are history: of    *)
(* each capture the events record() was called with and how many of them   *)
(* it wrote; the captures whose stream failed; what was broadcast to this  *)
(* connection; what of the log was loaded when it was opened, followed by  *)
(* the events that were then still queued; whether the user has attached   *)
(* or cleared since, and whether the connection that opening it ended had  *)
(* still to be announced; what the table has been given since it was last  *)
(* reset.                                                                  *)
(***************************************************************************)
EXTENDS EventLog, PacketTable

CONSTANT Workloads  \* bounds, of which an instance takes one record

Workload == [lives : Nat,       \* engine processes started
             captures : Nat,    \* captures, in all of them
             events : Nat,      \* events of a capture
             attaches : Nat,    \* times the viewer attaches
             opens : BOOLEAN,   \* the user opens the log
             disk_fills : BOOLEAN]  \* writing may fail

ASSUME WorkloadAssumption == Workloads \subseteq Workload

VARIABLES
    bound,       \* the workload
    lives,       \* engine processes started
    running,     \* IpcEventServer::is_running
    socket,      \* the socket path: "absent", "stale" or "bound"
    counter,     \* the process's sequence allocator
    captures,    \* captures begun
    run,         \* the one in progress, or NoRun
    stream,      \* the recorder's output_
    call,        \* the line the sink is busy with
    file,        \* the log file
    connections, \* times the viewer has attached
    worker,      \* its IpcClientWorker: "none", "starting", "linked", "live", "closing",
                 \* "stopping" if it was stopped before start_sync() had returned
    linked,      \* the server has the connection
    wire,        \* events on their way to the viewer
    queue,       \* signals posted to the window's thread
    ui,          \* the fields of MainWindow
    attempted, safe, failed, sent, opened, log, shown

process == <<lives, running, socket, counter>>
recorder == <<captures, run, stream, call, file, attempted, safe, failed>>
connection == <<connections, worker, linked, wire, sent>>
window == <<ui, opened, log, shown>>
vars == <<bound, process, recorder, connection, queue, window>>

NoRun == 0
Runs == 1..bound.captures
NoCall == [at |-> "none"]
Closed == [open |-> FALSE, failed |-> FALSE, held |-> <<>>]
Opened == [Closed EXCEPT !.open = TRUE]

Init ==
    /\ bound \in Workloads
    /\ lives = 0 /\ running = FALSE /\ socket = "absent" /\ counter = 1
    /\ captures = 0 /\ run = NoRun /\ stream = Closed /\ call = NoCall /\ file = <<>>
    /\ attempted = [r \in Runs |-> <<>>] /\ safe = [r \in Runs |-> 0] /\ failed = {}
    /\ connections = 0 /\ worker = "none" /\ linked = FALSE /\ wire = <<>> /\ sent = <<>>
    /\ queue = <<>>
    /\ ui = [connected |-> FALSE, is_paused |-> FALSE, pending_events |-> <<>>,
             table |-> Cleared, event_count |-> 0, offline |-> FALSE]
    /\ opened = <<>> /\ shown = <<>>
    /\ log = [asked |-> FALSE, late |-> FALSE, cleared |-> FALSE]

-----------------------------------------------------------------------------
(***************************************************************************)
(* The engine process                                                      *)
(***************************************************************************)
\* The server's end of the connection is gone; what was on its way arrives up
\* to some line.
LinkDown ==
    /\ linked' = FALSE
    /\ \E n \in 0..Len(wire) : wire' = SubSeq(wire, 1, n)
    /\ UNCHANGED <<connections, worker, sent>>

\* A process starts its server, whatever is left of another's socket.
StartEngine ==
    /\ ~running /\ lives < bound.lives
    /\ lives' = lives + 1 /\ running' = TRUE /\ socket' = "bound" /\ counter' = 1
    /\ UNCHANGED <<recorder, connection, queue, window>>

StopEngine ==
    /\ running /\ run = NoRun
    /\ running' = FALSE /\ socket' = "absent"
    /\ LinkDown
    /\ UNCHANGED <<lives, counter, recorder, queue, window>>

\* The process is killed.  A line that is being written is left in any state.
Crash ==
    /\ running
    /\ running' = FALSE /\ socket' = "stale"
    /\ run' = NoRun /\ stream' = Closed /\ call' = NoCall
    /\ file' \in IF call.at = "record" /\ ~stream.failed
                 THEN Interrupted(file, call.line) ELSE {file}
    /\ LinkDown
    /\ UNCHANGED <<lives, counter, captures, attempted, safe, failed, queue, window>>

\* Mutant: the file is opened and nothing is written.
StartCapture_NoMetadata ==
    /\ running /\ run = NoRun /\ captures < bound.captures
    /\ captures' = captures + 1
    /\ run' = captures + 1
    /\ stream' = Opened
    /\ UNCHANGED call
    /\ UNCHANGED <<process, file, attempted, safe, failed, connection, queue, window>>

\* A capture's recorder opens the file to append, the metadata line first.
StartCapture ==
    /\ running /\ run = NoRun /\ captures < bound.captures
    /\ captures' = captures + 1
    /\ run' = captures + 1
    /\ stream' = Opened
    /\ call' = [at |-> "record", line |-> Metadata(captures + 1)]
    /\ UNCHANGED <<process, file, attempted, safe, failed, connection, queue, window>>

\* The sink is called with a new event: a raw one, or one derived from a raw
\* event of this capture.
NewEvent ==
    /\ run # NoRun /\ call = NoCall /\ Len(attempted[run]) < bound.events
    /\ \E parent \in {NoParent} \cup
             {attempted[run][i].seq : i \in {k \in DOMAIN attempted[run] :
                                                attempted[run][k].parent = NoParent}} :
          LET e == Event(run, counter, parent) IN
          /\ call' = [at |-> "record", line |-> e]
          /\ attempted' = [attempted EXCEPT ![run] = Append(@, e)]
    /\ counter' = counter + 1
    /\ UNCHANGED <<lives, running, socket, captures, run, stream, file, safe, failed,
                   connection, queue, window>>

\* Metadata is only recorded; an event is broadcast next.
RecordReturns ==
    call' = IF call.line.kind = "event" THEN [call EXCEPT !.at = "broadcast"] ELSE NoCall

\* Mutant: the line stays in the stream's buffer.
Write_Unflushed ==
    /\ call.at = "record" /\ ~stream.failed
    /\ IF stream.held = <<>> THEN UNCHANGED file
       ELSE file' = Append(file, Written(stream.held[1], "whole"))
    /\ stream' = [stream EXCEPT !.held = <<call.line>>]
    /\ safe' = IF call.line.kind = "event" THEN [safe EXCEPT ![run] = @ + 1] ELSE safe
    /\ RecordReturns
    /\ UNCHANGED <<process, captures, run, attempted, failed, connection, queue, window>>

\* record() and the flush that follows.
Write ==
    /\ call.at = "record" /\ ~stream.failed
    /\ file' = Append(file, Written(call.line, "whole"))
    /\ safe' = IF call.line.kind = "event" THEN [safe EXCEPT ![run] = @ + 1] ELSE safe
    /\ RecordReturns
    /\ UNCHANGED <<process, captures, run, stream, attempted, failed, connection, queue, window>>

\* The write fails, say on a full disk, and leaves the stream bad; the line may
\* stay in its buffer.  Nothing looks at the stream's state.
WriteFails ==
    /\ call.at = "record" /\ ~stream.failed /\ bound.disk_fills
    /\ file' \in Interrupted(file, call.line)
    /\ \E held \in {<<>>, <<call.line>>} :
          stream' = [stream EXCEPT !.failed = TRUE, !.held = held]
    /\ failed' = failed \cup {run}
    /\ RecordReturns
    /\ UNCHANGED <<process, captures, run, attempted, safe, connection, queue, window>>

\* A bad stream takes nothing more.
WriteIgnored ==
    /\ call.at = "record" /\ stream.failed
    /\ RecordReturns
    /\ UNCHANGED <<process, captures, run, stream, file, attempted, safe, failed,
                   connection, queue, window>>

Broadcast ==
    /\ call.at = "broadcast"
    /\ call' = NoCall
    /\ IF running /\ linked
       THEN wire' = Append(wire, call.line) /\ sent' = Append(sent, call.line)
       ELSE UNCHANGED <<wire, sent>>
    /\ UNCHANGED <<process, captures, run, stream, file, attempted, safe, failed,
                   connections, worker, linked, queue, window>>

\* The capture's recorder is closed, which tries once more to write what is
\* left in the buffer.
StopCapture ==
    /\ run # NoRun /\ call = NoCall
    /\ run' = NoRun
    /\ stream' = Closed
    /\ \/ UNCHANGED file
       \/ stream.held # <<>> /\ file' = Append(file, Written(stream.held[1], "whole"))
    /\ UNCHANGED <<process, captures, call, attempted, safe, failed, connection, queue, window>>

-----------------------------------------------------------------------------
(***************************************************************************)
(* The worker thread                                                       *)
(***************************************************************************)
Post(signal) == queue' = Append(queue, signal)

LinkUp ==
    /\ worker = "starting" /\ socket = "bound"
    /\ worker' = "linked" /\ linked' = TRUE
    /\ wire' = <<>> /\ sent' = <<>>
    /\ UNCHANGED <<process, recorder, connections, queue, window>>

\* start_sync() returns true, which is announced whether or not stop() was called
\* meanwhile.
Announce ==
    /\ worker \in {"linked", "stopping"}
    /\ worker' = IF worker = "linked" THEN "live" ELSE "closing"
    /\ Post([kind |-> "connected"])
    /\ UNCHANGED <<process, recorder, connections, linked, wire, sent, window>>

\* _on_message, on a thread of the client's: it does not wait for run() to
\* announce the connection.
Deliver ==
    /\ worker \in {"linked", "live"} /\ wire # <<>>
    /\ Post([kind |-> "event", event |-> Head(wire)])
    /\ wire' = Tail(wire)
    /\ UNCHANGED <<process, recorder, connections, worker, linked, sent, window>>

\* The connection was refused, is lost, or has been stopped.
WorkerEnds ==
    /\ \/ worker \in {"starting", "stopping", "closing"}
       \/ worker = "live" /\ ~linked
    /\ worker' = "none"
    /\ wire' = <<>>
    /\ Post([kind |-> "disconnected"])
    /\ UNCHANGED <<process, recorder, connections, linked, sent, window>>

-----------------------------------------------------------------------------
(***************************************************************************)
(* The window                                                              *)
(***************************************************************************)
ClearAll(u) == [u EXCEPT !.table = Cleared, !.pending_events = <<>>, !.event_count = 0]

ClickAttach ==
    /\ worker = "none" /\ connections < bound.attaches
    /\ \A i \in DOMAIN queue : queue[i].kind # "disconnected"
    /\ connections' = connections + 1
    /\ worker' = "starting"
    /\ log' = [log EXCEPT !.asked = FALSE]
    /\ UNCHANGED <<process, recorder, linked, wire, sent, queue, ui, opened, shown>>

\* The window has a worker.
Attached == worker \in {"starting", "linked", "live"}

\* disconnect_socket(): the window forgets its worker and stops it.
Disconnect ==
    IF Attached
    THEN /\ worker' = IF worker = "live" THEN "closing" ELSE "stopping"
         /\ linked' = FALSE /\ wire' = <<>>
         /\ UNCHANGED <<connections, sent>>
    ELSE UNCHANGED connection

ClickDetach ==
    /\ worker = "live" /\ ui.connected
    /\ Disconnect
    /\ ui' = [ui EXCEPT !.connected = FALSE]
    /\ UNCHANGED <<process, recorder, queue, opened, log, shown>>

ClickClear ==
    /\ ui' = ClearAll(ui)
    /\ shown' = <<>>
    /\ log' = [log EXCEPT !.cleared = TRUE]
    /\ UNCHANGED <<process, recorder, connection, queue, opened>>

\* Mutant: the events that were kept back are not forgotten once they are shown.
TogglePause_Again ==
    /\ IF ui.is_paused
       THEN /\ ui' = [ui EXCEPT !.is_paused = FALSE,
                                !.table = AppendEvents(@, ui.pending_events)]
            /\ shown' = shown \o ui.pending_events
       ELSE ui' = [ui EXCEPT !.is_paused = TRUE] /\ UNCHANGED shown
    /\ UNCHANGED <<process, recorder, connection, queue, opened, log>>

TogglePause ==
    /\ IF ui.is_paused
       THEN /\ ui' = [ui EXCEPT !.is_paused = FALSE, !.pending_events = <<>>,
                                !.table = AppendEvents(@, ui.pending_events)]
            /\ shown' = shown \o ui.pending_events
       ELSE ui' = [ui EXCEPT !.is_paused = TRUE] /\ UNCHANGED shown
    /\ UNCHANGED <<process, recorder, connection, queue, opened, log>>

EventsIn(signals) ==
    LET taken == ElementsAt(signals, {i \in DOMAIN signals : signals[i].kind = "event"})
    IN  [i \in DOMAIN taken |-> taken[i].event]

Queued == EventsIn(queue)

\* The window has been told, or will be, that a connection is up.
Announcing ==
    \/ worker \in {"starting", "linked", "stopping"}
    \/ \E i \in DOMAIN queue : queue[i].kind = "connected"

\* open_log_file(): the connection is stopped and the table cleared first; then
\* the log is loaded, or cannot be.
OpenLogFile ==
    /\ bound.opens /\ captures > 0
    /\ Disconnect
    /\ LET u == [ClearAll(ui) EXCEPT !.connected = @ /\ ~Attached]
           events == LoadedEvents(file)
       IN  \/ /\ ui' = [u EXCEPT !.table = SetEvents(events), !.offline = TRUE]
              /\ shown' = LastEvents(events)
              /\ opened' = LastEvents(events) \o Queued
              /\ log' = [asked |-> TRUE, late |-> Announcing, cleared |-> FALSE]
           \/ /\ ui' = u /\ shown' = <<>>
              /\ log' = [log EXCEPT !.cleared = TRUE]
              /\ UNCHANGED opened
    /\ UNCHANGED <<process, recorder, queue>>

Handle(kind) == queue # <<>> /\ Head(queue).kind = kind /\ queue' = Tail(queue)

OnConnected ==
    /\ Handle("connected")
    /\ ui' = [ClearAll(ui) EXCEPT !.connected = TRUE, !.offline = FALSE]
    /\ shown' = <<>>
    /\ UNCHANGED <<process, recorder, connection, opened, log>>

OnDisconnected ==
    /\ Handle("disconnected")
    /\ ui' = [ui EXCEPT !.connected = FALSE]
    /\ UNCHANGED <<process, recorder, connection, opened, log, shown>>

OnEventReceived ==
    /\ Handle("event")
    /\ LET e == Head(queue).event
           u == [ui EXCEPT !.event_count = @ + 1]
       IN  IF ui.is_paused
           THEN ui' = [u EXCEPT !.pending_events = Append(@, e)] /\ UNCHANGED shown
           ELSE ui' = [u EXCEPT !.table = AppendEvent(@, e)] /\ shown' = Append(shown, e)
    /\ UNCHANGED <<process, recorder, connection, opened, log>>

-----------------------------------------------------------------------------
Engine ==
    StartEngine \/ StopEngine \/ Crash \/ StartCapture \/ NewEvent \/ Write \/ WriteFails
    \/ WriteIgnored \/ Broadcast \/ StopCapture

WorkerThread == LinkUp \/ Announce \/ Deliver \/ WorkerEnds

Window ==
    ClickAttach \/ ClickDetach \/ ClickClear \/ TogglePause \/ OpenLogFile
    \/ OnConnected \/ OnDisconnected \/ OnEventReceived

Next == (Engine \/ WorkerThread \/ Window) /\ UNCHANGED bound

Spec == Init /\ [][Next]_vars
=============================================================================
