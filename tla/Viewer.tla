------------------------------- MODULE Viewer -------------------------------
(***************************************************************************)
(* The viewer: its main window, the worker threads that hold its           *)
(* connections, the engine process it launches and, reduced to what        *)
(* EngineProtocol promises, the engine itself, which other viewers may     *)
(* command as well.                                                        *)
(*                                                                         *)
(* Everything the window does happens on one thread, a slot at a time.  A  *)
(* worker's signals are posted to that thread's queue, and slots see them   *)
(* when they get there, whatever became of the worker since.  The window's *)
(* fields are one record, ui, and its methods are operators on it.         *)
(***************************************************************************)
EXTENDS Naturals, Sequences

CONSTANTS
    MaxWorkers,   \* bound: connections the viewer makes
    MaxCommands,  \* bound: commands the user may cause on one connection
    MaxBacklog,   \* bound: lines under way when other viewers act
    OthersUse,    \* other viewers command the engine too
    Patient       \* the user asks for a connection when the last has ended, and
                  \* for its end when the button offers it

ASSUME BoundAssumption == MaxWorkers \in Nat /\ MaxCommands \in Nat /\ MaxBacklog \in Nat
ASSUME UserAssumption == OthersUse \in BOOLEAN /\ Patient \in BOOLEAN

None == 0
Workers == 1..MaxWorkers

VARIABLES
    ui,          \* the fields of MainWindow
    process,     \* the engine process: "none", "starting", "running"
    connector,   \* IpcConnector is polling for the socket
    engine,      \* the engine behind the socket, and whether others used it
    worker_at,   \* where each IpcClientWorker is
    running,     \* its _running
    client,      \* its _client: "none", "open" or "stopped"
    linked,      \* its connection is up
    ids,         \* commands it has numbered
    up, down,    \* lines on their way to and from the engine
    queue        \* the signals posted to the window's thread

wires == <<ids, up, down>>
threads == <<worker_at, running, client, linked>>
vars == <<ui, process, connector, engine, threads, wires, queue>>

Off == [up |-> FALSE, configured |-> FALSE, capturing |-> FALSE, shared |-> FALSE]

Init ==
    /\ ui = [worker |-> None, connected |-> FALSE, engine_state |-> "idle",
             starting |-> FALSE, config |-> FALSE, pending |-> {},
             start |-> TRUE, stop |-> FALSE, attach |-> "attach"]
    /\ process = "none"
    /\ connector = FALSE
    /\ engine = Off
    /\ worker_at = [w \in Workers |-> "none"]
    /\ running = [w \in Workers |-> FALSE]
    /\ client = [w \in Workers |-> "none"]
    /\ linked = [w \in Workers |-> FALSE]
    /\ ids = [w \in Workers |-> 0]
    /\ up = [w \in Workers |-> <<>>]
    /\ down = [w \in Workers |-> <<>>]
    /\ queue = <<>>

StateName(capturing) == IF capturing THEN "capturing" ELSE "idle"

-----------------------------------------------------------------------------
(***************************************************************************)
(* The window's helpers                                                    *)
(***************************************************************************)
SetControls(u, capture) ==
    [u EXCEPT !.start = ~capture /\ ~u.starting, !.stop = capture]

\* Mutant: the buttons are set before the flag they depend on.
RestoreControls_Late(u) == [SetControls(u, FALSE) EXCEPT !.starting = FALSE]

RestoreControls(u) == SetControls([u EXCEPT !.starting = FALSE], FALSE)

ApplyEngineState(u, state) ==
    SetControls([u EXCEPT !.engine_state = state], state = "capturing")

\* A command is sent and its id noted.  The ids of every worker start at one,
\* and the table of pending commands has one entry per id.
Note(u, w, op) ==
    LET entry == [id |-> ids[w] + 1, intent |-> op, via |-> w]
    IN  [u EXCEPT !.pending = {p \in @ : p.id # entry.id} \cup {entry}]

\* send_command() numbers the command and drops it if the connection is gone.
Send(w, op) ==
    /\ ids' = [ids EXCEPT ![w] = @ + 1]
    /\ up' = IF running[w] /\ client[w] = "open" /\ linked[w]
             THEN [up EXCEPT ![w] = Append(@, [id |-> ids[w] + 1, op |-> op])]
             ELSE up
    /\ UNCHANGED down

\* connect_socket(): a new worker thread.  The button of the window stays as it
\* is until the worker signals.
Fresh(w) == worker_at[w] = "none" /\ \A v \in 1..(w - 1) : worker_at[v] # "none"

Connect(u, w) ==
    /\ Fresh(w)
    /\ ui' = [u EXCEPT !.worker = w]
    /\ worker_at' = [worker_at EXCEPT ![w] = "new"]
    /\ UNCHANGED <<running, client, linked, wires>>

\* disconnect_socket(): the window forgets its worker and stops it.
Forget(u) == [u EXCEPT !.connected = FALSE, !.pending = {}, !.worker = None]

\* client.stop(): what was being sent may or may not get through, what has not
\* been taken off the socket is lost.
CloseClient(w) ==
    /\ client' = [client EXCEPT ![w] = IF @ = "open" THEN "stopped" ELSE @]
    /\ linked' = [linked EXCEPT ![w] = FALSE]
    /\ up' \in {up, [up EXCEPT ![w] = <<>>]}
    /\ down' = [down EXCEPT ![w] = <<>>]
    /\ UNCHANGED ids

\* Mutant: the worker is left to itself.
Disconnect_ForgetsOnly ==
    /\ ui' = Forget(ui)
    /\ connector' = FALSE
    /\ UNCHANGED <<threads, wires>>

Disconnect ==
    /\ ui' = Forget(ui)
    /\ connector' = FALSE
    /\ IF ui.worker = None THEN UNCHANGED <<threads, wires>>
       ELSE /\ running' = [running EXCEPT ![ui.worker] = FALSE]
            /\ CloseClient(ui.worker)
            /\ UNCHANGED worker_at

\* The engine process ends, by itself or killed by CaptureProcess.stop(), and
\* on_capture_stopped (or, with the same effect, on_capture_error) runs.
ProcessEnds(u) ==
    /\ process' = "none" /\ engine' = Off /\ connector' = FALSE
    /\ ui' = Forget(RestoreControls([u EXCEPT !.config = FALSE]))
    /\ running' = [w \in Workers |-> running[w] /\ w # u.worker]
    /\ client' = [w \in Workers |->
                    IF w = u.worker /\ client[w] = "open" THEN "stopped" ELSE client[w]]
    /\ linked' = [w \in Workers |-> FALSE]
    /\ up' = [w \in Workers |-> <<>>]
    /\ down' = [w \in Workers |-> IF w = u.worker THEN <<>> ELSE down[w]]
    /\ UNCHANGED <<worker_at, ids>>

-----------------------------------------------------------------------------
(***************************************************************************)
(* What the user does                                                      *)
(***************************************************************************)
Connected == ui.connected /\ ui.worker # None

Alive(w) == w # None /\ worker_at[w] \notin {"none", "done"}

\* Nothing that could still change the connection is under way.
Settled ==
    /\ process # "starting" /\ ~connector
    /\ \A w \in Workers : ~Alive(w)
    /\ queue = <<>>

Launched(u) == SetControls([u EXCEPT !.starting = TRUE], FALSE)

\* start_capture() over the connection there is.
StartOverConnection ==
    /\ ui.start /\ Connected
    /\ ids[ui.worker] + 2 <= MaxCommands
    /\ ui' = Note(Launched(ui), ui.worker, "configure")
    /\ Send(ui.worker, "configure")
    /\ UNCHANGED <<process, connector, engine, threads, queue>>

\* start_capture() without one: connect to the engine process, or launch it.
StartWithoutConnection ==
    /\ ui.start /\ ~Connected
    /\ Patient => Settled
    /\ LET u == [Launched(ui) EXCEPT !.config = TRUE] IN
       \/ /\ process # "none"
          /\ \E w \in Workers : Connect(u, w)
          /\ UNCHANGED process
       \/ /\ process = "none"
          /\ process' = "starting" /\ ui' = u
          /\ UNCHANGED <<threads, wires>>
       \/ /\ process = "none"     \* no such executable
          /\ ui' = RestoreControls(u)
          /\ UNCHANGED <<process, threads, wires>>
    /\ UNCHANGED <<connector, engine, queue>>

\* stop_capture(), by its button or before a log is opened.
StopOverConnection(u) ==
    /\ ids[u.worker] < MaxCommands
    /\ ui' = Note([u EXCEPT !.stop = FALSE], u.worker, "stop_capture")
    /\ Send(u.worker, "stop_capture")
    /\ UNCHANGED <<process, engine, threads>>

KillProcess(u) ==
    IF process = "none"
    THEN /\ ui' = RestoreControls(u) /\ connector' = FALSE
         /\ UNCHANGED <<process, engine, threads, wires>>
    ELSE ProcessEnds(u)

ClickStop ==
    /\ ui.stop \/ process # "none"
    /\ IF Connected THEN StopOverConnection(ui) /\ UNCHANGED connector ELSE KillProcess(ui)
    /\ UNCHANGED queue

\* The Attach button, or Detach, which it becomes.
ClickAttach ==
    /\ ui.attach # "connecting" /\ ~Alive(ui.worker)
    /\ Patient => Settled
    /\ \E w \in Workers : Connect(ui, w)
    /\ UNCHANGED <<process, connector, engine, queue>>

\* Detach, or the same button while it still says Attach; or opening a log, which
\* detaches even while connecting, but stops the engine process first.
Detach ==
    /\ Alive(ui.worker)
    /\ ui.attach # "connecting" \/ process = "none"
    /\ Patient => ui.attach = "detach" \/ process = "none"
    /\ Disconnect
    /\ UNCHANGED <<process, engine, queue>>

-----------------------------------------------------------------------------
(***************************************************************************)
(* The engine process and the poll for its socket                          *)
(***************************************************************************)
ProcessStarted ==
    /\ process = "starting"
    /\ process' = "running" /\ connector' = TRUE
    /\ UNCHANGED <<ui, engine, threads, wires, queue>>

\* It cannot be started, it crashes, or someone ends it.
ProcessStopped == process # "none" /\ ProcessEnds(ui) /\ UNCHANGED queue

SocketReady ==
    /\ connector /\ engine.up
    /\ connector' = FALSE
    /\ \E w \in Workers : Connect(ui, w)
    /\ UNCHANGED <<process, engine, queue>>

\* _on_ipc_socket_failed(): thirty polls and no socket.
SocketFailed ==
    /\ connector /\ ~engine.up
    /\ LET u == [ui EXCEPT !.config = FALSE] IN
       IF Connected
       THEN StopOverConnection(RestoreControls(u)) /\ connector' = FALSE
       ELSE KillProcess(u)
    /\ UNCHANGED queue

-----------------------------------------------------------------------------
(***************************************************************************)
(* A worker thread                                                         *)
(***************************************************************************)
Signal(w, kind) == [kind |-> kind, via |-> w]

Post(signals) == queue' = queue \o signals

Goto(w, point) == worker_at' = [worker_at EXCEPT ![w] = point]

Outside == UNCHANGED <<ui, process, connector, engine>>

\* run() sets _running, whatever stop() did before.
BeginRun(w) ==
    /\ worker_at[w] = "new"
    /\ running' = [running EXCEPT ![w] = TRUE]
    /\ client' = [client EXCEPT ![w] = "open"]
    /\ Goto(w, "connecting")
    /\ Post(<<Signal(w, "connecting")>>)
    /\ Outside /\ UNCHANGED <<linked, wires>>

StartSync(w) ==
    /\ worker_at[w] = "connecting"
    /\ engine.up /\ client[w] = "open"
    /\ linked' = [linked EXCEPT ![w] = TRUE]
    /\ Goto(w, "live")
    /\ Post(<<Signal(w, "connected")>>)
    /\ Outside /\ UNCHANGED <<running, client, wires>>

Ended(w) == <<Signal(w, "disconnected"), Signal(w, "finished")>>

\* The early return signals the end, and the finally clause does again.
StartSyncFails(w) ==
    /\ worker_at[w] = "connecting"
    /\ Goto(w, "closing")
    /\ Post(Ended(w))
    /\ Outside /\ UNCHANGED <<running, client, linked, wires>>

LoopEnds(w) ==
    /\ worker_at[w] = "live"
    /\ ~running[w] \/ ~linked[w]
    /\ running' = [running EXCEPT ![w] = FALSE]
    /\ Goto(w, "closing")
    /\ Outside /\ UNCHANGED <<client, linked, wires, queue>>

\* Mutant: run() does not signal the end of a connection that was up.
Cleanup_Silent(w) ==
    /\ worker_at[w] = "closing"
    /\ CloseClient(w)
    /\ Goto(w, "done")
    /\ Outside /\ UNCHANGED <<running, queue>>

Cleanup(w) ==
    /\ worker_at[w] = "closing"
    /\ CloseClient(w)
    /\ Goto(w, "done")
    /\ Post(Ended(w))
    /\ Outside /\ UNCHANGED running

\* _on_message(): a line becomes a signal.
Deliver(w) ==
    /\ client[w] = "open" /\ down[w] # <<>>
    /\ Post(<<Head(down[w])>>)
    /\ down' = [down EXCEPT ![w] = Tail(@)]
    /\ Outside /\ UNCHANGED <<threads, ids, up>>

\* The engine drops a client whose write fails.
LinkLost(w) ==
    /\ linked[w]
    /\ linked' = [linked EXCEPT ![w] = FALSE]
    /\ Outside /\ UNCHANGED <<worker_at, running, client, wires, queue>>

-----------------------------------------------------------------------------
(***************************************************************************)
(* The engine, as EngineProtocol has it                                    *)
(***************************************************************************)
EngineListens ==
    /\ process = "running" /\ ~engine.up
    /\ engine' = [engine EXCEPT !.up = TRUE]
    /\ UNCHANGED <<ui, process, connector, threads, wires, queue>>

Accepts(e, op) ==
    CASE op = "configure" -> IF e.capturing THEN {FALSE} ELSE BOOLEAN
      [] op = "start_capture" -> IF e.configured /\ ~e.capturing THEN BOOLEAN ELSE {FALSE}
      [] op = "stop_capture" -> {e.capturing}
      [] op = "get_status" -> {TRUE}

After(e, op) ==
    CASE op = "configure" -> [e EXCEPT !.configured = TRUE]
      [] op = "start_capture" -> [e EXCEPT !.capturing = TRUE]
      [] op = "stop_capture" -> [e EXCEPT !.capturing = FALSE]
      [] op = "get_status" -> e

Status(w, e) == [kind |-> "status", via |-> w, state |-> StateName(e.capturing)]

Announced(op, ok) == ok /\ op # "get_status"

\* A command takes effect: its result goes to the sender, a status to all.
Handle(w) ==
    /\ engine.up /\ up[w] # <<>>
    /\ LET c == Head(up[w]) IN \E ok \in Accepts(engine, c.op) :
       LET e == IF ok THEN After(engine, c.op) ELSE engine
           result == [kind |-> "result", via |-> w, id |-> c.id, op |-> c.op, ok |-> ok,
                      state |-> StateName(e.capturing)]
       IN  /\ engine' = e
           /\ down' = [v \in Workers |->
                 IF ~linked[v] THEN down[v]
                 ELSE down[v] \o (IF v = w THEN <<result>> ELSE <<>>)
                              \o (IF Announced(c.op, ok) THEN <<Status(v, e)>> ELSE <<>>)]
    /\ up' = [up EXCEPT ![w] = Tail(@)]
    /\ UNCHANGED <<ui, process, connector, threads, ids, queue>>

\* Another viewer's command, if it does something.
OthersCommand ==
    /\ OthersUse /\ engine.up
    /\ \A w \in Workers : Len(down[w]) + Len(queue) < MaxBacklog
    /\ \E op \in {"configure", "start_capture", "stop_capture"} :
          /\ TRUE \in Accepts(engine, op)
          /\ engine' = [After(engine, op) EXCEPT !.shared = TRUE]
          /\ down' = [w \in Workers |->
                IF linked[w] THEN Append(down[w], Status(w, After(engine, op))) ELSE down[w]]
    /\ UNCHANGED <<ui, process, connector, threads, ids, up, queue>>

-----------------------------------------------------------------------------
(***************************************************************************)
(* The window's slots                                                      *)
(***************************************************************************)
Posted(kind) == queue # <<>> /\ Head(queue).kind = kind

Taken == queue' = Tail(queue) /\ UNCHANGED <<process, connector, engine, threads>>

OnConnecting ==
    /\ Posted("connecting")
    /\ ui' = [ui EXCEPT !.connected = FALSE, !.attach = "connecting"]
    /\ Taken /\ UNCHANGED wires

\* Mutant: a plain attach does not ask for the engine's state.
OnConnected_NoSync ==
    /\ Posted("connected")
    /\ LET wanted == ui.starting /\ ui.config
           u == [ui EXCEPT !.connected = TRUE, !.attach = "detach",
                           !.config = @ /\ ~wanted]
       IN  IF ui.worker = None \/ ~wanted THEN ui' = u /\ UNCHANGED wires
           ELSE ui' = Note(u, ui.worker, "configure") /\ Send(ui.worker, "configure")
    /\ Taken

\* Go on with the start that is waiting, or else ask for the engine's state.
\* Without a worker the first raises an exception and the second does nothing.
OnConnected ==
    /\ Posted("connected")
    /\ LET wanted == ui.starting /\ ui.config
           op == IF wanted THEN "configure" ELSE "get_status"
           u == [ui EXCEPT !.connected = TRUE, !.attach = "detach",
                           !.config = @ /\ ~wanted]
       IN  IF ui.worker = None THEN ui' = u /\ UNCHANGED wires
           ELSE ui' = Note(u, ui.worker, op) /\ Send(ui.worker, op)
    /\ Taken

Disconnected(u) ==
    LET v == [u EXCEPT !.connected = FALSE, !.attach = "attach", !.pending = {}]
    IN  IF process # "none" THEN v
        ELSE SetControls([v EXCEPT !.engine_state = "idle", !.starting = FALSE], FALSE)

OnDisconnected ==
    /\ Posted("disconnected")
    /\ ui' = Disconnected(ui)
    /\ Taken /\ UNCHANGED wires

\* on_worker_finished(): whichever worker it was.
OnWorkerFinished ==
    /\ Posted("finished")
    /\ ui' = [Disconnected(ui) EXCEPT !.worker = None]
    /\ Taken /\ UNCHANGED wires

OnStatus ==
    /\ Posted("status")
    /\ ui' = IF ui.starting THEN ui ELSE ApplyEngineState(ui, Head(queue).state)
    /\ Taken /\ UNCHANGED wires

Answered == {p \in ui.pending : p.id = Head(queue).id}

Intent == IF Answered = {} THEN "none" ELSE (CHOOSE p \in Answered : TRUE).intent

\* on_result_received(), once the id is off the table.
OnResult ==
    /\ Posted("result")
    /\ LET m == Head(queue)
           u == [ui EXCEPT !.pending = @ \ Answered]
       IN  CASE Intent = "configure" /\ m.ok /\ ui.worker # None ->
                    /\ ui' = Note(u, ui.worker, "start_capture")
                    /\ Send(ui.worker, "start_capture")
             [] Intent = "configure" /\ m.ok /\ ui.worker = None -> ui' = u /\ UNCHANGED wires
             [] Intent = "configure" /\ ~m.ok -> ui' = RestoreControls(u) /\ UNCHANGED wires
             [] Intent = "start_capture" ->
                    /\ ui' = LET v == [u EXCEPT !.starting = FALSE] IN
                             IF m.ok THEN ApplyEngineState(v, "capturing")
                             ELSE SetControls(v, FALSE)
                    /\ UNCHANGED wires
             [] Intent = "stop_capture" ->
                    /\ ui' = ApplyEngineState(u, IF m.ok THEN "idle" ELSE u.engine_state)
                    /\ UNCHANGED wires
             [] Intent = "get_status" -> ui' = ApplyEngineState(u, m.state) /\ UNCHANGED wires
             [] Intent = "none" -> ui' = u /\ UNCHANGED wires
    /\ Taken

-----------------------------------------------------------------------------
User == StartOverConnection \/ StartWithoutConnection \/ ClickStop \/ ClickAttach \/ Detach

Process == ProcessStarted \/ ProcessStopped \/ SocketReady \/ SocketFailed \/ EngineListens

Worker(w) ==
    BeginRun(w) \/ StartSync(w) \/ StartSyncFails(w) \/ LoopEnds(w) \/ Cleanup(w) \/ Deliver(w)

Slot ==
    OnConnecting \/ OnConnected \/ OnDisconnected \/ OnWorkerFinished \/ OnStatus \/ OnResult

Next ==
    \/ User \/ Process \/ Slot \/ OthersCommand
    \/ \E w \in Workers : Worker(w) \/ LinkLost(w) \/ Handle(w)

Spec == Init /\ [][Next]_vars
=============================================================================
