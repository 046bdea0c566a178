-------------------------- MODULE EngineController --------------------------
(***************************************************************************)
(* The engine process: run_engine's main thread, the socket server's       *)
(* handler slot, EngineController with the session, pipeline and recorder  *)
(* it owns, one handler call per viewer at a time, and the capture         *)
(* session's callback threads.                                             *)
(*                                                                         *)
(* A capture attempt is numbered when start_capture begins to build it;    *)
(* session_, pipeline_ and recorder_ hold that number, or Null.  A critical *)
(* section of mutex_ with one visible effect is one action; start_capture, *)
(* stop_capture and send, which build, join or call out between effects,   *)
(* are a step per effect.  An event is one pipeline_->consume(event) call: *)
(* it is recorded, then broadcast.                                         *)
(***************************************************************************)
EXTENDS EngineMessages

CONSTANTS
    Workers,     \* the threads a capture session calls back on
    Logged,      \* configurations with a log_path (one shared file)
    Proxied,     \* tcp-proxy configurations: no send, start and stop emit events
    BadDecoder,  \* configurations whose decoder settings create_frame_decoder refuses
    Ops,         \* the operations viewers use in this instance
    MaxLines,    \* bound: command lines per viewer
    MaxEvents    \* bound: events after which the callback threads fall silent

Main == "main"
Free == "free"
Null == 0

ASSUME ConfigAssumption ==
    Logged \subseteq Configs /\ Proxied \subseteq Configs /\ BadDecoder \subseteq Configs

ASSUME ThreadAssumption ==
    /\ Main \notin Clients /\ Free \notin Clients \cup {Main}
    /\ Workers \cap (Clients \cup {Main}) = {}

ASSUME OpsAssumption == Ops \subseteq LockedOps \cup UnlockedOps \cup {"noise"}

ASSUME BoundAssumption == MaxLines \in Nat /\ MaxEvents \in Nat

Threads == Clients \cup {Main}      \* the threads that take mutex_
Emitters == Workers \cup Threads    \* the threads that run on_event

Phases == {"boot", "running", "shutdown", "destroy", "destroyed", "exited"}

StartSteps == {"make_recorder", "build_pipeline", "start_transport", "await_start",
               "unwind", "rollback"}
StopSteps == {"stop_session", "join_session", "destroy_session", "reset_pipeline",
              "reset_recorder"}
Steps == StartSteps \cup StopSteps \cup {"sending", "status", "clear_handler"}
Points == {"idle", "called"} \cup Steps

VARIABLES
    phase,           \* how far the main thread is through run_engine
    handler,         \* the socket server's command_handler slot is set
    mutex,           \* owner of EngineController::mutex_
    pc,              \* where each thread is in its handler or in shutdown()
    cmd,             \* the command line a viewer's handler call is about
    received,        \* lines received from each viewer
    dispatched,      \* of those, the commands that reached the controller
    capturing, config,
    session, pipeline, recorder,
    runs,            \* capture attempts begun so far
    transport,       \* the attempt whose transport delivers callbacks, or Null
    session_stopped, \* the session's own stopped_ flag
    events_seen,
    callback,        \* each thread's on_event call in progress
    log,             \* lines of the log file
    wire             \* messages handed to the socket server, in order

control == <<phase, handler, mutex, pc, cmd, received, dispatched>>
engine == <<capturing, config, session, pipeline, recorder, runs>>
capture == <<transport, session_stopped, events_seen, callback>>
vars == <<control, engine, capture, log, wire>>

NoCall == [at |-> "none", run |-> Null, n |-> 0]

Metadata(run) == [kind |-> "metadata", run |-> run]
LogLine == [kind : {"metadata"}, run : Nat] \cup EventMessage

Init ==
    /\ phase = "boot"
    /\ handler = FALSE
    /\ mutex = Free
    /\ pc = [t \in Threads |-> "idle"]
    /\ cmd = [c \in Clients |-> [op |-> "noise", arg |-> "WellFormed"]]
    /\ received = [c \in Clients |-> 0]
    /\ dispatched = [c \in Clients |-> 0]
    /\ capturing = FALSE
    /\ config = NoConfig
    /\ session = Null /\ pipeline = Null /\ recorder = Null
    /\ runs = 0
    /\ transport = Null
    /\ session_stopped = TRUE
    /\ events_seen = 0
    /\ callback = [e \in Emitters |-> NoCall]
    /\ log = <<>>
    /\ wire = <<>>

Send(m) == wire' = Append(wire, m)

Goto(t, point) == pc' = [pc EXCEPT ![t] = point]

Acquire(t) == mutex' = t

Release == mutex' = Free

Quiet == \A w \in Workers : callback[w].at = "none"

-----------------------------------------------------------------------------
(***************************************************************************)
(* Events.  Entering on_event counts the event and looks up pipeline_; the *)
(* sink the pipeline was built with writes to that capture's recorder and  *)
(* then broadcasts.  Decoding is left to a module of its own.              *)
(***************************************************************************)
EnterCallback(e, run) ==
    /\ events_seen' = events_seen + 1
    /\ callback' = [callback EXCEPT ![e] = [at |-> "record", run |-> run, n |-> events_seen + 1]]


\* Mutant: the recorder is handed over only once capturing_ is set.
Record_OnlyWhileCapturing(e) ==
    /\ callback[e].at = "record"
    /\ log' = IF config \in Logged /\ capturing
              THEN Append(log, Event(callback[e].run, callback[e].n)) ELSE log
    /\ callback' = [callback EXCEPT ![e].at = "broadcast"]
    /\ UNCHANGED <<control, engine, transport, session_stopped, events_seen, wire>>

\* Mutant: on_event takes mutex_.
Record_TakesMutex(e) ==
    /\ callback[e].at = "record"
    /\ mutex = Free
    /\ log' = IF config \in Logged
              THEN Append(log, Event(callback[e].run, callback[e].n)) ELSE log
    /\ callback' = [callback EXCEPT ![e].at = "broadcast"]
    /\ UNCHANGED <<control, engine, transport, session_stopped, events_seen, wire>>

Record(e) ==
    /\ callback[e].at = "record"
    /\ log' = IF config \in Logged
              THEN Append(log, Event(callback[e].run, callback[e].n)) ELSE log
    /\ callback' = [callback EXCEPT ![e].at = "broadcast"]
    /\ UNCHANGED <<control, engine, transport, session_stopped, events_seen, wire>>

\* on_disconnect and on_error set stopped_ once their event has been emitted.
Broadcast(e) ==
    /\ callback[e].at = "broadcast"
    /\ Send(Event(callback[e].run, callback[e].n))
    /\ callback' = [callback EXCEPT ![e] = NoCall]
    /\ session_stopped' \in IF e \in Workers THEN {session_stopped, TRUE} ELSE {session_stopped}
    /\ UNCHANGED <<control, engine, transport, events_seen, log>>

\* The transport delivers data, a state change or an error on one of its threads.
Deliver(w) ==
    /\ transport # Null
    /\ callback[w].at = "none"
    /\ events_seen < MaxEvents
    /\ EnterCallback(w, transport)
    /\ UNCHANGED <<control, engine, transport, session_stopped, log, wire>>

-----------------------------------------------------------------------------
(***************************************************************************)
(* The socket server's on_message: the handler slot is copied under its    *)
(* lock and the copy is called outside it.                                 *)
(***************************************************************************)
Receive(c) ==
    /\ phase # "exited"
    /\ pc[c] = "idle"
    /\ received[c] < MaxLines
    /\ \E k \in Command :
          /\ k.op \in Ops
          /\ cmd' = [cmd EXCEPT ![c] = k]
          /\ dispatched' = IF handler /\ k.op # "noise"
                           THEN [dispatched EXCEPT ![c] = @ + 1] ELSE dispatched
    /\ received' = [received EXCEPT ![c] = @ + 1]
    /\ IF handler THEN Goto(c, "called") ELSE UNCHANGED pc
    /\ UNCHANGED <<phase, handler, mutex, engine, capture, log, wire>>

\* What a handler call does on a controller that is gone is undefined; no
\* step is modelled, and DestroyedWhileCalled names those states.
Alive == phase \notin {"destroyed", "exited"}

Called(c, op) == Alive /\ pc[c] = "called" /\ cmd[c].op = op

Locked(c, op) == Called(c, op) /\ mutex = Free

Reply(c, m) ==
    /\ Send(m)
    /\ Goto(c, "idle")
    /\ UNCHANGED <<phase, handler, cmd, received, dispatched>>

\* A locked handler that only replies.
Refuse(c, op) ==
    /\ Reply(c, Result(c, op, FALSE))
    /\ UNCHANGED <<mutex, engine, capture, log>>

DropNoise(c) ==
    /\ Called(c, "noise")
    /\ Goto(c, "idle")
    /\ UNCHANGED <<phase, handler, mutex, cmd, received, dispatched, engine, capture, log, wire>>

UnknownCommand(c) ==
    /\ Called(c, "unknown")
    /\ Reply(c, Result(c, "unknown", FALSE))
    /\ UNCHANGED <<mutex, engine, capture, log>>


\* Mutant: the directory iterator's exception leaves the handler.
HandleListSerialPorts_Escapes(c) ==
    /\ Called(c, "list_serial_ports")
    /\ \/ Reply(c, Result(c, "list_serial_ports", TRUE))
       \/ Goto(c, "idle") /\ UNCHANGED <<phase, handler, cmd, received, dispatched, wire>>
    /\ UNCHANGED <<mutex, engine, capture, log>>

\* Advancing the directory iterator throws on an I/O error, and
\* handle_command turns that into a failed result.
HandleListSerialPorts(c) ==
    /\ Called(c, "list_serial_ports")
    /\ \E ok \in BOOLEAN : Reply(c, Result(c, "list_serial_ports", ok))
    /\ UNCHANGED <<mutex, engine, capture, log>>

HandleGetStatus(c) ==
    /\ Locked(c, "get_status")
    /\ Reply(c, Report(c, IF capturing THEN "capturing" ELSE "idle", config))
    /\ UNCHANGED <<mutex, engine, capture, log>>


\* Mutant: configure does not look at capturing_.
HandleConfigure_WhileCapturing(c) ==
    /\ Locked(c, "configure")
    /\ IF cmd[c].arg = "Malformed"
       THEN Refuse(c, "configure")
       ELSE /\ config' = cmd[c].arg
            /\ Send(Result(c, "configure", TRUE))
            /\ Acquire(c)
            /\ Goto(c, "status")
            /\ UNCHANGED <<phase, handler, cmd, received, dispatched, capture, log,
                           capturing, session, pipeline, recorder, runs>>

\* Mutant: configure broadcasts no status.
HandleConfigure_Silent(c) ==
    /\ Locked(c, "configure")
    /\ IF capturing \/ cmd[c].arg = "Malformed"
       THEN Refuse(c, "configure")
       ELSE /\ config' = cmd[c].arg
            /\ Reply(c, Result(c, "configure", TRUE))
            /\ UNCHANGED <<mutex, capture, log, capturing, session, pipeline, recorder, runs>>

HandleConfigure(c) ==
    /\ Locked(c, "configure")
    /\ IF capturing \/ cmd[c].arg = "Malformed"
       THEN Refuse(c, "configure")
       ELSE /\ config' = cmd[c].arg
            /\ Send(Result(c, "configure", TRUE))
            /\ Acquire(c)
            /\ Goto(c, "status")
            /\ UNCHANGED <<phase, handler, cmd, received, dispatched, capture, log,
                           capturing, session, pipeline, recorder, runs>>


BroadcastStatus(c) ==
    /\ pc[c] = "status"
    /\ Send(Status(IF capturing THEN "capturing" ELSE "idle", config))
    /\ Release
    /\ Goto(c, "idle")
    /\ UNCHANGED <<phase, handler, cmd, received, dispatched, engine, capture, log>>

-----------------------------------------------------------------------------
(***************************************************************************)
(* start_capture: start_session_locked, step by step.                      *)
(***************************************************************************)

HandleStartCapture(c) ==
    /\ Locked(c, "start_capture")
    /\ IF capturing \/ config = NoConfig
       THEN Refuse(c, "start_capture")
       ELSE /\ Acquire(c)
            /\ Goto(c, "make_recorder")
            /\ runs' = runs + 1
            /\ UNCHANGED <<phase, handler, cmd, received, dispatched, capture, log, wire,
                           capturing, config, session, pipeline, recorder>>

\* Opening the log appends a metadata line, or throws before recorder_ is set.
MakeRecorder(c) ==
    /\ pc[c] = "make_recorder"
    /\ \/ /\ recorder' = runs
          /\ log' = IF config \in Logged THEN Append(log, Metadata(runs)) ELSE log
          /\ Goto(c, "build_pipeline")
       \/ /\ config \in Logged
          /\ Goto(c, "rollback")
          /\ UNCHANGED <<recorder, log>>
    /\ UNCHANGED <<phase, handler, mutex, cmd, received, dispatched, capture, wire,
                   capturing, config, session, pipeline, runs>>

\* create_frame_decoder is called for its exceptions only.
BuildPipeline(c) ==
    /\ pc[c] = "build_pipeline"
    /\ IF config \in BadDecoder
       THEN Goto(c, "rollback") /\ UNCHANGED pipeline
       ELSE Goto(c, "start_transport") /\ pipeline' = runs
    /\ UNCHANGED <<phase, handler, mutex, cmd, received, dispatched, capture, log, wire,
                   capturing, config, session, recorder, runs>>

\* session->start(): stopped_ is cleared and the transport begins to call
\* back; tcp-proxy emits "listening" itself.
StartTransport(c) ==
    /\ pc[c] = "start_transport"
    /\ session_stopped' = FALSE
    /\ transport' = runs
    /\ IF config \in Proxied
       THEN EnterCallback(c, runs) ELSE UNCHANGED <<events_seen, callback>>
    /\ Goto(c, "await_start")
    /\ UNCHANGED <<phase, handler, mutex, cmd, received, dispatched, engine, log, wire>>

\* start() returned: session_ is set, then capturing_, then the result goes out.
SessionStarted(c) ==
    /\ pc[c] = "await_start"
    /\ callback[c].at = "none"
    /\ session' = runs
    /\ capturing' = TRUE
    /\ Send(Result(c, "start_capture", TRUE))
    /\ Goto(c, "status")
    /\ UNCHANGED <<phase, handler, mutex, cmd, received, dispatched, capture, log,
                   config, pipeline, recorder, runs>>

\* start() threw: unwinding destroys the local session, whose transport is
\* closed here and whose threads are waited for in Unwind.
SessionFailed(c) ==
    /\ pc[c] = "await_start"
    /\ callback[c].at = "none"
    /\ session_stopped' = TRUE
    /\ transport' = Null
    /\ Goto(c, "unwind")
    /\ UNCHANGED <<phase, handler, mutex, cmd, received, dispatched, engine,
                   events_seen, callback, log, wire>>


\* Mutant: the failed session's threads are not waited for.
Unwind_NoWait(c) ==
    /\ pc[c] = "unwind"
    /\ Goto(c, "rollback")
    /\ UNCHANGED <<phase, handler, mutex, cmd, received, dispatched, engine, capture, log, wire>>

Unwind(c) ==
    /\ pc[c] = "unwind"
    /\ Quiet
    /\ Goto(c, "rollback")
    /\ UNCHANGED <<phase, handler, mutex, cmd, received, dispatched, engine, capture, log, wire>>


\* Mutant: the catch block forgets the pipeline.
Rollback_KeepsPipeline(c) ==
    /\ pc[c] = "rollback"
    /\ session' = Null /\ recorder' = Null
    /\ Release
    /\ Reply(c, Result(c, "start_capture", FALSE))
    /\ UNCHANGED <<pipeline, capturing, config, runs, capture, log>>

\* The handler's catch block.  Nothing calls back by now, so the three
\* resets and the result are one step.
Rollback(c) ==
    /\ pc[c] = "rollback"
    /\ session' = Null /\ pipeline' = Null /\ recorder' = Null
    /\ Release
    /\ Reply(c, Result(c, "start_capture", FALSE))
    /\ UNCHANGED <<capturing, config, runs, capture, log>>

-----------------------------------------------------------------------------
(***************************************************************************)
(* stop_capture and shutdown share stop_capture_locked.                    *)
(***************************************************************************)

\* Mutant: stop_capture does not take mutex_.
HandleStopCapture_Unlocked(c) ==
    /\ Called(c, "stop_capture")
    /\ IF ~capturing
       THEN Refuse(c, "stop_capture")
       ELSE /\ Goto(c, "stop_session")
            /\ UNCHANGED <<phase, handler, mutex, cmd, received, dispatched, engine, capture,
                           log, wire>>

HandleStopCapture(c) ==
    /\ Locked(c, "stop_capture")
    /\ IF ~capturing
       THEN Refuse(c, "stop_capture")
       ELSE /\ Acquire(c)
            /\ Goto(c, "stop_session")
            /\ UNCHANGED <<phase, handler, cmd, received, dispatched, engine, capture, log, wire>>

\* session_->stop() returns at once when the session has already stopped
\* itself, leaving an open transport to the session's destructor.
StopSession(t) ==
    /\ pc[t] = "stop_session"
    /\ session_stopped' = TRUE
    /\ IF session_stopped
       THEN Goto(t, "destroy_session") /\ UNCHANGED transport
       ELSE Goto(t, "join_session") /\ transport' = Null
    /\ UNCHANGED <<phase, handler, mutex, cmd, received, dispatched, engine,
                   events_seen, callback, log, wire>>

\* The callback threads are joined; tcp-proxy then emits "proxy stopped".
JoinSession(t) ==
    /\ pc[t] = "join_session"
    /\ Quiet
    /\ IF config \in Proxied
       THEN EnterCallback(t, session) ELSE UNCHANGED <<events_seen, callback>>
    /\ Goto(t, "destroy_session")
    /\ UNCHANGED <<phase, handler, mutex, cmd, received, dispatched, engine,
                   transport, session_stopped, log, wire>>

CloseTransport(t) ==
    /\ pc[t] = "destroy_session"
    /\ transport # Null
    /\ transport' = Null
    /\ UNCHANGED <<control, engine, session_stopped, events_seen, callback, log, wire>>


\* Mutant: the session is released before its callbacks have returned.
DestroySession_NoWait(t) ==
    /\ pc[t] = "destroy_session"
    /\ transport = Null
    /\ callback[t].at = "none"
    /\ session' = Null
    /\ Goto(t, "reset_pipeline")
    /\ UNCHANGED <<phase, handler, mutex, cmd, received, dispatched, capture, log, wire,
                   capturing, config, pipeline, recorder, runs>>

DestroySession(t) ==
    /\ pc[t] = "destroy_session"
    /\ transport = Null
    /\ Quiet /\ callback[t].at = "none"
    /\ session' = Null
    /\ Goto(t, "reset_pipeline")
    /\ UNCHANGED <<phase, handler, mutex, cmd, received, dispatched, capture, log, wire,
                   capturing, config, pipeline, recorder, runs>>

ResetPipeline(t) ==
    /\ pc[t] = "reset_pipeline"
    /\ pipeline' = Null
    /\ Goto(t, "reset_recorder")
    /\ UNCHANGED <<phase, handler, mutex, cmd, received, dispatched, capture, log, wire,
                   capturing, config, session, recorder, runs>>

\* The last reset, capturing_ = false and, in the handler, the result.
ResetRecorder(t) ==
    /\ pc[t] = "reset_recorder"
    /\ recorder' = Null
    /\ capturing' = FALSE
    /\ IF t = Main
       THEN Goto(t, "clear_handler") /\ UNCHANGED wire
       ELSE Goto(t, "status") /\ Send(Result(t, "stop_capture", TRUE))
    /\ UNCHANGED <<phase, handler, mutex, cmd, received, dispatched, capture, log,
                   config, session, pipeline, runs>>

-----------------------------------------------------------------------------
(***************************************************************************)
(* send: session_->send() runs on the handler's thread and, when the       *)
(* transport accepts the payload, emits the event of what was sent there.  *)
(***************************************************************************)
HandleSend(c) ==
    /\ Locked(c, "send")
    /\ \/ Refuse(c, "send")
       \/ /\ capturing /\ session # Null
          /\ config \notin Proxied
          /\ cmd[c].arg = "WellFormed"
          /\ ~session_stopped
          /\ EnterCallback(c, session)
          /\ Acquire(c)
          /\ Goto(c, "sending")
          /\ UNCHANGED <<phase, handler, cmd, received, dispatched, engine,
                         transport, session_stopped, log, wire>>

SendDone(c) ==
    /\ pc[c] = "sending"
    /\ callback[c].at = "none"
    /\ Release
    /\ Reply(c, Result(c, "send", TRUE))
    /\ UNCHANGED <<engine, capture, log>>

-----------------------------------------------------------------------------
(***************************************************************************)
(* run_engine: the socket server is already accepting in phase "boot"; the *)
(* destructor runs shutdown() a second time, and the server is stopped and *)
(* destroyed after the controller.                                         *)
(***************************************************************************)
Install ==
    /\ phase = "boot"
    /\ handler' = TRUE
    /\ phase' = "running"
    /\ UNCHANGED <<mutex, pc, cmd, received, dispatched, engine, capture, log, wire>>

StopRequested ==
    /\ phase = "running"
    /\ phase' = "shutdown"
    /\ UNCHANGED <<handler, mutex, pc, cmd, received, dispatched, engine, capture, log, wire>>


\* Mutant: the destructor does not look for a capture that a late handler began.
Shutdown_OnlyOnce ==
    /\ phase \in {"shutdown", "destroy"}
    /\ pc[Main] = "idle"
    /\ mutex = Free
    /\ Acquire(Main)
    /\ Goto(Main, IF capturing /\ phase = "shutdown" THEN "stop_session" ELSE "clear_handler")
    /\ UNCHANGED <<phase, handler, cmd, received, dispatched, engine, capture, log, wire>>

Shutdown ==
    /\ phase \in {"shutdown", "destroy"}
    /\ pc[Main] = "idle"
    /\ mutex = Free
    /\ Acquire(Main)
    /\ Goto(Main, IF capturing THEN "stop_session" ELSE "clear_handler")
    /\ UNCHANGED <<phase, handler, cmd, received, dispatched, engine, capture, log, wire>>


ClearHandler ==
    /\ pc[Main] = "clear_handler"
    /\ handler' = FALSE
    /\ Release
    /\ Goto(Main, "idle")
    /\ phase' = IF phase = "shutdown" THEN "destroy" ELSE "destroyed"
    /\ UNCHANGED <<cmd, received, dispatched, engine, capture, log, wire>>

StopServer ==
    /\ phase = "destroyed"
    /\ \A c \in Clients : pc[c] = "idle"
    /\ phase' = "exited"
    /\ UNCHANGED <<handler, mutex, pc, cmd, received, dispatched, engine, capture, log, wire>>

-----------------------------------------------------------------------------
UnlockedHandler(c) == DropNoise(c) \/ UnknownCommand(c) \/ HandleListSerialPorts(c)

LockedHandler(c) ==
    HandleGetStatus(c) \/ HandleConfigure(c) \/ HandleStartCapture(c)
    \/ HandleStopCapture(c) \/ HandleSend(c)

StartStep(c) ==
    MakeRecorder(c) \/ BuildPipeline(c) \/ StartTransport(c) \/ SessionStarted(c)
    \/ SessionFailed(c) \/ Unwind(c) \/ Rollback(c)

StopStep(t) ==
    StopSession(t) \/ JoinSession(t) \/ CloseTransport(t) \/ DestroySession(t)
    \/ ResetPipeline(t) \/ ResetRecorder(t)

FinishStep(c) == BroadcastStatus(c) \/ SendDone(c)

MainStep == Install \/ StopRequested \/ Shutdown \/ ClearHandler \/ StopServer

Next ==
    \/ \E c \in Clients : Receive(c) \/ UnlockedHandler(c) \/ LockedHandler(c)
                          \/ StartStep(c) \/ FinishStep(c)
    \/ \E t \in Threads : StopStep(t)
    \/ \E e \in Emitters : Record(e) \/ Broadcast(e)
    \/ \E w \in Workers : Deliver(w)
    \/ MainStep

Spec == Init /\ [][Next]_vars

(***************************************************************************)
(* Every thread that can take its next step takes it.  Nothing obliges a   *)
(* viewer to send, a device to produce data or a signal to arrive.  A      *)
(* thread waiting for mutex_ gets it if it is free again and again.        *)
(***************************************************************************)
Fairness ==
    /\ \A c \in Clients : /\ WF_vars(UnlockedHandler(c))
                          /\ SF_vars(LockedHandler(c))
                          /\ WF_vars(StartStep(c)) /\ WF_vars(FinishStep(c))
    /\ \A t \in Threads : WF_vars(StopStep(t))
    /\ \A e \in Emitters : WF_vars(Record(e) \/ Broadcast(e))
    /\ WF_vars(Install) /\ SF_vars(Shutdown) /\ WF_vars(ClearHandler) /\ WF_vars(StopServer)

FairSpec == Spec /\ Fairness
=============================================================================
