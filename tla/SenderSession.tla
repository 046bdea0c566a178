---------------------------- MODULE SenderSession ----------------------------
(***************************************************************************)
(* A run of packet-probe in one of the direct modes: the main thread with   *)
(* the session on its stack, the transport's thread that calls the session  *)
(* back, and the threads on which the IPC server calls the send handler.    *)
(*                                                                         *)
(* The four session classes differ in which callbacks end the session, in   *)
(* what send() asks for first and in stop(); the rest is the same code.     *)
(* transport is the session's client, server or serial member: "none" until *)
(* start(), "open", "closed" when its stop() has been called and "gone"     *)
(* once reset.  The state of a TCP server session is its state_mutex with   *)
(* the active_client it protects; the callbacks lock it.  A thread that     *)
(* would use a member or an object that no longer exists has no step: its   *)
(* behaviour is undefined.                                                  *)
(***************************************************************************)
EXTENDS Naturals, Sequences

CONSTANTS
    Modes,         \* the modes looked at
    Handlers,      \* threads of the IPC server
    Clients,       \* those that connect to a TCP server
    MaxLines,      \* bound: lines typed
    MaxCommands,   \* bound: lines of viewers
    MaxCallbacks   \* bound: what the transport has to tell

Main == "main"
Io == "io"
Threads == {Main, Io} \cup Handlers

Device == "device"      \* the other side, where there is only one
NoPeer == "nobody"
Server == "tcp-server"

ASSUME ThreadsAssumption == Main \notin Handlers /\ Io \notin Handlers
ASSUME ModesAssumption == Modes \subseteq {"tcp-client", Server, "udp", "serial"}
ASSUME ClientsAssumption == Device \notin Clients /\ NoPeer \notin Clients
ASSUME BoundsAssumption == MaxLines \in Nat /\ MaxCommands \in Nat /\ MaxCallbacks \in Nat

Runs == [mode : Modes, file : BOOLEAN, interactive : BOOLEAN, target : BOOLEAN]

VARIABLES
    run,            \* the options
    pc,
    stopped,        \* stopped_
    transport,
    connected,      \* whom the transport is connected to
    active_client,  \* of a TCP server
    handler,        \* the IPC server's command_handler is set
    alive,          \* what exists of the objects on the main thread's stack and of
                    \* the session's members
    destroying,     \* the main thread is in the session's destructor
    exit_code,
    job,            \* what a thread is about to emit, or a callback has been called with
    stop_requested, \* g_stop_requested
    events,         \* in the order in which on_event was called
    lines, commands, callbacks

objects == <<stopped, transport, handler, alive, destroying>>
links == <<connected, active_client, callbacks>>
inputs == <<run, lines, commands, stop_requested>>
vars == <<pc, objects, links, inputs, exit_code, job, events>>

Objects == {"session", "state", "pipeline", "server"}
Idle == [kind |-> "none", peer |-> NoPeer]

Init ==
    /\ run \in Runs /\ (run.mode # "udp" => run.target)
    /\ pc = [t \in Threads |-> IF t = Main THEN "install" ELSE "idle"]
    /\ stopped = TRUE /\ transport = "none" /\ handler = FALSE
    /\ alive = Objects /\ destroying = FALSE
    /\ connected = {} /\ active_client = NoPeer
    /\ exit_code = 0 /\ stop_requested = FALSE
    /\ job = [t \in Threads |-> Idle]
    /\ events = <<>>
    /\ lines = 0 /\ commands = 0 /\ callbacks = 0

Goto(t, point) == pc' = [pc EXCEPT ![t] = point]
Peers == IF run.mode = Server THEN Clients ELSE {Device}

\* An exception leaves main's try block with exit code 2.
Throw(point) == Goto(Main, point) /\ exit_code' = 2

-----------------------------------------------------------------------------
(***************************************************************************)
(* Setting up                                                              *)
(***************************************************************************)
\* install_ipc_send_handler
Install ==
    /\ pc[Main] = "install"
    /\ handler' = TRUE
    /\ Goto(Main, "start")
    /\ UNCHANGED <<stopped, transport, alive, destroying, links, inputs, exit_code, job, events>>

\* The serial session looks for its port before it makes a transport.
PortIsMissing ==
    /\ pc[Main] = "start" /\ run.mode = "serial"
    /\ Throw("destroy")
    /\ UNCHANGED <<objects, links, inputs, job, events>>

Open ==
    /\ pc[Main] = "start"
    /\ transport' = "open" /\ stopped' = FALSE
    /\ Goto(Main, "starting")
    /\ UNCHANGED <<handler, alive, destroying, links, inputs, exit_code, job, events>>

\* The future of start() holds true: a client has, or has had, its connection.
Opened ==
    /\ pc[Main] = "starting"
    /\ \/ run.mode = Server \/ connected # {}
       \/ \E i \in DOMAIN events : events[i].kind = "connected"
    /\ Goto(Main, IF run.file THEN "read_file" ELSE "loop")
    /\ UNCHANGED <<objects, links, inputs, exit_code, job, events>>

\* start() throws before run_sender_session makes its guard.
OpenFails ==
    /\ pc[Main] = "starting"
    /\ stopped' = TRUE
    /\ Throw("destroy")
    /\ UNCHANGED <<transport, handler, alive, destroying, links, inputs, job, events>>

-----------------------------------------------------------------------------
(***************************************************************************)
(* send(), called by the main thread and by the IPC handler                *)
(***************************************************************************)
TcpClientReady == transport = "open" /\ connected # {}
SerialReady == transport = "open" /\ connected # {}
UdpReady == transport = "open" /\ connected # {} /\ run.target

ServerReady == ~stopped /\ transport \in {"open", "closed"} /\ active_client # NoPeer

Ready ==
    \/ run.mode = "tcp-client" /\ TcpClientReady
    \/ run.mode = "serial" /\ SerialReady
    \/ run.mode = "udp" /\ UdpReady
    \/ run.mode = Server /\ ServerReady

\* Where send() returns to.  A line that is not sent is complained about; a
\* file that is not sent ends the run.
Returns(t, accepted) ==
    IF t # Main THEN Goto(t, "idle") /\ UNCHANGED exit_code
    ELSE IF ~run.file THEN Goto(t, "loop") /\ UNCHANGED exit_code
    ELSE IF accepted THEN Goto(t, "stop") /\ UNCHANGED exit_code
    ELSE Throw("unguard")

MayLook(t) ==
    /\ pc[t] = "send" /\ "session" \in alive
    /\ run.mode = Server => "state" \in alive

NotReady(t) ==
    /\ MayLook(t)
    /\ ~Ready
    /\ Returns(t, FALSE)
    /\ UNCHANGED <<objects, links, inputs, job, events>>

\* The transport, and a server's client, are chosen now and used later.
ChoosePeer(t) ==
    /\ MayLook(t)
    /\ Ready
    /\ job' = [job EXCEPT ![t] = [kind |-> "tx",
                                  peer |-> IF run.mode = Server THEN active_client ELSE Device]]
    /\ Goto(t, "sending")
    /\ UNCHANGED <<objects, links, inputs, exit_code, events>>

CanSend(t) == pc[t] = "sending" /\ "session" \in alive /\ transport # "gone"

\* send_move or send_to takes the bytes only for a peer that is there, and
\* may refuse them even then.
Accepts(t) ==
    /\ CanSend(t)
    /\ transport = "open" /\ job[t].peer \in connected
    /\ Goto(t, "emit")
    /\ UNCHANGED <<objects, links, inputs, exit_code, job, events>>

Refuses(t) ==
    /\ CanSend(t)
    /\ job' = [job EXCEPT ![t] = Idle]
    /\ Returns(t, FALSE)
    /\ UNCHANGED <<objects, links, inputs, events>>

\* make_event and emit
Emit(t) ==
    /\ {"session", "pipeline"} \subseteq alive
    /\ events' = Append(events, [kind |-> job[t].kind, peer |-> job[t].peer, by |-> t])

EmitSent(t) ==
    /\ t # Io /\ pc[t] = "emit"
    /\ Emit(t)
    /\ job' = [job EXCEPT ![t] = Idle]
    /\ Returns(t, TRUE)
    /\ UNCHANGED <<objects, links, inputs>>

Send(t) == NotReady(t) \/ ChoosePeer(t) \/ Accepts(t) \/ Refuses(t) \/ EmitSent(t)

-----------------------------------------------------------------------------
(***************************************************************************)
(* The transport's callbacks                                               *)
(***************************************************************************)
\* What makes each session set stopped_, once it has emitted it.
TcpClientEnds == {"disconnected", "error"}
SerialEnds == {"disconnected", "error"}
ServerEnds == {"disconnected", "error"}
UdpEnds == {"disconnected"}

Ends ==
    CASE run.mode = "tcp-client" -> TcpClientEnds
      [] run.mode = "serial" -> SerialEnds
      [] run.mode = "udp" -> UdpEnds
      [] run.mode = Server -> ServerEnds

CallsBack == pc[Io] = "idle" /\ callbacks < MaxCallbacks /\ callbacks' = callbacks + 1
Closing == transport = "closed" /\ pc[Main] = "join"

Tells(kind, p) ==
    /\ job' = [job EXCEPT ![Io] = [kind |-> kind, peer |-> p]]
    /\ Goto(Io, "emit")

\* Retries are off, so that a TCP client connects once.
OnConnect ==
    /\ CallsBack /\ transport = "open" /\ run.mode # Server
    /\ Device \notin connected /\ (run.mode = "tcp-client" => callbacks = 0)
    /\ connected' = {Device}
    /\ Tells("connected", Device)
    /\ UNCHANGED active_client

OnData ==
    /\ CallsBack /\ transport = "open" /\ run.mode # Server
    /\ Device \in connected
    /\ Tells("rx", Device)
    /\ UNCHANGED <<connected, active_client>>

OnDisconnect ==
    /\ CallsBack /\ (transport = "open" \/ Closing) /\ run.mode # Server
    /\ Device \in connected
    /\ connected' = {}
    /\ Tells("disconnected", Device)
    /\ UNCHANGED active_client

\* The connection may or may not survive the error.
OnError ==
    /\ CallsBack /\ transport = "open" /\ run.mode # Server
    /\ connected' \in {connected, {}}
    /\ Tells("error", Device)
    /\ UNCHANGED active_client

\* A server's callbacks first have to find out whether the client is theirs.
Calls(kind, p) ==
    /\ job' = [job EXCEPT ![Io] = [kind |-> kind, peer |-> p]]
    /\ Goto(Io, "locking")
    /\ UNCHANGED active_client

ServerOnConnect(p) ==
    /\ CallsBack /\ transport = "open" /\ run.mode = Server
    /\ p \notin connected
    /\ connected' = connected \cup {p}
    /\ Calls("connected", p)

ServerOnData(p) ==
    /\ CallsBack /\ transport = "open" /\ run.mode = Server
    /\ p \in connected
    /\ Calls("rx", p)
    /\ UNCHANGED connected

ServerOnDisconnect(p) ==
    /\ CallsBack /\ (transport = "open" \/ Closing) /\ run.mode = Server
    /\ p \in connected
    /\ connected' = connected \ {p}
    /\ Calls("disconnected", p)

ServerOnError(p) ==
    /\ CallsBack /\ transport = "open" /\ run.mode = Server
    /\ p \in connected
    /\ connected' \in {connected, connected \ {p}}
    /\ Calls("error", p)

Callback ==
    /\ \/ OnConnect \/ OnData \/ OnDisconnect \/ OnError
       \/ \E p \in Clients : ServerOnConnect(p) \/ ServerOnData(p)
                             \/ ServerOnDisconnect(p) \/ ServerOnError(p)
    /\ UNCHANGED <<objects, inputs, exit_code, events>>

\* What the callbacks of a server do under state_mutex.
Locks(kinds) == pc[Io] = "locking" /\ job[Io].kind \in kinds /\ "state" \in alive
IsActive == active_client = job[Io].peer

Drops == Goto(Io, "idle") /\ job' = [job EXCEPT ![Io] = Idle]

TakeClient ==
    /\ Locks({"connected"})
    /\ IF active_client = NoPeer
       THEN active_client' = job[Io].peer /\ UNCHANGED job
       ELSE UNCHANGED active_client /\ job' = [job EXCEPT ![Io].kind = "ignored"]
    /\ Goto(Io, "emit")

\* Mutant: the client is not compared with the active one.
CompareClient_Any ==
    /\ Locks({"rx"})
    /\ Goto(Io, "emit")
    /\ UNCHANGED <<job, active_client>>

CompareClient ==
    /\ Locks({"rx"})
    /\ IF IsActive THEN Goto(Io, "emit") /\ UNCHANGED job ELSE Drops
    /\ UNCHANGED active_client

\* The active client is let go of, then its end is told.
LetClientGo ==
    /\ Locks({"disconnected", "error"})
    /\ IF IsActive
       THEN active_client' = NoPeer /\ Goto(Io, "emit") /\ UNCHANGED job
       ELSE Drops /\ UNCHANGED active_client

LockState ==
    /\ TakeClient \/ CompareClient \/ LetClientGo
    /\ UNCHANGED <<objects, connected, callbacks, inputs, exit_code, events>>

EmitNotice ==
    /\ pc[Io] = "emit"
    /\ Emit(Io)
    /\ job' = [job EXCEPT ![Io] = Idle]
    /\ Goto(Io, IF job[Io].kind \in Ends THEN "end" ELSE "idle")
    /\ UNCHANGED <<objects, links, inputs, exit_code>>

EndSession ==
    /\ pc[Io] = "end" /\ "session" \in alive
    /\ stopped' = TRUE
    /\ Goto(Io, "idle")
    /\ UNCHANGED <<transport, handler, alive, destroying, links, inputs, exit_code, job, events>>

-----------------------------------------------------------------------------
(***************************************************************************)
(* The IPC server and its send handler                                     *)
(***************************************************************************)
\* on_message copies the handler under its mutex and calls the copy.
Command(h) ==
    /\ pc[h] = "idle" /\ "server" \in alive /\ commands < MaxCommands
    /\ commands' = commands + 1
    /\ IF handler THEN Goto(h, "called") ELSE UNCHANGED pc
    /\ UNCHANGED <<objects, links, run, lines, stop_requested, exit_code, job, events>>

\* Anything but a well-formed send is dropped in silence.
Parse(h) ==
    /\ pc[h] = "called"
    /\ Goto(h, "send") \/ Goto(h, "idle")
    /\ UNCHANGED <<objects, links, inputs, exit_code, job, events>>

-----------------------------------------------------------------------------
(***************************************************************************)
(* run_sender_session                                                      *)
(***************************************************************************)
ReadFile ==
    /\ pc[Main] = "read_file"
    /\ \/ Goto(Main, "send") /\ UNCHANGED exit_code
       \/ Throw("unguard")
    /\ UNCHANGED <<objects, links, inputs, job, events>>

Over == stop_requested \/ stopped

\* The condition of the loop, as far as it does not read.
Loop ==
    /\ pc[Main] = "loop"
    /\ Goto(Main, IF Over THEN "drain" ELSE "reading")
    /\ UNCHANGED <<objects, links, inputs, exit_code, job, events>>

\* A line that is not the hexadecimal it should be ends the run.
ReadLine ==
    /\ pc[Main] = "reading" /\ lines < MaxLines
    /\ lines' = lines + 1
    /\ \/ Goto(Main, "send") /\ UNCHANGED exit_code
       \/ Throw("unguard")
    /\ UNCHANGED <<objects, links, run, commands, stop_requested, job, events>>

EndOfInput ==
    /\ pc[Main] = "reading"
    /\ Goto(Main, "drain")
    /\ UNCHANGED <<objects, links, inputs, exit_code, job, events>>

\* Mutant: the end of a pipe ends the run.
Drain_AtOnce ==
    /\ pc[Main] = "drain"
    /\ Goto(Main, "finish")
    /\ UNCHANGED <<objects, links, inputs, exit_code, job, events>>

\* Mutant: a pipe at its end waits for the session only.
Drain_Deaf ==
    /\ pc[Main] = "drain"
    /\ run.interactive \/ stopped
    /\ Goto(Main, "finish")
    /\ UNCHANGED <<objects, links, inputs, exit_code, job, events>>

\* The end of a terminal's input ends the run, the end of a pipe does not.
Drain ==
    /\ pc[Main] = "drain"
    /\ run.interactive \/ Over
    /\ Goto(Main, "finish")
    /\ UNCHANGED <<objects, links, inputs, exit_code, job, events>>

Finish ==
    /\ pc[Main] = "finish"
    /\ Goto(Main, IF stopped THEN "unguard" ELSE "stop")
    /\ UNCHANGED <<objects, links, inputs, exit_code, job, events>>

\* ~IpcHandlerGuard: the handler goes, copies of it that are being called stay.
Unguard ==
    /\ pc[Main] = "unguard"
    /\ handler' = FALSE
    /\ Goto(Main, "destroy")
    /\ UNCHANGED <<stopped, transport, alive, destroying, links, inputs, exit_code, job, events>>

-----------------------------------------------------------------------------
(***************************************************************************)
(* stop(), and the way the objects go                                      *)
(***************************************************************************)
Left(d) == IF d THEN "free" ELSE "unguard"

\* stop() of a session that has ended by itself does nothing, except that of
\* the serial session, which looks at its transport alone.
SerialStops == transport # "none" /\ transport # "gone"
OtherStops == ~stopped /\ transport # "none"
Stops == IF run.mode = "serial" THEN SerialStops ELSE OtherStops

StopCalled ==
    /\ pc[Main] \in {"stop", "destroy"}
    /\ destroying' = (pc[Main] = "destroy")
    /\ stopped' = TRUE
    /\ Goto(Main, IF Stops THEN "close" ELSE Left(destroying'))
    /\ UNCHANGED <<transport, handler, alive, links, inputs, exit_code, job, events>>

CloseTransport ==
    /\ pc[Main] = "close"
    /\ transport' = "closed"
    /\ Goto(Main, "join")
    /\ UNCHANGED <<stopped, handler, alive, destroying, links, inputs, exit_code, job, events>>

\* The transport's stop() returns when no callback is under way.
Joined ==
    /\ pc[Main] = "join" /\ pc[Io] = "idle"
    /\ Goto(Main, "reset")
    /\ UNCHANGED <<objects, links, inputs, exit_code, job, events>>

ResetTransport ==
    /\ pc[Main] = "reset"
    /\ transport' = "gone"
    /\ connected' = {}
    /\ Goto(Main, Left(destroying))
    /\ UNCHANGED <<stopped, handler, alive, destroying, active_client, callbacks, inputs,
                   exit_code, job, events>>

\* impl_ is the last member and goes first.  Of a TCP server session's Impl the
\* state goes before the transport, which stop() has left alone if the session
\* ended by itself and which may be calling back.
FreeState ==
    /\ pc[Main] = "free" /\ run.mode = Server
    /\ alive' = alive \ {"state"}
    /\ Goto(Main, "free_transport")
    /\ UNCHANGED <<stopped, transport, handler, destroying, links, inputs, exit_code, job, events>>

AtTransport == pc[Main] = IF run.mode = Server THEN "free_transport" ELSE "free"

\* Mutant: on_event_ is destroyed before impl_, as if declared after it.
FreeSession_OtherOrder ==
    /\ AtTransport
    /\ alive' = alive \ {"session", "state"}
    /\ transport' = "gone"
    /\ connected' = {}
    /\ Goto(Main, "leave")
    /\ UNCHANGED <<stopped, handler, destroying, active_client, callbacks, inputs,
                   exit_code, job, events>>

\* The transport's destructor waits for its callbacks; on_event_ and the other
\* members go after it.
FreeSession ==
    /\ AtTransport /\ pc[Io] = "idle"
    /\ alive' = alive \ {"session", "state"}
    /\ transport' = "gone"
    /\ connected' = {}
    /\ Goto(Main, "leave")
    /\ UNCHANGED <<stopped, handler, destroying, active_client, callbacks, inputs,
                   exit_code, job, events>>

\* The pipeline goes next, then the IPC server, which waits for its handlers,
\* and with it the recorder.
FreePipeline ==
    /\ pc[Main] = "leave"
    /\ alive' = alive \ {"pipeline"}
    /\ Goto(Main, "stop_server")
    /\ UNCHANGED <<stopped, transport, handler, destroying, links, inputs, exit_code, job, events>>

StopServer ==
    /\ pc[Main] = "stop_server" /\ \A h \in Handlers : pc[h] = "idle"
    /\ alive' = {}
    /\ Goto(Main, "end")
    /\ UNCHANGED <<stopped, transport, handler, destroying, links, inputs, exit_code, job, events>>

\* SIGINT or SIGTERM
Signal ==
    /\ ~stop_requested /\ pc[Main] # "end"
    /\ stop_requested' = TRUE
    /\ UNCHANGED <<pc, objects, links, run, lines, commands, exit_code, job, events>>

-----------------------------------------------------------------------------
Start == Install \/ PortIsMissing \/ Open \/ Opened \/ OpenFails
Input == ReadLine \/ EndOfInput
Session == ReadFile \/ Loop \/ Drain \/ Finish \/ Unguard
Stop == StopCalled \/ CloseTransport \/ Joined \/ ResetTransport
Destroy == FreeState \/ FreeSession \/ FreePipeline \/ StopServer

MainThread == Start \/ Input \/ Session \/ Send(Main) \/ Stop \/ Destroy
IoThread == EmitNotice \/ EndSession
HandlerThread(h) == Parse(h) \/ Send(h)

Next ==
    \/ MainThread \/ Callback \/ LockState \/ IoThread \/ Signal
    \/ \E h \in Handlers : Command(h) \/ HandlerThread(h)

Spec == Init /\ [][Next]_vars

(***************************************************************************)
(* The threads run on; connecting ends in one way or another and the        *)
(* transport's stop() returns.  Nobody need type, connect, send or signal.  *)
(***************************************************************************)
Fairness ==
    /\ WF_vars(Start) /\ WF_vars(Session) /\ WF_vars(Send(Main))
    /\ WF_vars(Stop) /\ WF_vars(Destroy)
    /\ WF_vars(LockState) /\ WF_vars(IoThread)
    /\ \A h \in Handlers : WF_vars(HandlerThread(h))

FairSpec == Spec /\ Fairness
=============================================================================
