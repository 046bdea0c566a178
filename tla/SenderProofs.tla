----------------------------- MODULE SenderProofs -----------------------------
(***************************************************************************)
(* The runs in a direct mode, for any modes, any clients of a TCP server,  *)
(* any threads of the IPC server and any number of lines, commands and     *)
(* callbacks.                                                              *)
(***************************************************************************)
EXTENDS SenderProperties, TLAPS

\* The points of the main thread before the transport has been told to stop, until
\* the objects on its stack begin to go, and from then on.
EarlyPoints ==
    {"install", "start", "starting", "read_file", "loop", "reading", "send", "sending", "emit",
     "drain", "finish", "unguard", "stop", "destroy", "close"}
RunPoints == EarlyPoints \cup {"join", "reset", "free", "free_transport"}
LeavePoints == {"leave", "stop_server", "end"}
Points == RunPoints \cup LeavePoints \cup {"idle", "called", "locking"}

\* What the steps have in common: one thread moves, or none does.
PcType == pc \in [Threads -> Points]

LEMMA EarlyFacts ==
  /\ "install" \in EarlyPoints /\ "start" \in EarlyPoints /\ "starting" \in EarlyPoints
  /\ "read_file" \in EarlyPoints /\ "loop" \in EarlyPoints /\ "reading" \in EarlyPoints
  /\ "send" \in EarlyPoints /\ "sending" \in EarlyPoints /\ "emit" \in EarlyPoints
  /\ "drain" \in EarlyPoints /\ "finish" \in EarlyPoints /\ "unguard" \in EarlyPoints
  /\ "stop" \in EarlyPoints /\ "destroy" \in EarlyPoints /\ "close" \in EarlyPoints
  BY DEF EarlyPoints

LEMMA RunPointFacts ==
  /\ EarlyPoints \subseteq RunPoints
  /\ "start" \in RunPoints /\ "starting" \in RunPoints
  /\ "send" \in RunPoints /\ "sending" \in RunPoints /\ "emit" \in RunPoints
  /\ "join" \in RunPoints /\ "reset" \in RunPoints /\ "free" \in RunPoints
  /\ "free_transport" \in RunPoints
  BY DEF RunPoints, EarlyPoints

LEMMA PointFacts ==
  /\ RunPoints \subseteq Points /\ LeavePoints \subseteq Points
  /\ "idle" \in Points /\ "called" \in Points /\ "locking" \in Points /\ "end" \in Points
  /\ "leave" \in LeavePoints /\ "stop_server" \in LeavePoints /\ "end" \in LeavePoints
  BY DEF Points, LeavePoints

LEMMA PointsDiffer ==
  /\ \A p \in RunPoints : p \notin LeavePoints
  /\ \A p \in EarlyPoints : p \notin {"join", "reset", "free", "free_transport"}
  /\ \A p \in LeavePoints : p \notin {"join", "reset", "free", "free_transport"}
  BY DEF RunPoints, EarlyPoints, LeavePoints

LEMMA ThreadFacts ==
  /\ Main \in Threads /\ Io \in Threads /\ Main # Io /\ Handlers \subseteq Threads
  /\ \A h \in Handlers : h # Main /\ h # Io
  BY ThreadsAssumption DEF Threads, Main, Io

LEMMA Moves ==
  ASSUME PcType, NEW t \in Threads, NEW p \in Points, Goto(t, p)
  PROVE  PcType' /\ pc'[t] = p /\ \A u \in Threads \ {t} : pc'[u] = pc[u]
  BY DEF PcType, Goto

-----------------------------------------------------------------------------
(***************************************************************************)
(* Lifetimes: an object goes only after the transport has gone, whose      *)
(* destructor waits for the callback that is under way.  The state of a     *)
(* TCP server session is the exception: it goes one step earlier, and what  *)
(* can be said is that a callback is then under way only if stop() has left *)
(* the transport open.                                                     *)
(***************************************************************************)
Leaving == pc[Main] \in LeavePoints

LifeInv ==
    /\ PcType
    /\ transport \in {"none", "open", "closed", "gone"}
    /\ Leaving => transport = "gone"
    /\ transport \in {"none", "gone"} => pc[Io] = "idle"
    /\ pc[Main] = "reset" => pc[Io] = "idle"
    /\ transport = "closed" <=> pc[Main] \in {"join", "reset"}
    /\ pc[Main] \in {"free", "free_transport"} => destroying
    /\ pc[Main] = "free_transport" => run.mode = Server
    /\ ~Leaving => \/ alive = Objects
                   \/ alive = Objects \ {"state"} /\ pc[Main] = "free_transport"

LEMMA LifeInit == Init => LifeInv
<1> SUFFICES ASSUME Init
             PROVE  LifeInv
  OBVIOUS
<1>1. /\ pc = [t \in Threads |-> IF t = Main THEN "install" ELSE "idle"]
      /\ alive = Objects /\ transport = "none"
  BY DEF Init
<1>2. PcType
  BY <1>1, EarlyFacts, RunPointFacts, PointFacts DEF PcType
<1>3. pc[Main] = "install" /\ pc[Io] = "idle"
  BY <1>1, ThreadFacts
<1> QED
  BY <1>1, <1>2, <1>3, EarlyFacts, RunPointFacts, PointsDiffer DEF LifeInv, Leaving

\* The main thread moves between two of the early points.
LEMMA MainMoves ==
  ASSUME LifeInv, pc[Main] \in EarlyPoints, alive' = alive, transport' \in {transport, "open"},
         \E p \in EarlyPoints : Goto(Main, p)
  PROVE  LifeInv'
<1>1. PICK p \in EarlyPoints : Goto(Main, p)
  OBVIOUS
<1>2. PcType' /\ pc'[Main] = p /\ pc'[Io] = pc[Io]
  BY <1>1, ThreadFacts, RunPointFacts, PointFacts, Moves DEF LifeInv
<1>3. alive = Objects /\ ~Leaving' /\ transport # "closed"
  BY <1>2, RunPointFacts, PointsDiffer DEF LifeInv, Leaving
<1>4. pc'[Main] \notin {"join", "reset", "free", "free_transport"}
  BY <1>2, PointsDiffer
<1>5. alive' = Objects'
  BY <1>3 DEF Objects
<1>6. /\ transport' \in {"none", "open", "gone"}
      /\ transport' \in {"none", "gone"} => pc'[Io] = "idle"
  BY <1>2, <1>3 DEF LifeInv
<1> QED
  BY <1>2, <1>3, <1>4, <1>5, <1>6 DEF LifeInv

\* Another thread moves, or none: the transport's only while there is one.
LEMMA OtherMoves ==
  ASSUME LifeInv, PcType', pc'[Main] = pc[Main], UNCHANGED <<alive, transport, run, destroying>>,
         \/ pc'[Io] \in {pc[Io], "idle"}
         \/ transport \notin {"none", "gone"} /\ pc[Main] # "reset"
  PROVE  LifeInv'
  BY DEF LifeInv, Leaving, Objects

LEMMA HandlerMoves ==
  ASSUME LifeInv, NEW h \in Handlers, NEW p \in Points, Goto(h, p),
         UNCHANGED <<alive, transport, run, destroying>>
  PROVE  LifeInv'
<1>1. PcType' /\ pc'[Main] = pc[Main] /\ pc'[Io] = pc[Io]
  BY ThreadFacts, Moves DEF LifeInv
<1> QED
  BY <1>1, OtherMoves

LEMMA NoneMoves ==
  ASSUME LifeInv, pc' = pc, UNCHANGED <<alive, transport, run, destroying>>
  PROVE  LifeInv'
<1>1. PcType'
  BY DEF LifeInv, PcType
<1> QED
  BY <1>1, OtherMoves

LEMMA StartLife ==
  ASSUME LifeInv, Start
  PROVE  LifeInv'
<1>1. /\ pc[Main] \in {"install", "start", "starting"} /\ alive' = alive
      /\ transport' \in {transport, "open"}
  BY DEF Start, Install, PortIsMissing, Open, Opened, OpenFails, objects
<1>2. \/ Goto(Main, "start") \/ Goto(Main, "destroy") \/ Goto(Main, "starting")
      \/ Goto(Main, "read_file") \/ Goto(Main, "loop")
  BY DEF Start, Install, PortIsMissing, Open, Opened, OpenFails, Throw
<1> QED
  BY <1>1, <1>2, EarlyFacts, MainMoves

LEMMA SessionLife ==
  ASSUME LifeInv, Input \/ Session
  PROVE  LifeInv'
<1>1. /\ pc[Main] \in {"reading", "read_file", "loop", "drain", "finish", "unguard"}
      /\ alive' = alive /\ transport' = transport
  BY DEF Input, ReadLine, EndOfInput, Session, ReadFile, Loop, Drain, Finish, Unguard, objects
<1>2. \/ Goto(Main, "send") \/ Goto(Main, "unguard") \/ Goto(Main, "drain")
      \/ Goto(Main, "reading") \/ Goto(Main, "finish") \/ Goto(Main, "stop")
      \/ Goto(Main, "destroy")
  BY DEF Input, ReadLine, EndOfInput, Session, ReadFile, Loop, Drain, Finish, Unguard, Throw
<1> QED
  BY <1>1, <1>2, EarlyFacts, MainMoves

\* The steps of stop() and of the destruction in which the main thread moves on
\* among the later points, one conjunct of the invariant at a time.
LEMMA LateMoves ==
  ASSUME LifeInv, NEW p \in Points, Goto(Main, p),
         transport' \in {"none", "open", "closed", "gone"}, run' = run,
         p \in LeavePoints => transport' = "gone",
         transport' \in {"none", "gone"} \/ p = "reset" => pc[Io] = "idle",
         transport' = "closed" <=> p \in {"join", "reset"},
         p \in {"free", "free_transport"} => destroying',
         p = "free_transport" => run.mode = Server,
         p \notin LeavePoints =>
            \/ alive' = Objects
            \/ alive' = Objects \ {"state"} /\ p = "free_transport"
  PROVE  LifeInv'
<1>1. PcType' /\ pc'[Main] = p /\ pc'[Io] = pc[Io]
  BY ThreadFacts, Moves DEF LifeInv
<1> QED
  BY <1>1 DEF LifeInv, Leaving, Objects

LEMMA StopLife ==
  ASSUME LifeInv, Stop
  PROVE  LifeInv'
<1>0. run' = run /\ alive' = alive
  BY DEF Stop, StopCalled, CloseTransport, Joined, ResetTransport, inputs, objects
<1>1. CASE StopCalled
  <2>1. pc[Main] \in {"stop", "destroy"} /\ transport' = transport
    BY <1>1 DEF StopCalled
  <2>2. alive = Objects /\ transport # "closed"
    BY <2>1, EarlyFacts, RunPointFacts, PointsDiffer DEF LifeInv, Leaving
  <2>3. CASE Goto(Main, "close") \/ Goto(Main, "unguard")
    BY <1>0, <2>1, <2>3, EarlyFacts, MainMoves
  <2>4. CASE Goto(Main, "free") /\ destroying'
    <3>1. "free" \in Points /\ "free" \notin LeavePoints
      BY RunPointFacts, PointFacts, PointsDiffer
    <3>2. /\ transport' \in {"none", "open", "gone"}
          /\ transport' \in {"none", "gone"} => pc[Io] = "idle"
      BY <2>1, <2>2 DEF LifeInv
    <3> QED
      BY <1>0, <2>2, <2>4, <3>1, <3>2, LateMoves
  <2>5. Goto(Main, "close") \/ Goto(Main, "unguard") \/ (Goto(Main, "free") /\ destroying')
    BY <1>1 DEF StopCalled, Left
  <2> QED
    BY <2>3, <2>4, <2>5
<1>2. CASE CloseTransport
  <2>1. pc[Main] = "close" /\ transport' = "closed" /\ Goto(Main, "join")
    BY <1>2 DEF CloseTransport
  <2>2. alive = Objects
    BY <2>1, EarlyFacts, RunPointFacts, PointsDiffer DEF LifeInv, Leaving
  <2>3. "join" \in Points /\ "join" \notin LeavePoints
    BY RunPointFacts, PointFacts, PointsDiffer
  <2> QED
    BY <1>0, <2>1, <2>2, <2>3, LateMoves
<1>3. CASE Joined
  <2>1. pc[Main] = "join" /\ pc[Io] = "idle" /\ transport' = transport /\ Goto(Main, "reset")
    BY <1>3 DEF Joined, objects
  <2>2. alive = Objects /\ transport = "closed"
    BY <2>1, RunPointFacts, PointsDiffer DEF LifeInv, Leaving
  <2>3. "reset" \in Points /\ "reset" \notin LeavePoints
    BY RunPointFacts, PointFacts, PointsDiffer
  <2> QED
    BY <1>0, <2>1, <2>2, <2>3, LateMoves
<1>4. CASE ResetTransport
  <2>1. /\ pc[Main] = "reset" /\ transport' = "gone"
        /\ Goto(Main, "unguard") \/ (Goto(Main, "free") /\ destroying')
    BY <1>4 DEF ResetTransport, Left
  <2>2. alive = Objects /\ pc[Io] = "idle"
    BY <2>1, RunPointFacts, PointsDiffer DEF LifeInv, Leaving
  <2>3. /\ "free" \in Points /\ "free" \notin LeavePoints
        /\ "unguard" \in Points /\ "unguard" \notin LeavePoints
    BY EarlyFacts, RunPointFacts, PointFacts, PointsDiffer
  <2> QED
    BY <1>0, <2>1, <2>2, <2>3, LateMoves
<1> QED
  BY <1>1, <1>2, <1>3, <1>4 DEF Stop

\* send() ends at the main thread's next step or at the return to the server.
LEMMA SendMoves ==
  ASSUME NEW t \in Handlers \cup {Main}, Send(t)
  PROVE  /\ pc[t] \in {"send", "sending", "emit"}
         /\ UNCHANGED <<alive, transport, run, destroying>>
         /\ \/ Goto(t, "sending") \/ Goto(t, "emit")
            \/ t # Main /\ Goto(t, "idle")
            \/ Goto(t, "loop") \/ Goto(t, "stop") \/ Goto(t, "unguard")
<1>1. pc[t] \in {"send", "sending", "emit"} /\ UNCHANGED <<alive, transport, run, destroying>>
  BY DEF Send, NotReady, ChoosePeer, MayLook, Accepts, Refuses, EmitSent, CanSend, objects, inputs
<1>2. (Returns(t, FALSE) \/ Returns(t, TRUE)) =>
        \/ t # Main /\ Goto(t, "idle")
        \/ Goto(t, "loop") \/ Goto(t, "stop") \/ Goto(t, "unguard")
  <2>1. CASE t # Main
    BY <2>1 DEF Returns
  <2>2. CASE t = Main
    BY <2>2 DEF Returns, Throw
  <2> QED
    BY <2>1, <2>2
<1>3. Goto(t, "sending") \/ Goto(t, "emit") \/ Returns(t, FALSE) \/ Returns(t, TRUE)
  BY DEF Send, NotReady, ChoosePeer, Accepts, Refuses, EmitSent
<1>4. \/ Goto(t, "sending") \/ Goto(t, "emit")
      \/ t # Main /\ Goto(t, "idle")
      \/ Goto(t, "loop") \/ Goto(t, "stop") \/ Goto(t, "unguard")
  BY <1>2, <1>3
<1> QED
  BY <1>1, <1>4

LEMMA SendLife ==
  ASSUME LifeInv, NEW t \in Handlers \cup {Main}, Send(t)
  PROVE  LifeInv'
<1>1. CASE t = Main
  <2>1. pc[Main] \in EarlyPoints
    BY <1>1, SendMoves, EarlyFacts
  <2> QED
    BY <1>1, <2>1, SendMoves, EarlyFacts, MainMoves
<1>2. CASE t # Main
  BY <1>2, SendMoves, EarlyFacts, RunPointFacts, PointFacts, HandlerMoves
<1> QED
  BY <1>1, <1>2

LEMMA DestroyLife ==
  ASSUME LifeInv, Destroy
  PROVE  LifeInv'
<1>0. run' = run
  BY DEF Destroy, FreeState, FreeSession, FreePipeline, StopServer, inputs
<1>1. CASE FreeState
  <2>1. /\ pc[Main] = "free" /\ run.mode = Server /\ alive' = alive \ {"state"}
        /\ transport' = transport /\ destroying' = destroying /\ Goto(Main, "free_transport")
    BY <1>1 DEF FreeState
  <2>2. alive = Objects /\ transport # "closed" /\ destroying
    BY <2>1, RunPointFacts, PointsDiffer DEF LifeInv, Leaving
  <2>3. "free_transport" \in Points /\ "free_transport" \notin LeavePoints
    BY RunPointFacts, PointFacts, PointsDiffer
  <2>4. /\ transport' \in {"none", "open", "gone"}
        /\ transport' \in {"none", "gone"} => pc[Io] = "idle"
    BY <2>1, <2>2 DEF LifeInv
  <2> QED
    BY <1>0, <2>1, <2>2, <2>3, <2>4, LateMoves
<1>2. CASE FreeSession
  <2>1. pc[Io] = "idle" /\ transport' = "gone" /\ Goto(Main, "leave")
    BY <1>2 DEF FreeSession
  <2>2. "leave" \in Points /\ "leave" \in LeavePoints
    BY PointFacts
  <2> QED
    BY <1>0, <2>1, <2>2, PointsDiffer, LateMoves
<1>3. ASSUME NEW p \in LeavePoints, Goto(Main, p), pc[Main] \in LeavePoints,
             transport' = transport
      PROVE  LifeInv'
  <2>1. transport' = "gone" /\ pc[Io] = "idle" /\ p \in Points
    BY <1>3, PointFacts DEF LifeInv, Leaving
  <2> QED
    BY <1>0, <1>3, <2>1, PointsDiffer, LateMoves
<1>4. CASE FreePipeline
  BY <1>3, <1>4, PointFacts DEF FreePipeline
<1>5. CASE StopServer
  BY <1>3, <1>5, PointFacts DEF StopServer
<1> QED
  BY <1>1, <1>2, <1>4, <1>5 DEF Destroy

\* A callback begins only while there is a transport.
LEMMA CallbackLife ==
  ASSUME LifeInv, Callback
  PROVE  LifeInv'
<1>1. /\ transport = "open" \/ (transport = "closed" /\ pc[Main] = "join")
      /\ UNCHANGED <<alive, transport, run, destroying>>
  BY DEF Callback, OnConnect, OnData, OnDisconnect, OnError, ServerOnConnect, ServerOnData,
     ServerOnDisconnect, ServerOnError, Closing, objects, inputs
<1>2. Goto(Io, "emit") \/ Goto(Io, "locking")
  BY DEF Callback, OnConnect, OnData, OnDisconnect, OnError, ServerOnConnect, ServerOnData,
     ServerOnDisconnect, ServerOnError, Tells, Calls
<1>3. PcType' /\ pc'[Main] = pc[Main]
  BY <1>2, ThreadFacts, RunPointFacts, PointFacts, Moves DEF LifeInv
<1>4. pc[Main] # "reset"
  BY <1>1 DEF LifeInv
<1> QED
  BY <1>1, <1>3, <1>4, OtherMoves

\* The callback goes on, or ends.
LEMMA IoLife ==
  ASSUME LifeInv, LockState \/ IoThread
  PROVE  LifeInv'
<1>1. pc[Io] # "idle" /\ UNCHANGED <<alive, transport, run, destroying>>
  BY DEF LockState, TakeClient, CompareClient, LetClientGo, Locks, IoThread, EmitNotice,
     EndSession, objects, inputs
<1>2. Goto(Io, "emit") \/ Goto(Io, "end") \/ Goto(Io, "idle")
  BY DEF LockState, TakeClient, CompareClient, LetClientGo, Drops, IoThread, EmitNotice, EndSession
<1>3. PcType' /\ pc'[Main] = pc[Main]
  BY <1>2, ThreadFacts, RunPointFacts, PointFacts, Moves DEF LifeInv
<1>4. transport \notin {"none", "gone"} /\ pc[Main] # "reset"
  BY <1>1 DEF LifeInv
<1> QED
  BY <1>1, <1>3, <1>4, OtherMoves

LEMMA OthersLife ==
  ASSUME LifeInv, Signal \/ (\E h \in Handlers : Command(h) \/ Parse(h)) \/ UNCHANGED vars
  PROVE  LifeInv'
<1>1. CASE Signal
  BY <1>1, NoneMoves DEF Signal, objects
<1>2. ASSUME NEW h \in Handlers, Command(h) \/ Parse(h) PROVE LifeInv'
  <2>1. UNCHANGED <<alive, transport, run, destroying>>
    BY <1>2 DEF Command, Parse, objects, inputs
  <2>2. pc' = pc \/ Goto(h, "called") \/ Goto(h, "send") \/ Goto(h, "idle")
    BY <1>2 DEF Command, Parse
  <2> QED
    BY <2>1, <2>2, RunPointFacts, PointFacts, NoneMoves, HandlerMoves
<1>3. CASE UNCHANGED vars
  BY <1>3, NoneMoves DEF vars, objects, inputs
<1> QED
  BY <1>1, <1>2, <1>3

LEMMA LifeNext ==
  ASSUME LifeInv, [Next]_vars
  PROVE  LifeInv'
<1>1. ASSUME NEW h \in Handlers, Send(h) PROVE LifeInv'
  BY <1>1, SendLife
<1>2. CASE Send(Main)
  BY <1>2, SendLife
<1> QED
  BY <1>1, <1>2, StartLife, SessionLife, StopLife, DestroyLife, CallbackLife, IoLife, OthersLife
     DEF Next, MainThread, HandlerThread

\* The strengthening of the next theorem: the main thread is past the
\* destruction of the session only when the transport has gone and no callback
\* is in progress; before it everything on its stack and every member exists,
\* but for the state of a TCP server session, which is the first to go.
THEOREM Lifetimes == Spec => []LifeInv
  BY LifeInit, LifeNext, PTL DEF Spec

\* A callback of the transport finds the session, the pipeline and the server
\* of its run, in all four modes and however the run ends, although stop()
\* does nothing for a session that has ended by itself.  The state that a TCP
\* server's callbacks lock it finds unless stop() has left the transport open.
THEOREM CallbacksAreSafe == Spec => []CallbackFindsItsSession
<1>1. LifeInv => CallbackFindsItsSession
  <2> SUFFICES ASSUME LifeInv, pc[Io] # "idle"
               PROVE  /\ {"session", "pipeline", "server"} \subseteq alive
                      /\ ~NeverStopped => "state" \in alive
    BY DEF CallbackFindsItsSession
  <2>1. ~Leaving /\ transport \in {"open", "closed"}
    BY DEF LifeInv
  <2>2. CASE alive = Objects
    BY <2>2 DEF Objects
  <2>3. CASE alive = Objects \ {"state"} /\ pc[Main] = "free_transport"
    <3>1. NeverStopped
      BY <2>1, <2>3 DEF LifeInv, NeverStopped
    <3> QED
      BY <2>3, <3>1 DEF Objects
  <2> QED
    BY <2>1, <2>2, <2>3 DEF LifeInv
<1> QED
  BY <1>1, Lifetimes, PTL

-----------------------------------------------------------------------------
(***************************************************************************)
(* What threads are about to tell and what has been told, typed.           *)
(***************************************************************************)
Kinds == {"none", "tx", "rx", "connected", "ignored", "disconnected", "error"}
AnyPeer == Clients \cup {Device, NoPeer}
Jobs == [kind : Kinds, peer : AnyPeer]
Notices == [kind : Kinds, peer : AnyPeer, by : Threads]
Notice(t) == [kind |-> job[t].kind, peer |-> job[t].peer, by |-> t]

DataType ==
    /\ events \in Seq(Notices)
    /\ job \in [Threads -> Jobs]
    /\ active_client \in AnyPeer

LEMMA KindFacts ==
  /\ \A k \in Kinds, p \in AnyPeer : [kind |-> k, peer |-> p] \in Jobs
  /\ {"none", "tx", "rx", "connected", "ignored", "disconnected", "error"} \subseteq Kinds
  /\ Device \in AnyPeer /\ NoPeer \in AnyPeer /\ \A p \in Clients : p \in AnyPeer
  /\ Idle \in Jobs
  BY DEF Kinds, AnyPeer, Jobs, Idle

LEMMA NoticeOf == \A t : Notice(t).kind = job[t].kind /\ Notice(t).peer = job[t].peer
  BY DEF Notice

\* emit appends one notice and changes none.
LEMMA EmitAppends ==
  ASSUME DataType, NEW t \in Threads, Emit(t)
  PROVE  /\ events' \in Seq(Notices)
         /\ DOMAIN events = 1 .. Len(events) /\ Len(events) \in Nat
         /\ DOMAIN events' = 1 .. (Len(events) + 1)
         /\ events'[Len(events) + 1] = Notice(t)
         /\ \A i \in DOMAIN events : events'[i] = events[i]
<1>1. job[t] \in Jobs
  BY DEF DataType
<1>2. Notice(t) \in Notices
  BY <1>1 DEF Jobs, Notices, Notice
<1>3. events' = Append(events, Notice(t)) /\ events \in Seq(Notices)
  BY DEF Emit, Notice, DataType
<1> QED
  BY <1>2, <1>3

LEMMA DataInit == Init => DataType
  BY KindFacts DEF Init, DataType

LEMMA NothingTold ==
  ASSUME DataType, UNCHANGED <<events, job, active_client>>
  PROVE  DataType'
  BY DEF DataType

LEMMA SendData ==
  ASSUME DataType, NEW t \in Handlers \cup {Main}, Send(t)
  PROVE  DataType'
<1>0. t \in Threads
  BY ThreadFacts
<1>1. CASE NotReady(t)
  BY <1>1, NothingTold DEF NotReady, links
<1>2. CASE ChoosePeer(t)
  <2>1. PICK p \in AnyPeer : job' = [job EXCEPT ![t] = [kind |-> "tx", peer |-> p]]
    <3>1. active_client \in AnyPeer /\ Device \in AnyPeer
      BY KindFacts DEF DataType
    <3> QED
      BY <1>2, <3>1 DEF ChoosePeer
  <2>2. [kind |-> "tx", peer |-> p] \in Jobs
    BY KindFacts
  <2> QED
    BY <1>0, <1>2, <2>1, <2>2 DEF ChoosePeer, links, DataType
<1>3. CASE Accepts(t)
  BY <1>3, NothingTold DEF Accepts, links
<1>4. CASE Refuses(t)
  BY <1>0, <1>4, KindFacts DEF Refuses, links, DataType
<1>5. CASE EmitSent(t)
  <2>1. Emit(t) /\ job' = [job EXCEPT ![t] = Idle] /\ active_client' = active_client
    BY <1>5 DEF EmitSent, links
  <2> QED
    BY <1>0, <2>1, EmitAppends, KindFacts DEF DataType
<1> QED
  BY <1>1, <1>2, <1>3, <1>4, <1>5 DEF Send

\* A callback is called with one thing to tell, about the device or about a
\* client of a server, which it then looks up.
LEMMA CallbackTells ==
  ASSUME Callback
  PROVE  /\ UNCHANGED <<events, run, active_client>> /\ pc[Io] = "idle"
         /\ \E k \in Kinds, p \in AnyPeer :
               Tells(k, p) \/ (p \in Clients /\ Calls(k, p))
         /\ run.mode = Server => \E k \in Kinds, p \in Clients : Calls(k, p)
<1>1. UNCHANGED <<events, run, active_client>> /\ pc[Io] = "idle"
  BY DEF Callback, OnConnect, OnData, OnDisconnect, OnError, ServerOnConnect, ServerOnData,
     ServerOnDisconnect, ServerOnError, Calls, CallsBack, inputs
<1>2. CASE OnConnect \/ OnData \/ OnDisconnect \/ OnError
  <2>1. \/ Tells("connected", Device) \/ Tells("rx", Device)
        \/ Tells("disconnected", Device) \/ Tells("error", Device)
    BY <1>2 DEF OnConnect, OnData, OnDisconnect, OnError
  <2>2. run.mode # Server
    BY <1>2 DEF OnConnect, OnData, OnDisconnect, OnError
  <2> QED
    BY <1>1, <2>1, <2>2, KindFacts
<1>3. ASSUME NEW c \in Clients, \/ ServerOnConnect(c) \/ ServerOnData(c)
                                \/ ServerOnDisconnect(c) \/ ServerOnError(c)
      PROVE  \E k \in Kinds : Calls(k, c)
  <2>1. \/ Calls("connected", c) \/ Calls("rx", c)
        \/ Calls("disconnected", c) \/ Calls("error", c)
    BY <1>3 DEF ServerOnConnect, ServerOnData, ServerOnDisconnect, ServerOnError
  <2> QED
    BY <2>1, KindFacts
<1> QED
  BY <1>1, <1>2, <1>3, KindFacts DEF Callback

LEMMA CallbackData ==
  ASSUME DataType, Callback
  PROVE  DataType'
<1>1. UNCHANGED <<events, active_client>>
  BY CallbackTells
<1>2. PICK k \in Kinds, p \in AnyPeer : Tells(k, p) \/ Calls(k, p)
  BY CallbackTells
<1>3. job' = [job EXCEPT ![Io] = [kind |-> k, peer |-> p]] /\ [kind |-> k, peer |-> p] \in Jobs
  BY <1>2, KindFacts DEF Tells, Calls
<1> QED
  BY <1>1, <1>3 DEF DataType

\* What a callback of a server finds out makes it go on, change what it has to
\* tell, or return.
LEMMA LockData ==
  ASSUME DataType, LockState
  PROVE  DataType'
<1>1. events' = events
  BY DEF LockState
<1>2. job[Io] \in Jobs /\ job[Io].kind \in Kinds /\ job[Io].peer \in AnyPeer
  BY ThreadFacts DEF DataType, Jobs
<1>3. CASE TakeClient
  <2>1. \/ active_client' = job[Io].peer /\ job' = job
        \/ active_client' = active_client /\ job' = [job EXCEPT ![Io].kind = "ignored"]
    BY <1>3 DEF TakeClient
  <2>2. [job[Io] EXCEPT !.kind = "ignored"] \in Jobs
    BY <1>2, KindFacts DEF Jobs
  <2>3. active_client' \in AnyPeer
    BY <1>2, <2>1 DEF DataType
  <2>4. job' \in [Threads -> Jobs]
    BY <2>1, <2>2, ThreadFacts DEF DataType
  <2> QED
    BY <1>1, <2>3, <2>4 DEF DataType
<1>4. CASE CompareClient \/ LetClientGo
  <2>1. active_client' \in {active_client, NoPeer} /\ (job' = job \/ job' = [job EXCEPT ![Io] = Idle])
    BY <1>4 DEF CompareClient, LetClientGo, Drops
  <2>2. active_client' \in AnyPeer /\ job' \in [Threads -> Jobs]
    BY <2>1, KindFacts DEF DataType
  <2> QED
    BY <1>1, <2>2 DEF DataType
<1> QED
  BY <1>3, <1>4 DEF LockState

LEMMA IoData ==
  ASSUME DataType, IoThread
  PROVE  DataType'
<1>1. CASE EmitNotice
  <2>1. Emit(Io) /\ job' = [job EXCEPT ![Io] = Idle] /\ active_client' = active_client
    BY <1>1 DEF EmitNotice, links
  <2> QED
    BY <2>1, ThreadFacts, EmitAppends, KindFacts DEF DataType
<1>2. CASE EndSession
  BY <1>2, NothingTold DEF EndSession, links
<1> QED
  BY <1>1, <1>2 DEF IoThread

\* The rest of the steps tell nothing.
LEMMA QuietSteps ==
  ASSUME \/ Start \/ Input \/ Session \/ Stop \/ Destroy \/ Signal
         \/ \E h \in Handlers : Command(h) \/ Parse(h)
  PROVE  UNCHANGED <<events, job, active_client, run>>
<1>1. CASE Start
  BY <1>1 DEF Start, Install, PortIsMissing, Open, Opened, OpenFails, links, inputs
<1>2. CASE Input \/ Session
  BY <1>2 DEF Input, ReadLine, EndOfInput, Session, ReadFile, Loop, Drain, Finish, Unguard,
     links, inputs
<1>3. CASE Stop \/ Destroy
  BY <1>3 DEF Stop, StopCalled, CloseTransport, Joined, ResetTransport, Destroy, FreeState,
     FreeSession, FreePipeline, StopServer, links, inputs
<1>4. CASE Signal \/ \E h \in Handlers : Command(h) \/ Parse(h)
  BY <1>4 DEF Signal, Command, Parse, links, inputs
<1> QED
  BY <1>1, <1>2, <1>3, <1>4

LEMMA DataNext ==
  ASSUME DataType, [Next]_vars
  PROVE  DataType'
<1>1. ASSUME NEW t \in Handlers \cup {Main}, Send(t) PROVE DataType'
  BY <1>1, SendData
<1>2. CASE \/ Start \/ Input \/ Session \/ Stop \/ Destroy \/ Signal
           \/ \E h \in Handlers : Command(h) \/ Parse(h)
  BY <1>2, QuietSteps, NothingTold
<1>3. CASE UNCHANGED vars
  BY <1>3, NothingTold DEF vars, links
<1> QED
  BY <1>1, <1>2, <1>3, CallbackData, LockData, IoData DEF Next, MainThread, HandlerThread

-----------------------------------------------------------------------------
(***************************************************************************)
(* How a run ends: the session stops itself only after it has told why,    *)
(* and whoever leaves the loop has seen that, a signal, an error of its    *)
(* own or the end of a terminal's input.                                   *)
(***************************************************************************)
Ended == Told(Ends) # {}
OwnEnd == exit_code = 0 /\ ~run.file /\ ~run.interactive /\ ~stop_requested

RunningPoints == {"starting", "read_file", "loop", "reading", "send", "sending", "emit", "drain"}
OverPoints ==
    {"finish", "unguard", "stop", "destroy", "close", "join", "reset", "free",
     "free_transport", "leave", "stop_server", "end"}

EndInv ==
    /\ pc[Io] = "end" => Ended
    /\ stopped /\ pc[Main] \in RunningPoints => Ended
    /\ OwnEnd /\ pc[Main] \in OverPoints => Ended

LEMMA PhaseFacts ==
  /\ "starting" \in RunningPoints /\ "read_file" \in RunningPoints /\ "loop" \in RunningPoints
  /\ "reading" \in RunningPoints /\ "send" \in RunningPoints /\ "sending" \in RunningPoints
  /\ "emit" \in RunningPoints /\ "drain" \in RunningPoints
  /\ "finish" \in OverPoints /\ "unguard" \in OverPoints /\ "stop" \in OverPoints
  /\ "destroy" \in OverPoints /\ "close" \in OverPoints /\ "join" \in OverPoints
  /\ "reset" \in OverPoints /\ "free" \in OverPoints /\ "free_transport" \in OverPoints
  /\ LeavePoints \subseteq OverPoints
  BY DEF RunningPoints, OverPoints, LeavePoints

LEMMA PhasesDiffer ==
  /\ \A p \in RunningPoints : p \notin OverPoints
  /\ "start" \notin OverPoints /\ "start" \notin RunningPoints
  /\ "install" \notin OverPoints /\ "install" \notin RunningPoints
  BY DEF RunningPoints, OverPoints

LEMMA PhasePoints == RunningPoints \subseteq Points /\ OverPoints \subseteq Points
  BY DEF RunningPoints, OverPoints, EarlyPoints, RunPoints, LeavePoints, Points

\* What has been told stays told.
LEMMA SameTold ==
  ASSUME Ended, UNCHANGED <<events, run>>
  PROVE  Ended'
  BY DEF Ended, Told, Ends, TcpClientEnds, SerialEnds, UdpEnds, ServerEnds

LEMMA MoreTold ==
  ASSUME DataType, Ended, run' = run, NEW t \in Threads, Emit(t)
  PROVE  Ended'
<1>1. PICK i \in DOMAIN events : events[i].kind \in Ends
  BY DEF Ended, Told
<1>2. i \in DOMAIN events' /\ events'[i] = events[i]
  BY EmitAppends
<1>3. Ends' = Ends
  BY DEF Ends, TcpClientEnds, SerialEnds, UdpEnds, ServerEnds
<1> QED
  BY <1>1, <1>2, <1>3 DEF Ended, Told

LEMMA TellingTheEnd ==
  ASSUME DataType, run' = run, NEW t \in Threads, Emit(t), job[t].kind \in Ends
  PROVE  Ended'
<1>1. Len(events) + 1 \in DOMAIN events' /\ events'[Len(events) + 1] = Notice(t)
  BY EmitAppends
<1>2. Ends' = Ends
  BY DEF Ends, TcpClientEnds, SerialEnds, UdpEnds, ServerEnds
<1> QED
  BY <1>1, <1>2, NoticeOf DEF Ended, Told

LEMMA EndInit == Init => EndInv
<1> SUFFICES ASSUME Init
             PROVE  EndInv
  OBVIOUS
<1>1. pc = [t \in Threads |-> IF t = Main THEN "install" ELSE "idle"]
  BY DEF Init
<1>2. pc[Main] = "install" /\ pc[Io] = "idle"
  BY <1>1, ThreadFacts
<1> QED
  BY <1>2, PhasesDiffer DEF EndInv

\* The main thread moves: what must be shown of the point it comes to.
LEMMA MainEnds ==
  ASSUME LifeInv, EndInv, NEW p \in Points, Goto(Main, p), Ended => Ended',
         stopped' /\ p \in RunningPoints => Ended',
         OwnEnd' /\ p \in OverPoints => Ended'
  PROVE  EndInv'
<1>1. pc'[Main] = p /\ pc'[Io] = pc[Io]
  BY ThreadFacts, Moves DEF LifeInv
<1> QED
  BY <1>1 DEF EndInv

\* It stays in the loop.
LEMMA MainRunsOn ==
  ASSUME LifeInv, EndInv, pc[Main] \in RunningPoints, NEW p \in RunningPoints, Goto(Main, p),
         Ended => Ended', stopped' = stopped
  PROVE  EndInv'
  BY PhasePoints, PhasesDiffer, MainEnds DEF EndInv

\* It is on its way out and goes on.
LEMMA MainLeaves ==
  ASSUME LifeInv, EndInv, pc[Main] \in OverPoints, NEW p \in OverPoints, Goto(Main, p),
         UNCHANGED <<events, inputs, exit_code>>
  PROVE  EndInv'
<1>1. OwnEnd' => OwnEnd
  BY DEF OwnEnd, inputs
<1>2. Ended => Ended'
  BY SameTold DEF inputs
<1> QED
  BY <1>1, <1>2, PhasePoints, PhasesDiffer, MainEnds DEF EndInv

\* It leaves with a reason of its own.
LEMMA MainExcused ==
  ASSUME LifeInv, EndInv, NEW p \in OverPoints, Goto(Main, p), Ended => Ended', ~OwnEnd'
  PROVE  EndInv'
  BY PhasePoints, PhasesDiffer, MainEnds

\* Another thread moves, or none.
LEMMA OtherEnds ==
  ASSUME EndInv, pc'[Main] = pc[Main], pc'[Io] = pc[Io], Ended => Ended', OwnEnd' => OwnEnd,
         stopped' = stopped
  PROVE  EndInv'
  BY DEF EndInv

LEMMA StartEnds ==
  ASSUME LifeInv, EndInv, Start
  PROVE  EndInv'
<1>0. Ended => Ended'
  BY SameTold, QuietSteps
<1>1. CASE Install
  BY <1>0, <1>1, EarlyFacts, RunPointFacts, PointFacts, PhasesDiffer, MainEnds DEF Install
<1>2. CASE PortIsMissing \/ OpenFails
  <2>1. Goto(Main, "destroy") /\ exit_code' = 2
    BY <1>2 DEF PortIsMissing, OpenFails, Throw
  <2>2. ~OwnEnd'
    BY <2>1 DEF OwnEnd
  <2> QED
    BY <1>0, <2>1, <2>2, PhaseFacts, MainExcused
<1>3. CASE Open
  <2>1. Goto(Main, "starting") /\ stopped' = FALSE
    BY <1>3 DEF Open
  <2> QED
    BY <1>0, <2>1, PhaseFacts, PhasePoints, PhasesDiffer, MainEnds
<1>4. CASE Opened
  <2>1. /\ pc[Main] = "starting" /\ stopped' = stopped
        /\ Goto(Main, "read_file") \/ Goto(Main, "loop")
    BY <1>4 DEF Opened, objects
  <2> QED
    BY <1>0, <2>1, PhaseFacts, MainRunsOn
<1> QED
  BY <1>1, <1>2, <1>3, <1>4 DEF Start

LEMMA SessionEnds ==
  ASSUME LifeInv, EndInv, Input \/ Session
  PROVE  EndInv'
<1>0. Ended => Ended'
  BY SameTold, QuietSteps
<1>1. ASSUME exit_code' = 2, Goto(Main, "unguard") PROVE EndInv'
  <2>1. ~OwnEnd'
    BY <1>1 DEF OwnEnd
  <2> QED
    BY <1>0, <1>1, <2>1, PhaseFacts, MainExcused
<1>2. CASE Input
  <2>1. /\ pc[Main] = "reading"
        /\ \/ stopped' = stopped /\ (Goto(Main, "send") \/ Goto(Main, "drain"))
           \/ exit_code' = 2 /\ Goto(Main, "unguard")
    BY <1>2 DEF Input, ReadLine, EndOfInput, Throw, objects
  <2> QED
    BY <1>0, <1>1, <2>1, PhaseFacts, MainRunsOn
<1>3. CASE ReadFile \/ Loop
  <2>1. /\ pc[Main] \in {"read_file", "loop"}
        /\ \/ /\ stopped' = stopped
              /\ Goto(Main, "send") \/ Goto(Main, "drain") \/ Goto(Main, "reading")
           \/ exit_code' = 2 /\ Goto(Main, "unguard")
    BY <1>3 DEF ReadFile, Loop, Throw, objects
  <2> QED
    BY <1>0, <1>1, <2>1, PhaseFacts, MainRunsOn
<1>4. CASE Drain
  <2>1. /\ pc[Main] = "drain" /\ Goto(Main, "finish")
        /\ run.interactive \/ stop_requested \/ stopped
        /\ UNCHANGED <<inputs, exit_code>>
    BY <1>4 DEF Drain, Over
  <2>2. OwnEnd' => Ended'
    BY <1>0, <2>1, PhaseFacts DEF EndInv, OwnEnd, inputs
  <2> QED
    BY <1>0, <2>1, <2>2, PhaseFacts, PhasePoints, PhasesDiffer, MainEnds
<1>5. CASE Finish \/ Unguard
  <2>1. /\ pc[Main] \in {"finish", "unguard"}
        /\ Goto(Main, "unguard") \/ Goto(Main, "stop") \/ Goto(Main, "destroy")
        /\ UNCHANGED <<events, inputs, exit_code>>
    BY <1>5 DEF Finish, Unguard
  <2> QED
    BY <2>1, PhaseFacts, MainLeaves
<1> QED
  BY <1>2, <1>3, <1>4, <1>5 DEF Session

LEMMA StopEnds ==
  ASSUME LifeInv, EndInv, Stop \/ Destroy
  PROVE  EndInv'
<1>0. pc[Main] \in {"stop", "destroy", "close", "join", "reset", "free", "free_transport",
                    "leave", "stop_server"}
  BY DEF Stop, StopCalled, CloseTransport, Joined, ResetTransport,
     Destroy, FreeState, FreeSession, AtTransport, FreePipeline, StopServer
<1>1. pc[Main] \in OverPoints
  BY <1>0, PhaseFacts, PointFacts
<1>2. \/ Goto(Main, "close") \/ Goto(Main, "free") \/ Goto(Main, "unguard") \/ Goto(Main, "join")
      \/ Goto(Main, "reset") \/ Goto(Main, "leave") \/ Goto(Main, "stop_server")
      \/ Goto(Main, "end") \/ Goto(Main, "free_transport")
  BY DEF Stop, StopCalled, CloseTransport, Joined, ResetTransport, Left,
     Destroy, FreeState, FreeSession, FreePipeline, StopServer
<1>3. UNCHANGED <<events, inputs, exit_code>>
  BY DEF Stop, StopCalled, CloseTransport, Joined, ResetTransport,
     Destroy, FreeState, FreeSession, FreePipeline, StopServer
<1> QED
  BY <1>1, <1>2, <1>3, PhaseFacts, PointFacts, MainLeaves

\* A step of send() keeps what was told; only a file's end leaves the loop.
LEMMA SendTells ==
  ASSUME DataType, NEW t \in Handlers \cup {Main}, Send(t)
  PROVE  /\ run' = run /\ stop_requested' = stop_requested /\ stopped' = stopped
         /\ (Ended => Ended')
         /\ t # Main => exit_code' = exit_code
         /\ t = Main => \/ Goto(t, "sending") \/ Goto(t, "emit") \/ Goto(t, "loop")
                        \/ run.file /\ (Goto(t, "stop") \/ Goto(t, "unguard"))
<1>1. run' = run /\ stop_requested' = stop_requested /\ stopped' = stopped
  BY DEF Send, NotReady, ChoosePeer, Accepts, Refuses, EmitSent, inputs, objects
<1>2. events' = events \/ Emit(t)
  BY DEF Send, NotReady, ChoosePeer, Accepts, Refuses, EmitSent
<1>3. Ended => Ended'
  BY <1>1, <1>2, ThreadFacts, SameTold, MoreTold
<1>4. \/ (Goto(t, "sending") \/ Goto(t, "emit")) /\ exit_code' = exit_code
      \/ Returns(t, FALSE) \/ Returns(t, TRUE)
  BY DEF Send, NotReady, ChoosePeer, Accepts, Refuses, EmitSent
<1>5. t # Main => exit_code' = exit_code
  BY <1>4 DEF Returns
<1>6. t = Main => \/ Goto(t, "sending") \/ Goto(t, "emit") \/ Goto(t, "loop")
                  \/ run.file /\ (Goto(t, "stop") \/ Goto(t, "unguard"))
  BY <1>4 DEF Returns, Throw
<1> QED
  BY <1>1, <1>3, <1>5, <1>6

LEMMA SendEnds ==
  ASSUME LifeInv, DataType, EndInv, NEW t \in Handlers \cup {Main}, Send(t)
  PROVE  EndInv'
<1>0. /\ stopped' = stopped /\ (Ended => Ended')
      /\ pc[t] \in RunningPoints
  BY SendTells, SendMoves, PhaseFacts
<1>1. CASE t = Main
  <2>1. CASE Goto(Main, "sending") \/ Goto(Main, "emit") \/ Goto(Main, "loop")
    BY <1>0, <1>1, <2>1, PhaseFacts, MainRunsOn
  <2>2. CASE run.file /\ (Goto(Main, "stop") \/ Goto(Main, "unguard"))
    <3>1. ~OwnEnd'
      BY <2>2, SendTells DEF OwnEnd
    <3> QED
      BY <1>0, <2>2, <3>1, PhaseFacts, MainExcused
  <2> QED
    BY <1>1, <2>1, <2>2, SendTells
<1>2. CASE t # Main
  <2>1. /\ run' = run /\ stop_requested' = stop_requested /\ exit_code' = exit_code
    BY <1>2, SendTells
  <2>2. OwnEnd' => OwnEnd
    BY <2>1 DEF OwnEnd
  <2>3. \/ Goto(t, "sending") \/ Goto(t, "emit") \/ Goto(t, "idle")
        \/ Goto(t, "loop") \/ Goto(t, "stop") \/ Goto(t, "unguard")
    BY SendMoves
  <2>4. t \in Threads /\ t # Io
    BY <1>2, ThreadFacts
  <2>5. pc'[Main] = pc[Main] /\ pc'[Io] = pc[Io]
    BY <1>2, <2>3, <2>4, ThreadFacts, EarlyFacts, RunPointFacts, PointFacts, Moves DEF LifeInv
  <2> QED
    BY <1>0, <2>2, <2>5, OtherEnds
<1> QED
  BY <1>1, <1>2

\* The transport's thread comes to a point other than the end of its session.
LEMMA IoPasses ==
  ASSUME LifeInv, EndInv, UNCHANGED <<run, events, stop_requested, stopped, exit_code>>,
         Goto(Io, "emit") \/ Goto(Io, "locking") \/ Goto(Io, "idle")
  PROVE  EndInv'
<1>1. pc'[Main] = pc[Main] /\ pc'[Io] # "end"
  BY ThreadFacts, RunPointFacts, PointFacts, Moves DEF LifeInv
<1>2. Ended => Ended'
  BY SameTold
<1>3. OwnEnd' => OwnEnd
  BY DEF OwnEnd
<1> QED
  BY <1>1, <1>2, <1>3 DEF EndInv

LEMMA CallbackEnds ==
  ASSUME LifeInv, EndInv, Callback \/ LockState
  PROVE  EndInv'
<1>1. UNCHANGED <<run, events, stop_requested, stopped, exit_code>>
  BY DEF Callback, LockState, objects, inputs
<1>2. CASE Callback
  BY <1>1, <1>2, CallbackTells, IoPasses DEF Tells, Calls
<1>3. CASE LockState
  <2>1. Goto(Io, "emit") \/ Goto(Io, "idle")
    BY <1>3 DEF LockState, TakeClient, CompareClient, LetClientGo, Drops
  <2> QED
    BY <1>1, <2>1, IoPasses
<1> QED
  BY <1>2, <1>3

LEMMA IoEnds ==
  ASSUME LifeInv, DataType, EndInv, IoThread
  PROVE  EndInv'
<1>0. UNCHANGED <<run, stop_requested, exit_code>>
  BY DEF IoThread, EmitNotice, EndSession, inputs
<1>1. OwnEnd' => OwnEnd
  BY <1>0 DEF OwnEnd
<1>2. CASE EndSession
  <2>1. pc[Io] = "end" /\ events' = events
    BY <1>2 DEF EndSession
  <2>2. Ended'
    BY <1>0, <2>1, SameTold DEF EndInv
  <2> QED
    BY <2>2 DEF EndInv
<1>3. CASE EmitNotice
  <2>1. Emit(Io) /\ stopped' = stopped /\ Goto(Io, IF job[Io].kind \in Ends THEN "end" ELSE "idle")
    BY <1>3 DEF EmitNotice, objects
  <2>2. CASE job[Io].kind \in Ends
    <3>1. Ended'
      BY <1>0, <2>1, <2>2, ThreadFacts, TellingTheEnd
    <3> QED
      BY <3>1 DEF EndInv
  <2>3. CASE job[Io].kind \notin Ends
    <3>1. Goto(Io, "idle")
      BY <2>1, <2>3
    <3>2. pc'[Main] = pc[Main] /\ pc'[Io] = "idle"
      BY <3>1, ThreadFacts, PointFacts, Moves DEF LifeInv
    <3>3. Ended => Ended'
      BY <1>0, <2>1, ThreadFacts, MoreTold
    <3> QED
      BY <1>1, <2>1, <3>2, <3>3 DEF EndInv
  <2> QED
    BY <2>2, <2>3
<1> QED
  BY <1>2, <1>3 DEF IoThread

LEMMA OthersEnd ==
  ASSUME LifeInv, EndInv,
         Signal \/ (\E h \in Handlers : Command(h) \/ Parse(h)) \/ UNCHANGED vars
  PROVE  EndInv'
<1>1. UNCHANGED <<run, events, stopped, exit_code>> /\ (stop_requested => stop_requested')
  BY DEF Signal, Command, Parse, vars, objects, inputs
<1>2. (Ended => Ended') /\ (OwnEnd' => OwnEnd)
  BY <1>1, SameTold DEF OwnEnd
<1>3. ASSUME NEW h \in Handlers, Command(h) \/ Parse(h)
      PROVE  pc'[Main] = pc[Main] /\ pc'[Io] = pc[Io]
  <2>1. pc' = pc \/ Goto(h, "called") \/ Goto(h, "send") \/ Goto(h, "idle")
    BY <1>3 DEF Command, Parse
  <2> QED
    BY <2>1, ThreadFacts, RunPointFacts, PointFacts, Moves DEF LifeInv
<1>4. CASE Signal \/ UNCHANGED vars
  BY <1>1, <1>2, <1>4, OtherEnds DEF Signal, vars
<1> QED
  BY <1>1, <1>2, <1>3, <1>4, OtherEnds

LEMMA EndNext ==
  ASSUME LifeInv, DataType, EndInv, [Next]_vars
  PROVE  EndInv'
<1>1. ASSUME NEW t \in Handlers \cup {Main}, Send(t) PROVE EndInv'
  BY <1>1, SendEnds
<1> QED
  BY <1>1, StartEnds, SessionEnds, StopEnds, CallbackEnds, IoEnds, OthersEnd
     DEF Next, MainThread, HandlerThread

\* A direct run without a file and without a terminal, which no signal and no
\* error of its own has ended, has told what ended it, in all four modes and
\* however the callbacks and the sends of viewers fall between its steps.
THEOREM RunsReportTheirEnd == Spec => []RunReportsItsEnd
<1>1. Spec => []DataType
  BY DataInit, DataNext, PTL DEF Spec
<1>2. Spec => []EndInv
  BY <1>1, Lifetimes, EndInit, EndNext, PTL DEF Spec
<1>3. EndInv => RunReportsItsEnd
  BY PhaseFacts, PointFacts DEF EndInv, OwnEnd, Ended, RunReportsItsEnd
<1> QED
  BY <1>2, <1>3, PTL

-----------------------------------------------------------------------------
(***************************************************************************)
(* The active client of a TCP server: between the moment a callback        *)
(* changes it and the moment that is told, the transport's thread is busy, *)
(* so that whoever reads the log knows the client the bytes came from.     *)
(***************************************************************************)
LinkKinds == {"connected", "disconnected", "error"}

\* The last that was told of connections is that p has come.
Shown(p) ==
    \E j \in Told({"connected"}) :
        events[j].peer = p /\ \A k \in Told(LinkKinds) : k <= j

Attributed ==
    \A i \in Told({"rx"}) :
        \E j \in Told({"connected"}) :
            /\ j < i /\ events[j].peer = events[i].peer
            /\ \A k \in Told(LinkKinds) : ~(j < k /\ k < i)

Telling(kinds) == pc[Io] = "emit" /\ job[Io].kind \in kinds

ServerInv ==
    /\ pc[Io] = "locking" => job[Io].peer # NoPeer
    /\ \A t \in Threads \ {Io} : pc[t] \in {"sending", "emit"} => job[t].kind = "tx"
    /\ Telling({"connected"}) => active_client = job[Io].peer
    /\ Telling({"rx"}) => active_client = job[Io].peer /\ active_client # NoPeer
    /\ Telling({"disconnected", "error"}) => active_client = NoPeer
    /\ active_client # NoPeer => Shown(active_client) \/ Telling({"connected"})
    /\ Attributed

SourceInv == run.mode = Server => ServerInv

LEMMA ToldAfter ==
  ASSUME DataType, NEW t \in Threads, Emit(t), NEW kinds
  PROVE  /\ Told(kinds) \subseteq 1 .. Len(events) /\ Len(events) \in Nat
         /\ \A i \in 1 .. Len(events) : (i \in Told(kinds)' <=> i \in Told(kinds))
         /\ \A i \in Told(kinds)' : i \in Told(kinds) \/ i = Len(events) + 1
         /\ (Len(events) + 1 \in Told(kinds)' <=> job[t].kind \in kinds)
  BY EmitAppends, NoticeOf DEF Told

LEMMA ShownStays ==
  ASSUME DataType, NEW t \in Threads, Emit(t), job[t].kind \notin LinkKinds, NEW p, Shown(p)
  PROVE  Shown(p)'
<1>1. PICK j \in Told({"connected"}) :
        events[j].peer = p /\ \A k \in Told(LinkKinds) : k <= j
  BY DEF Shown
<1>2. j \in Told({"connected"})' /\ events'[j] = events[j]
  BY ToldAfter, EmitAppends
<1>3. \A k \in Told(LinkKinds)' : k \in Told(LinkKinds)
  BY ToldAfter
<1> QED
  BY <1>1, <1>2, <1>3 DEF Shown

LEMMA ShownNow ==
  ASSUME DataType, NEW t \in Threads, Emit(t), job[t].kind = "connected",
         NEW p, p = job[t].peer
  PROVE  Shown(p)'
<1>1. Len(events) + 1 \in Told({"connected"})'
  BY ToldAfter
<1>2. events'[Len(events) + 1].peer = p
  BY EmitAppends, NoticeOf
<1>3. \A k \in Told(LinkKinds)' : k <= Len(events) + 1
  BY ToldAfter
<1> QED
  BY <1>1, <1>2, <1>3 DEF Shown

LEMMA BytesStay ==
  ASSUME DataType, Attributed, NEW t \in Threads, Emit(t),
         job[t].kind = "rx" => Shown(job[t].peer)
  PROVE  Attributed'
<1> SUFFICES ASSUME NEW i \in Told({"rx"})'
             PROVE  \E j \in Told({"connected"})' :
                      /\ j < i /\ events'[j].peer = events'[i].peer
                      /\ \A k \in Told(LinkKinds)' : ~(j < k /\ k < i)
  BY DEF Attributed
<1>1. CASE i \in Told({"rx"})
  <2>1. PICK j \in Told({"connected"}) :
          /\ j < i /\ events[j].peer = events[i].peer
          /\ \A k \in Told(LinkKinds) : ~(j < k /\ k < i)
    BY <1>1 DEF Attributed
  <2>2. j \in Told({"connected"})' /\ events'[j] = events[j] /\ events'[i] = events[i]
    BY <1>1, ToldAfter, EmitAppends
  <2>3. i \in 1 .. Len(events) /\ Len(events) \in Nat
    BY <1>1, ToldAfter
  <2>4. \A k \in Told(LinkKinds)' : ~(j < k /\ k < i)
    <3> TAKE k \in Told(LinkKinds)'
    <3>1. CASE k \in Told(LinkKinds)
      BY <2>1, <3>1
    <3>2. CASE k = Len(events) + 1
      BY <2>3, <3>2
    <3> QED
      BY <3>1, <3>2, ToldAfter
  <2>5. events'[j].peer = events'[i].peer
    BY <2>1, <2>2
  <2> QED
    BY <2>1, <2>2, <2>4, <2>5
<1>2. CASE i = Len(events) + 1
  <2>1. job[t].kind = "rx"
    BY <1>2, ToldAfter
  <2>2. PICK j \in Told({"connected"}) :
          events[j].peer = job[t].peer /\ \A k \in Told(LinkKinds) : k <= j
    BY <2>1 DEF Shown
  <2>3. events'[i].peer = job[t].peer
    BY <1>2, EmitAppends, NoticeOf
  <2>4. j \in Told({"connected"})' /\ events'[j] = events[j] /\ j \in 1 .. Len(events)
    BY ToldAfter, EmitAppends
  <2>5. \A k \in Told(LinkKinds)' : k \in Told(LinkKinds) \/ k = i
    BY <1>2, ToldAfter
  <2>6. \A k \in Told(LinkKinds) : k \in 1 .. Len(events)
    BY ToldAfter
  <2>7. Len(events) \in Nat /\ j < i
    BY <1>2, <2>4, ToldAfter
  <2> QED
    BY <1>2, <2>2, <2>3, <2>4, <2>5, <2>6, <2>7
<1> QED
  BY <1>1, <1>2, ToldAfter

LEMMA SourceInit == Init => SourceInv
<1> SUFFICES ASSUME Init
             PROVE  ServerInv
  BY DEF SourceInv
<1>1. pc = [t \in Threads |-> IF t = Main THEN "install" ELSE "idle"]
  BY DEF Init
<1>2. \A t \in Threads : pc[t] \notin {"sending", "emit", "locking"}
  BY <1>1
<1>3. active_client = NoPeer /\ events = <<>>
  BY DEF Init
<1> QED
  BY <1>2, <1>3, ThreadFacts DEF ServerInv, Attributed, Told, Telling

\* Nothing is told and no thread comes to a point at which it would tell.
LEMMA SourceKept ==
  ASSUME ServerInv, UNCHANGED <<events, job, active_client>>, pc'[Io] = pc[Io],
         \A t \in Threads \ {Io} : pc'[t] \in {"sending", "emit"} => pc[t] \in {"sending", "emit"}
  PROVE  ServerInv'
<1>1. \A kinds : Telling(kinds)' <=> Telling(kinds)
  BY DEF Telling
<1>2. \A kinds : Told(kinds)' = Told(kinds)
  BY DEF Told
<1>3. \A p : Shown(p)' <=> Shown(p)
  BY <1>2 DEF Shown
<1>4. Attributed' <=> Attributed
  BY <1>2 DEF Attributed
<1> QED
  BY <1>1, <1>3, <1>4 DEF ServerInv

CalmPoints == Points \ {"sending", "emit"}

LEMMA CalmFacts ==
  /\ "start" \in CalmPoints /\ "starting" \in CalmPoints /\ "read_file" \in CalmPoints
  /\ "loop" \in CalmPoints /\ "reading" \in CalmPoints /\ "send" \in CalmPoints
  /\ "drain" \in CalmPoints /\ "finish" \in CalmPoints /\ "unguard" \in CalmPoints
  /\ "stop" \in CalmPoints /\ "destroy" \in CalmPoints /\ "close" \in CalmPoints
  /\ "join" \in CalmPoints /\ "reset" \in CalmPoints /\ "free" \in CalmPoints
  /\ "leave" \in CalmPoints /\ "stop_server" \in CalmPoints /\ "end" \in CalmPoints
  /\ "idle" \in CalmPoints /\ "called" \in CalmPoints /\ "free_transport" \in CalmPoints
  BY DEF CalmPoints, Points, EarlyPoints, RunPoints, LeavePoints

LEMMA CalmMove ==
  ASSUME LifeInv, ServerInv, UNCHANGED <<events, job, active_client>>,
         NEW t \in Threads \ {Io}, NEW p \in CalmPoints, Goto(t, p)
  PROVE  ServerInv'
<1>1. p \in Points /\ p \notin {"sending", "emit"}
  BY DEF CalmPoints
<1>2. pc'[t] = p /\ \A u \in Threads \ {t} : pc'[u] = pc[u]
  BY <1>1, Moves DEF LifeInv
<1> QED
  BY <1>1, <1>2, ThreadFacts, SourceKept

LEMMA MainCalm ==
  ASSUME Start \/ Input \/ Session \/ Stop \/ Destroy
  PROVE  \E p \in CalmPoints : Goto(Main, p)
<1>1. CASE Start
  <2>1. \/ Goto(Main, "start") \/ Goto(Main, "destroy") \/ Goto(Main, "starting")
        \/ Goto(Main, "read_file") \/ Goto(Main, "loop")
    BY <1>1 DEF Start, Install, PortIsMissing, Open, Opened, OpenFails, Throw
  <2> QED
    BY <2>1, CalmFacts
<1>2. CASE Input \/ Session
  <2>1. \/ Goto(Main, "send") \/ Goto(Main, "unguard") \/ Goto(Main, "drain")
        \/ Goto(Main, "reading") \/ Goto(Main, "finish") \/ Goto(Main, "stop")
        \/ Goto(Main, "destroy")
    BY <1>2 DEF Input, ReadLine, EndOfInput, Session, ReadFile, Loop, Drain, Finish, Unguard, Throw
  <2> QED
    BY <2>1, CalmFacts
<1>3. CASE Stop \/ Destroy
  <2>1. \/ Goto(Main, "close") \/ Goto(Main, "free") \/ Goto(Main, "unguard")
        \/ Goto(Main, "join") \/ Goto(Main, "reset") \/ Goto(Main, "leave")
        \/ Goto(Main, "stop_server") \/ Goto(Main, "end") \/ Goto(Main, "free_transport")
    BY <1>3 DEF Stop, StopCalled, CloseTransport, Joined, ResetTransport, Left,
       Destroy, FreeState, FreeSession, FreePipeline, StopServer
  <2> QED
    BY <2>1, CalmFacts
<1> QED
  BY <1>1, <1>2, <1>3

LEMMA QuietSource ==
  ASSUME LifeInv, ServerInv,
         \/ Start \/ Input \/ Session \/ Stop \/ Destroy \/ Signal \/ UNCHANGED vars
         \/ \E h \in Handlers : Command(h) \/ Parse(h)
  PROVE  ServerInv'
<1>1. UNCHANGED <<events, job, active_client>>
  BY QuietSteps DEF vars, links
<1>2. CASE Start \/ Input \/ Session \/ Stop \/ Destroy
  <2>1. PICK p \in CalmPoints : Goto(Main, p)
    BY <1>2, MainCalm
  <2> QED
    BY <1>1, <2>1, ThreadFacts, CalmMove
<1>3. CASE Signal \/ UNCHANGED vars
  BY <1>1, <1>3, SourceKept DEF Signal, vars
<1>4. ASSUME NEW h \in Handlers, Command(h) \/ Parse(h) PROVE ServerInv'
  <2>1. pc' = pc \/ Goto(h, "called") \/ Goto(h, "send") \/ Goto(h, "idle")
    BY <1>4 DEF Command, Parse
  <2> QED
    BY <1>1, <2>1, ThreadFacts, CalmFacts, CalmMove, SourceKept
<1> QED
  BY <1>2, <1>3, <1>4

\* A thread that sends moves, and tells at most what it has sent.
LEMMA SenderStep ==
  ASSUME DataType, ServerInv, NEW t \in Threads \ {Io}, active_client' = active_client,
         \A u \in Threads \ {t} : pc'[u] = pc[u] /\ job'[u] = job[u],
         pc'[t] \in {"sending", "emit"} => job'[t].kind = "tx",
         events' = events \/ (Emit(t) /\ job[t].kind = "tx")
  PROVE  ServerInv'
<1>1. \A kinds : Telling(kinds)' <=> Telling(kinds)
  BY ThreadFacts DEF Telling
<1>2. \A p : Shown(p) => Shown(p)'
  <2>1. CASE events' = events
    BY <2>1 DEF Shown, Told
  <2>2. CASE Emit(t) /\ job[t].kind = "tx"
    <3>1. job[t].kind \notin LinkKinds
      BY <2>2 DEF LinkKinds
    <3> QED
      BY <2>2, <3>1, ShownStays
  <2> QED
    BY <2>1, <2>2
<1>3. Attributed'
  <2>1. CASE events' = events
    BY <2>1 DEF ServerInv, Attributed, Told
  <2>2. CASE Emit(t) /\ job[t].kind = "tx"
    BY <2>2, BytesStay DEF ServerInv
  <2> QED
    BY <2>1, <2>2
<1>4. job'[Io] = job[Io] /\ pc'[Io] = pc[Io]
  BY ThreadFacts
<1>5. \A u \in Threads \ {Io} : pc'[u] \in {"sending", "emit"} => job'[u].kind = "tx"
  BY DEF ServerInv
<1> QED
  BY <1>1, <1>2, <1>3, <1>4, <1>5 DEF ServerInv

LEMMA ReturnsCalm ==
  ASSUME NEW t \in Threads, NEW a \in BOOLEAN, Returns(t, a)
  PROVE  \E p \in CalmPoints : Goto(t, p)
<1>1. Goto(t, "idle") \/ Goto(t, "loop") \/ Goto(t, "stop") \/ Goto(t, "unguard")
  BY DEF Returns, Throw
<1> QED
  BY <1>1, CalmFacts

LEMMA SendSource ==
  ASSUME LifeInv, DataType, ServerInv, NEW t \in Handlers \cup {Main}, Send(t)
  PROVE  ServerInv'
<1>0. t \in Threads \ {Io}
  BY ThreadFacts
<1>1. active_client' = active_client
  BY DEF Send, NotReady, ChoosePeer, Accepts, Refuses, EmitSent, links
<1>2. ASSUME NEW p \in Points, Goto(t, p)
      PROVE  pc'[t] = p /\ \A u \in Threads \ {t} : pc'[u] = pc[u]
  BY <1>0, <1>2, Moves DEF LifeInv
<1>3. ASSUME Returns(t, FALSE) \/ Returns(t, TRUE)
      PROVE  pc'[t] \notin {"sending", "emit"} /\ \A u \in Threads \ {t} : pc'[u] = pc[u]
  <2>1. PICK p \in CalmPoints : Goto(t, p)
    BY <1>0, <1>3, ReturnsCalm
  <2>2. p \in Points /\ p \notin {"sending", "emit"}
    BY DEF CalmPoints
  <2> QED
    BY <1>2, <2>1, <2>2
<1>4. CASE NotReady(t)
  <2>1. Returns(t, FALSE) /\ events' = events /\ job' = job
    BY <1>4 DEF NotReady
  <2> QED
    BY <1>0, <1>1, <1>3, <2>1, SenderStep
<1>5. CASE ChoosePeer(t)
  <2>1. Goto(t, "sending") /\ events' = events
    BY <1>5 DEF ChoosePeer
  <2>2. job'[t].kind = "tx" /\ \A u \in Threads \ {t} : job'[u] = job[u]
    BY <1>0, <1>5 DEF ChoosePeer, DataType
  <2>3. \A u \in Threads \ {t} : pc'[u] = pc[u]
    BY <1>2, <2>1, RunPointFacts, PointFacts
  <2> QED
    BY <1>0, <1>1, <2>1, <2>2, <2>3, SenderStep
<1>6. CASE Accepts(t)
  <2>1. Goto(t, "emit") /\ events' = events /\ job' = job /\ pc[t] = "sending"
    BY <1>6 DEF Accepts, CanSend
  <2>2. \A u \in Threads \ {t} : pc'[u] = pc[u]
    BY <1>2, <2>1, RunPointFacts, PointFacts
  <2>3. job'[t].kind = "tx"
    BY <1>0, <2>1 DEF ServerInv
  <2> QED
    BY <1>0, <1>1, <2>1, <2>2, <2>3, SenderStep
<1>7. CASE Refuses(t)
  <2>1. Returns(t, FALSE) /\ events' = events /\ job' = [job EXCEPT ![t] = Idle]
    BY <1>7 DEF Refuses
  <2>2. \A u \in Threads \ {t} : job'[u] = job[u]
    BY <2>1 DEF DataType
  <2> QED
    BY <1>0, <1>1, <1>3, <2>1, <2>2, SenderStep
<1>8. CASE EmitSent(t)
  <2>1. Returns(t, TRUE) /\ Emit(t) /\ job' = [job EXCEPT ![t] = Idle] /\ pc[t] = "emit"
    BY <1>8 DEF EmitSent
  <2>2. \A u \in Threads \ {t} : job'[u] = job[u]
    BY <2>1 DEF DataType
  <2>3. job[t].kind = "tx"
    BY <1>0, <2>1 DEF ServerInv
  <2> QED
    BY <1>0, <1>1, <1>3, <2>1, <2>2, <2>3, SenderStep
<1> QED
  BY <1>4, <1>5, <1>6, <1>7, <1>8 DEF Send

\* What the transport's thread may be about to tell, and of whom.
LEMMA TellingStep ==
  ASSUME LifeInv, DataType, ServerInv, pc[Io] \notin {"emit", "end"}, events' = events,
         Goto(Io, "emit"), \A u \in Threads \ {Io} : job'[u] = job[u],
         LET k == job'[Io].kind
             p == job'[Io].peer
         IN  /\ k = "connected" => active_client' = p
             /\ k = "rx" => active_client' = p /\ active_client' # NoPeer
             /\ k \in {"disconnected", "error"} => active_client' = NoPeer
             /\ active_client' # NoPeer => active_client' = active_client \/ k = "connected"
  PROVE  ServerInv'
<1>1. /\ pc'[Io] = "emit"
      /\ \A u \in Threads \ {Io} : pc'[u] = pc[u]
  BY ThreadFacts, RunPointFacts, PointFacts, Moves DEF LifeInv
<1>4. \A kinds : Telling(kinds)' <=> job'[Io].kind \in kinds
  BY <1>1 DEF Telling
<1>5. \A q : Shown(q)' <=> Shown(q)
  BY DEF Shown, Told
<1>6. Attributed'
  BY DEF ServerInv, Attributed, Told
<1>7. active_client # NoPeer => Shown(active_client)
  BY DEF ServerInv, Telling
<1>8. active_client' # NoPeer => Shown(active_client)' \/ Telling({"connected"})'
  <2>1. CASE job'[Io].kind = "connected"
    BY <1>4, <2>1
  <2>2. CASE active_client' = active_client
    BY <1>5, <1>7, <2>2
  <2> QED
    BY <2>1, <2>2
<1>9. \A u \in Threads \ {Io} : pc'[u] \in {"sending", "emit"} => job'[u].kind = "tx"
  BY <1>1 DEF ServerInv
<1> QED
  BY <1>1, <1>4, <1>6, <1>8, <1>9 DEF ServerInv

\* It comes to a point at which it tells nothing.
LEMMA SilentStep ==
  ASSUME LifeInv, DataType, ServerInv, pc[Io] \notin {"emit", "end"}, events' = events,
         active_client' = active_client, NEW p \in {"idle", "locking"}, Goto(Io, p),
         \A u \in Threads \ {Io} : job'[u] = job[u],
         p = "locking" => job'[Io].peer # NoPeer
  PROVE  ServerInv'
<1>1. /\ pc'[Io] = p
      /\ \A u \in Threads \ {Io} : pc'[u] = pc[u]
  BY ThreadFacts, PointFacts, Moves DEF LifeInv
<1>2. \A kinds : ~Telling(kinds) /\ ~Telling(kinds)'
  BY <1>1 DEF Telling
<1>3. \A q : Shown(q)' <=> Shown(q)
  BY DEF Shown, Told
<1>4. Attributed'
  BY DEF ServerInv, Attributed, Told
<1>5. \A u \in Threads \ {Io} : pc'[u] \in {"sending", "emit"} => job'[u].kind = "tx"
  BY <1>1 DEF ServerInv
<1> QED
  BY <1>1, <1>2, <1>3, <1>4, <1>5 DEF ServerInv

LEMMA CallbackSource ==
  ASSUME LifeInv, DataType, ServerInv, run.mode = Server, Callback
  PROVE  ServerInv'
<1>1. pc[Io] = "idle" /\ events' = events /\ active_client' = active_client
  BY CallbackTells
<1>2. PICK k \in Kinds, p \in Clients : Calls(k, p)
  BY CallbackTells
<1>3. p # NoPeer
  BY ClientsAssumption
<1>4. /\ job' = [job EXCEPT ![Io] = [kind |-> k, peer |-> p]]
      /\ Goto(Io, "locking")
  BY <1>2 DEF Calls
<1>5. job'[Io].peer = p /\ \A u \in Threads \ {Io} : job'[u] = job[u]
  BY <1>4, ThreadFacts DEF DataType
<1> QED
  BY <1>1, <1>3, <1>4, <1>5, SilentStep

LEMMA LockSource ==
  ASSUME LifeInv, DataType, ServerInv, LockState
  PROVE  ServerInv'
<1>1. pc[Io] = "locking" /\ events' = events
  BY DEF LockState, TakeClient, CompareClient, LetClientGo, Locks
<1>2. job[Io].peer # NoPeer /\ job[Io] \in Jobs
  BY <1>1, ThreadFacts DEF ServerInv, DataType
<1>3. ASSUME Drops, active_client' = active_client PROVE ServerInv'
  <2>1. Goto(Io, "idle") /\ job' = [job EXCEPT ![Io] = Idle]
    BY <1>3 DEF Drops
  <2>2. \A u \in Threads \ {Io} : job'[u] = job[u]
    BY <2>1 DEF DataType
  <2> QED
    BY <1>1, <1>3, <2>1, <2>2, SilentStep
<1>4. CASE TakeClient
  <2>1. /\ Goto(Io, "emit") /\ job[Io].kind = "connected"
        /\ \/ active_client' = job[Io].peer /\ job' = job
           \/ active_client' = active_client /\ job' = [job EXCEPT ![Io].kind = "ignored"]
    BY <1>4 DEF TakeClient, Locks
  <2>2. CASE active_client' = job[Io].peer /\ job' = job
    BY <1>1, <2>1, <2>2, TellingStep
  <2>3. CASE active_client' = active_client /\ job' = [job EXCEPT ![Io].kind = "ignored"]
    <3>1. job'[Io].kind = "ignored" /\ \A u \in Threads \ {Io} : job'[u] = job[u]
      BY <1>2, <2>3, ThreadFacts DEF DataType, Jobs
    <3> QED
      BY <1>1, <2>1, <2>3, <3>1, TellingStep
  <2> QED
    BY <2>1, <2>2, <2>3
<1>5. CASE CompareClient
  <2>1. CASE Goto(Io, "emit") /\ job' = job /\ IsActive
    BY <1>1, <1>2, <1>5, <2>1, TellingStep DEF CompareClient, Locks, IsActive
  <2> QED
    BY <1>3, <1>5, <2>1 DEF CompareClient
<1>6. CASE LetClientGo
  <2>1. CASE active_client' = NoPeer /\ Goto(Io, "emit") /\ job' = job
    <3>1. job'[Io].kind \in {"disconnected", "error"}
      BY <1>6, <2>1 DEF LetClientGo, Locks
    <3> QED
      BY <1>1, <2>1, <3>1, TellingStep
  <2> QED
    BY <1>3, <1>6, <2>1 DEF LetClientGo
<1> QED
  BY <1>4, <1>5, <1>6 DEF LockState

LEMMA IoSource ==
  ASSUME LifeInv, DataType, ServerInv, IoThread
  PROVE  ServerInv'
<1>1. active_client' = active_client
  BY DEF IoThread, EmitNotice, EndSession, links
<1>2. pc'[Io] \notin {"emit", "locking"} /\ \A u \in Threads \ {Io} : pc'[u] = pc[u]
  <2>1. Goto(Io, "end") \/ Goto(Io, "idle")
    BY DEF IoThread, EmitNotice, EndSession
  <2> QED
    BY <2>1, ThreadFacts, PointFacts, Moves DEF LifeInv
<1>3. \A kinds : ~Telling(kinds)'
  BY <1>2 DEF Telling
<1>4. \A u \in Threads \ {Io} : job'[u] = job[u]
  BY ThreadFacts DEF IoThread, EmitNotice, EndSession, DataType
<1>5. \A u \in Threads \ {Io} : pc'[u] \in {"sending", "emit"} => job'[u].kind = "tx"
  BY <1>2, <1>4 DEF ServerInv
<1>6. CASE EndSession
  <2>1. events' = events /\ pc[Io] = "end"
    BY <1>6 DEF EndSession
  <2>2. active_client # NoPeer => Shown(active_client)
    BY <2>1 DEF ServerInv, Telling
  <2>3. active_client' # NoPeer => Shown(active_client)'
    BY <1>1, <2>1, <2>2 DEF Shown, Told
  <2>4. Attributed'
    BY <2>1 DEF ServerInv, Attributed, Told
  <2> QED
    BY <1>2, <1>3, <1>5, <2>3, <2>4 DEF ServerInv
<1>7. CASE EmitNotice
  <2>1. Emit(Io) /\ pc[Io] = "emit" /\ job[Io].kind \in Kinds
    BY <1>7, ThreadFacts DEF EmitNotice, DataType, Jobs
  <2>2. active_client # NoPeer /\ job[Io].kind # "connected" =>
          Shown(active_client) /\ job[Io].kind \notin LinkKinds
    BY <2>1 DEF ServerInv, Telling, LinkKinds
  <2>3. job[Io].kind = "rx" => Shown(job[Io].peer)
    BY <2>1, <2>2 DEF ServerInv, Telling
  <2>4. Attributed'
    BY <2>1, <2>3, ThreadFacts, BytesStay DEF ServerInv
  <2>5. active_client' # NoPeer => Shown(active_client)'
    <3>1. SUFFICES ASSUME NEW q, q = active_client, q # NoPeer
                   PROVE  Shown(q)'
      BY <1>1
    <3>2. CASE job[Io].kind = "connected"
      <4>1. q = job[Io].peer
        BY <2>1, <3>1, <3>2 DEF ServerInv, Telling
      <4> QED
        BY <2>1, <3>2, <4>1, ThreadFacts, ShownNow
    <3>3. CASE job[Io].kind # "connected"
      BY <2>1, <2>2, <3>1, <3>3, ThreadFacts, ShownStays
    <3> QED
      BY <3>2, <3>3
  <2> QED
    BY <1>2, <1>3, <1>5, <2>4, <2>5 DEF ServerInv
<1> QED
  BY <1>6, <1>7 DEF IoThread

LEMMA SourceNext ==
  ASSUME LifeInv, DataType, SourceInv, [Next]_vars
  PROVE  SourceInv'
<1>1. run' = run
  <2>1. ASSUME NEW t \in Handlers \cup {Main}, Send(t) PROVE run' = run
    BY <2>1, SendTells
  <2>2. CASE LockState \/ IoThread
    BY <2>2 DEF LockState, IoThread, EmitNotice, EndSession, inputs
  <2>3. CASE UNCHANGED vars
    BY <2>3 DEF vars, inputs
  <2> QED
    BY <2>1, <2>2, <2>3, QuietSteps, CallbackTells DEF Next, MainThread, HandlerThread
<1> SUFFICES ASSUME run.mode = Server, ServerInv
             PROVE  ServerInv'
  BY <1>1 DEF SourceInv
<1>2. ASSUME NEW t \in Handlers \cup {Main}, Send(t) PROVE ServerInv'
  BY <1>2, SendSource
<1> QED
  BY <1>2, QuietSource, CallbackSource, LockSource, IoSource DEF Next, MainThread, HandlerThread

\* The bytes a TCP server records came from the client the log shows as
\* connected at that point, for any number of clients that connect, send,
\* fail and leave in any order, with sends of several threads in between.
THEOREM BytesAreAttributed == Spec => []BytesBelongToActiveClient
<1>1. Spec => []DataType
  BY DataInit, DataNext, PTL DEF Spec
<1>2. Spec => []SourceInv
  BY <1>1, Lifetimes, SourceInit, SourceNext, PTL DEF Spec
<1>3. SourceInv => BytesBelongToActiveClient
  BY DEF SourceInv, ServerInv, Attributed, LinkKinds, BytesBelongToActiveClient
<1> QED
  BY <1>2, <1>3, PTL
=============================================================================
