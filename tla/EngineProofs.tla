---------------------------- MODULE EngineProofs ----------------------------
(***************************************************************************)
(* Theorems of EngineController, for every set of viewers, callback        *)
(* threads and configurations and every bound.                             *)
(***************************************************************************)
EXTENDS EngineProperties, TLAPS

USE DEF Main, Free, Null

-----------------------------------------------------------------------------
(* Steps keep the types: one lemma per group of actions. *)

LEMMA InitType == Init => TypeOK
<1> SUFFICES ASSUME Init PROVE TypeOK
  OBVIOUS
<1>1. [op |-> "noise", arg |-> "WellFormed"] \in Command
  BY DEF Command
<1>2. cmd \in [Clients -> Command]
  BY <1>1 DEF Init
<1>3. pc \in [Threads -> Points]
  BY DEF Init, Points
<1>4. callback \in [Emitters -> [at : {"none", "record", "broadcast"}, run : Nat, n : Nat]]
  BY DEF Init, NoCall
<1>5. log \in Seq(LogLine) /\ wire \in Seq(Message)
  BY DEF Init
<1> QED BY <1>2, <1>3, <1>4, <1>5 DEF Init, TypeOK, Phases

LEMMA EventType ==
  ASSUME TypeOK, NEW e \in Emitters, Record(e) \/ Broadcast(e)
  PROVE  TypeOK'
<1>1. CASE Record(e)
  <2>1. callback[e].run \in Nat /\ callback[e].n \in Nat
    BY DEF TypeOK
  <2>2. Event(callback[e].run, callback[e].n) \in LogLine
    BY <2>1 DEF Event, LogLine, EventMessage
  <2>3. log' \in Seq(LogLine)
    BY <1>1, <2>2 DEF Record, TypeOK
  <2> QED BY <1>1, <2>3 DEF Record, TypeOK, control, engine
<1>2. CASE Broadcast(e)
  <2>1. callback[e].run \in Nat /\ callback[e].n \in Nat
    BY DEF TypeOK
  <2>2. Event(callback[e].run, callback[e].n) \in Message
    BY <2>1 DEF Event, Message, EventMessage
  <2>3. wire' \in Seq(Message)
    BY <1>2, <2>2 DEF Broadcast, Send, TypeOK
  <2>4. session_stopped' \in BOOLEAN
    BY <1>2 DEF Broadcast, TypeOK
  <2> QED BY <1>2, <2>3, <2>4 DEF Broadcast, TypeOK, control, engine, NoCall
<1> QED BY <1>1, <1>2

LEMMA EnterType ==
  ASSUME TypeOK, NEW e \in Emitters, NEW run \in Nat, EnterCallback(e, run)
  PROVE  /\ events_seen' \in Nat
         /\ callback' \in [Emitters -> [at : {"none", "record", "broadcast"}, run : Nat, n : Nat]]
  BY DEF TypeOK, EnterCallback

LEMMA DeliverType ==
  ASSUME TypeOK, NEW w \in Workers, Deliver(w)
  PROVE  TypeOK'
<1>1. w \in Emitters /\ transport \in Nat
  BY DEF Emitters, TypeOK
<1>2. EnterCallback(w, transport)
  BY DEF Deliver
<1>3. /\ events_seen' \in Nat
      /\ callback' \in [Emitters -> [at : {"none", "record", "broadcast"}, run : Nat, n : Nat]]
  BY <1>1, <1>2, EnterType
<1> QED BY <1>3 DEF Deliver, TypeOK, control, engine

LEMMA PointFacts ==
  /\ "idle" \in Points /\ "called" \in Points
  /\ \A p \in Steps : p \in Points
  /\ StartSteps \subseteq Steps /\ StopSteps \subseteq Steps
  /\ "sending" \in Steps /\ "status" \in Steps /\ "clear_handler" \in Steps
  BY DEF Points, Steps

LEMMA SendType ==
  ASSUME TypeOK, NEW m \in Message, Send(m)
  PROVE  wire' \in Seq(Message)
  BY DEF TypeOK, Send

LEMMA ResultType ==
  ASSUME NEW c \in Clients, NEW op \in LockedOps \cup UnlockedOps, NEW ok \in BOOLEAN
  PROVE  Result(c, op, ok) \in Message
  BY DEF Result, Message

LEMMA GotoType ==
  ASSUME TypeOK, NEW t \in Threads, NEW p \in Points, Goto(t, p)
  PROVE  pc' \in [Threads -> Points]
  BY DEF TypeOK, Goto

\* A reply leaves everything but the lock and the engine's own state typed.
LEMMA ReplyType ==
  ASSUME TypeOK, NEW c \in Clients, NEW m \in Message, Reply(c, m)
  PROVE  /\ wire' \in Seq(Message)
         /\ pc' \in [Threads -> Points]
         /\ phase' \in Phases /\ handler' \in BOOLEAN
         /\ cmd' \in [Clients -> Command]
         /\ received' \in [Clients -> Nat] /\ dispatched' \in [Clients -> Nat]
  BY SendType, GotoType, PointFacts DEF Reply, TypeOK, Threads

LEMMA RefuseType ==
  ASSUME TypeOK, NEW c \in Clients, NEW op \in LockedOps, Refuse(c, op)
  PROVE  TypeOK'
<1>1. Result(c, op, FALSE) \in Message
  BY ResultType
<1>2. Reply(c, Result(c, op, FALSE))
  BY DEF Refuse
<1> QED BY <1>1, <1>2, ReplyType DEF Refuse, TypeOK, engine, capture

LEMMA ReceiveType ==
  ASSUME TypeOK, NEW c \in Clients, Receive(c)
  PROVE  TypeOK'
<1>1. PICK k \in Command :
        /\ cmd' = [cmd EXCEPT ![c] = k]
        /\ dispatched' = IF handler /\ k.op # "noise"
                         THEN [dispatched EXCEPT ![c] = @ + 1] ELSE dispatched
  BY DEF Receive
<1>2. cmd' \in [Clients -> Command]
  BY <1>1 DEF TypeOK
<1>3. dispatched' \in [Clients -> Nat] /\ received' \in [Clients -> Nat]
  BY <1>1 DEF TypeOK, Receive
<1>4. pc' \in [Threads -> Points]
  BY PointFacts, GotoType DEF TypeOK, Receive, Threads
<1> QED BY <1>2, <1>3, <1>4 DEF TypeOK, Receive, engine, capture

LEMMA UnlockedHandlerType ==
  ASSUME TypeOK, NEW c \in Clients, UnlockedHandler(c)
  PROVE  TypeOK'
<1>1. CASE DropNoise(c)
  <2>1. pc' \in [Threads -> Points]
    BY <1>1, PointFacts, GotoType DEF DropNoise, Threads
  <2> QED BY <1>1, <2>1 DEF DropNoise, TypeOK, engine, capture
<1>2. CASE UnknownCommand(c)
  <2>1. Result(c, "unknown", FALSE) \in Message
    BY ResultType DEF UnlockedOps
  <2> QED BY <1>2, <2>1, ReplyType DEF UnknownCommand, TypeOK, engine, capture
<1>3. CASE HandleListSerialPorts(c)
  <2>1. PICK ok \in BOOLEAN : Reply(c, Result(c, "list_serial_ports", ok))
    BY <1>3 DEF HandleListSerialPorts
  <2>2. Result(c, "list_serial_ports", ok) \in Message
    BY ResultType DEF UnlockedOps
  <2> QED BY <1>3, <2>1, <2>2, ReplyType DEF HandleListSerialPorts, TypeOK, engine, capture
<1> QED BY <1>1, <1>2, <1>3 DEF UnlockedHandler

LEMMA ConfigureType ==
  ASSUME TypeOK, NEW c \in Clients, HandleConfigure(c)
  PROVE  TypeOK'
<1>1. CASE Refuse(c, "configure")
  BY <1>1, RefuseType DEF LockedOps
<1>2. CASE ~(capturing \/ cmd[c].arg = "Malformed")
  <2>1. cmd[c] \in Command /\ cmd[c].op = "configure"
    BY DEF TypeOK, HandleConfigure, Locked, Called
  <2>2. cmd[c].arg \in Configs
    BY <1>2, <2>1 DEF Command, LockedOps, UnlockedOps
  <2>3. Result(c, "configure", TRUE) \in Message
    BY ResultType DEF LockedOps
  <2>4. wire' \in Seq(Message) /\ pc' \in [Threads -> Points]
    BY <1>2, <2>3, SendType, GotoType, PointFacts DEF HandleConfigure, Threads
  <2> QED BY <1>2, <2>2, <2>4 DEF HandleConfigure, TypeOK, Acquire, Threads, capture
<1> QED BY <1>1, <1>2 DEF HandleConfigure

LEMMA LockedHandlerType ==
  ASSUME TypeOK, NEW c \in Clients, LockedHandler(c)
  PROVE  TypeOK'
<1>1. CASE HandleGetStatus(c)
  <2>1. Report(c, IF capturing THEN "capturing" ELSE "idle", config) \in Message
    BY DEF Report, Message, TypeOK, EngineState
  <2> QED BY <1>1, <2>1, ReplyType DEF HandleGetStatus, TypeOK, engine, capture
<1>2. CASE HandleConfigure(c)
  BY <1>2, ConfigureType
<1>3. CASE HandleStartCapture(c)
  <2>1. CASE Refuse(c, "start_capture")
    BY <2>1, RefuseType DEF LockedOps
  <2>2. CASE ~(capturing \/ config = NoConfig)
    <3>1. pc' \in [Threads -> Points]
      BY <1>3, <2>2, GotoType, PointFacts DEF HandleStartCapture, Threads, StartSteps
    <3> QED BY <1>3, <2>2, <3>1 DEF HandleStartCapture, TypeOK, Acquire, Threads, capture
  <2> QED BY <1>3, <2>1, <2>2 DEF HandleStartCapture
<1>4. CASE HandleStopCapture(c)
  <2>1. CASE Refuse(c, "stop_capture")
    BY <2>1, RefuseType DEF LockedOps
  <2>2. CASE capturing
    <3>1. pc' \in [Threads -> Points]
      BY <1>4, <2>2, GotoType, PointFacts DEF HandleStopCapture, Threads, StopSteps
    <3> QED BY <1>4, <2>2, <3>1 DEF HandleStopCapture, TypeOK, Acquire, Threads, engine, capture
  <2> QED BY <1>4, <2>1, <2>2 DEF HandleStopCapture
<1>5. CASE HandleSend(c)
  <2>1. CASE Refuse(c, "send")
    BY <2>1, RefuseType DEF LockedOps
  <2>2. CASE ~Refuse(c, "send")
    <3>1. c \in Emitters /\ session \in Nat /\ c \in Threads
      BY DEF Emitters, Threads, TypeOK
    <3>2. EnterCallback(c, session) /\ Goto(c, "sending")
      BY <1>5, <2>2 DEF HandleSend
    <3>3. /\ pc' \in [Threads -> Points] /\ events_seen' \in Nat
          /\ callback' \in [Emitters -> [at : {"none", "record", "broadcast"}, run : Nat, n : Nat]]
      BY <3>1, <3>2, EnterType, GotoType, PointFacts
    <3> QED BY <1>5, <2>2, <3>3 DEF HandleSend, TypeOK, Acquire, Threads, engine
  <2> QED BY <2>1, <2>2
<1> QED BY <1>1, <1>2, <1>3, <1>4, <1>5 DEF LockedHandler

LEMMA StartStepType ==
  ASSUME TypeOK, NEW c \in Clients, StartStep(c)
  PROVE  TypeOK'
<1>0. c \in Threads /\ c \in Emitters /\ runs \in Nat
  BY DEF Threads, Emitters, TypeOK
<1>1. CASE MakeRecorder(c)
  <2>1. pc' \in [Threads -> Points]
    <3>1. Goto(c, "build_pipeline") \/ Goto(c, "rollback")
      BY <1>1 DEF MakeRecorder
    <3> QED BY <1>0, <3>1, GotoType, PointFacts DEF StartSteps
  <2>2. log' \in Seq(LogLine)
    <3>1. Metadata(runs) \in LogLine
      BY <1>0 DEF Metadata, LogLine
    <3>2. Append(log, Metadata(runs)) \in Seq(LogLine)
      BY <3>1 DEF TypeOK
    <3> QED BY <1>1, <3>2 DEF MakeRecorder, TypeOK
  <2>3. recorder' \in Nat
    BY <1>0, <1>1 DEF MakeRecorder, TypeOK
  <2> QED BY <1>1, <2>1, <2>2, <2>3 DEF MakeRecorder, TypeOK, capture
<1>2. CASE BuildPipeline(c)
  <2>1. pc' \in [Threads -> Points]
    <3>1. Goto(c, "start_transport") \/ Goto(c, "rollback")
      BY <1>2 DEF BuildPipeline
    <3> QED BY <1>0, <3>1, GotoType, PointFacts DEF StartSteps
  <2> QED BY <1>2, <2>1 DEF BuildPipeline, TypeOK, capture
<1>3. CASE StartTransport(c)
  <2>1. pc' \in [Threads -> Points]
    BY <1>0, <1>3, GotoType, PointFacts DEF StartTransport, StartSteps
  <2>2. /\ events_seen' \in Nat
        /\ callback' \in [Emitters -> [at : {"none", "record", "broadcast"}, run : Nat, n : Nat]]
    BY <1>0, <1>3, EnterType DEF StartTransport, TypeOK
  <2> QED BY <1>0, <1>3, <2>1, <2>2 DEF StartTransport, TypeOK, engine
<1>4. CASE SessionStarted(c)
  <2>1. pc' \in [Threads -> Points]
    BY <1>0, <1>4, GotoType, PointFacts DEF SessionStarted
  <2>2. wire' \in Seq(Message)
    BY <1>4, ResultType, SendType DEF SessionStarted, LockedOps
  <2> QED BY <1>0, <1>4, <2>1, <2>2 DEF SessionStarted, TypeOK, capture
<1>5. CASE SessionFailed(c)
  <2>1. pc' \in [Threads -> Points]
    BY <1>0, <1>5, GotoType, PointFacts DEF SessionFailed, StartSteps
  <2> QED BY <1>5, <2>1 DEF SessionFailed, TypeOK, engine
<1>6. CASE Unwind(c)
  <2>1. pc' \in [Threads -> Points]
    BY <1>0, <1>6, GotoType, PointFacts DEF Unwind, StartSteps
  <2> QED BY <1>6, <2>1 DEF Unwind, TypeOK, engine, capture
<1>7. CASE Rollback(c)
  <2>1. Result(c, "start_capture", FALSE) \in Message
    BY ResultType DEF LockedOps
  <2> QED BY <1>7, <2>1, ReplyType DEF Rollback, Release, TypeOK, capture
<1> QED BY <1>1, <1>2, <1>3, <1>4, <1>5, <1>6, <1>7 DEF StartStep

LEMMA StopStepType ==
  ASSUME TypeOK, NEW t \in Threads, StopStep(t)
  PROVE  TypeOK'
<1>0. t \in Emitters /\ session \in Nat
  BY DEF Emitters, TypeOK
<1>1. CASE StopSession(t)
  <2>1. pc' \in [Threads -> Points]
    <3>1. Goto(t, "destroy_session") \/ Goto(t, "join_session")
      BY <1>1 DEF StopSession
    <3> QED BY <3>1, GotoType, PointFacts DEF StopSteps
  <2> QED BY <1>1, <2>1 DEF StopSession, TypeOK, engine
<1>2. CASE JoinSession(t)
  <2>1. pc' \in [Threads -> Points]
    BY <1>2, GotoType, PointFacts DEF JoinSession, StopSteps
  <2>2. /\ events_seen' \in Nat
        /\ callback' \in [Emitters -> [at : {"none", "record", "broadcast"}, run : Nat, n : Nat]]
    BY <1>0, <1>2, EnterType DEF JoinSession, TypeOK
  <2> QED BY <1>2, <2>1, <2>2 DEF JoinSession, TypeOK, engine
<1>3. CASE CloseTransport(t)
  BY <1>3 DEF CloseTransport, TypeOK, control, engine
<1>4. CASE DestroySession(t)
  <2>1. pc' \in [Threads -> Points]
    BY <1>4, GotoType, PointFacts DEF DestroySession, StopSteps
  <2> QED BY <1>4, <2>1 DEF DestroySession, TypeOK, capture
<1>5. CASE ResetPipeline(t)
  <2>1. pc' \in [Threads -> Points]
    BY <1>5, GotoType, PointFacts DEF ResetPipeline, StopSteps
  <2> QED BY <1>5, <2>1 DEF ResetPipeline, TypeOK, capture
<1>6. CASE ResetRecorder(t)
  <2>1. pc' \in [Threads -> Points]
    <3>1. Goto(t, "clear_handler") \/ Goto(t, "status")
      BY <1>6 DEF ResetRecorder
    <3> QED BY <3>1, GotoType, PointFacts
  <2>2. wire' \in Seq(Message)
    <3>1. CASE t = Main
      BY <1>6, <3>1 DEF ResetRecorder, TypeOK
    <3>2. CASE t # Main
      <4>1. t \in Clients
        BY <3>2 DEF Threads
      <4> QED BY <1>6, <3>2, <4>1, ResultType, SendType DEF ResetRecorder, LockedOps
    <3> QED BY <3>1, <3>2
  <2> QED BY <1>6, <2>1, <2>2 DEF ResetRecorder, TypeOK, capture
<1> QED BY <1>1, <1>2, <1>3, <1>4, <1>5, <1>6 DEF StopStep

LEMMA FinishStepType ==
  ASSUME TypeOK, NEW c \in Clients, FinishStep(c)
  PROVE  TypeOK'
<1>1. CASE BroadcastStatus(c)
  <2>1. Status(IF capturing THEN "capturing" ELSE "idle", config) \in Message
    BY DEF Status, Message, TypeOK, EngineState
  <2>2. wire' \in Seq(Message) /\ pc' \in [Threads -> Points]
    BY <1>1, <2>1, SendType, GotoType, PointFacts DEF BroadcastStatus, Threads
  <2> QED BY <1>1, <2>2 DEF BroadcastStatus, Release, TypeOK, engine, capture
<1>2. CASE SendDone(c)
  <2>1. Result(c, "send", TRUE) \in Message
    BY ResultType DEF LockedOps
  <2> QED BY <1>2, <2>1, ReplyType DEF SendDone, Release, TypeOK, engine, capture
<1> QED BY <1>1, <1>2 DEF FinishStep

LEMMA MainStepType ==
  ASSUME TypeOK, MainStep
  PROVE  TypeOK'
<1>0. Main \in Threads
  BY DEF Threads
<1>1. CASE Install
  BY <1>1 DEF Install, TypeOK, Phases, engine, capture
<1>2. CASE StopRequested
  BY <1>2 DEF StopRequested, TypeOK, Phases, engine, capture
<1>3. CASE Shutdown
  <2>1. pc' \in [Threads -> Points]
    <3>1. Goto(Main, "stop_session") \/ Goto(Main, "clear_handler")
      BY <1>3 DEF Shutdown
    <3> QED BY <1>0, <3>1, GotoType, PointFacts DEF StopSteps
  <2> QED BY <1>0, <1>3, <2>1 DEF Shutdown, Acquire, TypeOK, engine, capture
<1>4. CASE ClearHandler
  <2>1. pc' \in [Threads -> Points]
    BY <1>0, <1>4, GotoType, PointFacts DEF ClearHandler
  <2> QED BY <1>4, <2>1 DEF ClearHandler, Release, TypeOK, Phases, engine, capture
<1>5. CASE StopServer
  BY <1>5 DEF StopServer, TypeOK, Phases, engine, capture
<1> QED BY <1>1, <1>2, <1>3, <1>4, <1>5 DEF MainStep

LEMMA StepType == TypeOK /\ [Next]_vars => TypeOK'
<1> SUFFICES ASSUME TypeOK, [Next]_vars PROVE TypeOK'
  OBVIOUS
<1>1. CASE UNCHANGED vars
  BY <1>1 DEF vars, control, engine, capture, TypeOK
<1>2. ASSUME NEW c \in Clients,
             Receive(c) \/ UnlockedHandler(c) \/ LockedHandler(c) \/ StartStep(c) \/ FinishStep(c)
      PROVE  TypeOK'
  BY <1>2, ReceiveType, UnlockedHandlerType, LockedHandlerType, StartStepType, FinishStepType
<1>3. ASSUME NEW t \in Threads, StopStep(t) PROVE TypeOK'
  BY <1>3, StopStepType
<1>4. ASSUME NEW e \in Emitters, Record(e) \/ Broadcast(e) PROVE TypeOK'
  BY <1>4, EventType
<1>5. ASSUME NEW w \in Workers, Deliver(w) PROVE TypeOK'
  BY <1>5, DeliverType
<1>6. CASE MainStep
  BY <1>6, MainStepType
<1> QED BY <1>1, <1>2, <1>3, <1>4, <1>5, <1>6 DEF Next

\* Every variable of the engine process always has its type: each handler,
\* callback and shutdown step of the code leaves the members it touches in range.
THEOREM TypeCorrect == Spec => []TypeOK
  BY InitType, StepType, PTL DEF Spec

-----------------------------------------------------------------------------
(***************************************************************************)
(* The lifetime invariant.                                                 *)
(***************************************************************************)

LEMMA InitInv == Init => EngineInv
<1> SUFFICES ASSUME Init PROVE EngineInv
  OBVIOUS
<1>1. \A t \in Threads : pc[t] = "idle"
  BY DEF Init
<1>2. Main \in Threads /\ \A c \in Clients : c \in Threads
  BY DEF Threads
<1>3. Silent
  BY DEF Init, Silent, NoCall
<1>4. LockDiscipline
  BY <1>1, <1>2, ThreadAssumption DEF Init, LockDiscipline, Steps, StartSteps, StopSteps, Threads
<1>5. CallbackDiscipline
  BY <1>3 DEF Init, CallbackDiscipline, Silent, Threads, Emitters
<1>6. Resting
  BY <1>3 DEF Init, Resting, Gone
<1>7. \A t \in Threads : BuildingAt(t) /\ StoppingAt(t)
  BY <1>1 DEF BuildingAt, StoppingAt, StartSteps, StopSteps
<1>8. Ending
  BY <1>1, <1>2 DEF Init, Ending
<1> QED BY <1>4, <1>5, <1>6, <1>7, <1>8 DEF EngineInv

\* While one thread is inside mutex_, or nobody is, no other thread is at a step.
LEMMA Outsiders ==
  ASSUME TypeOK, EngineInv, NEW t \in Threads, mutex \in {t, Free},
         \A u \in Threads : u # t => pc'[u] = pc[u]
  PROVE  \A u \in Threads : u # t => /\ pc'[u] \notin Steps
                                     /\ BuildingAt(u)' /\ StoppingAt(u)'
<1> SUFFICES ASSUME NEW u \in Threads, u # t
             PROVE  pc'[u] \notin Steps /\ BuildingAt(u)' /\ StoppingAt(u)'
  OBVIOUS
<1>1. mutex # u
  BY ThreadAssumption DEF Threads
<1>2. pc'[u] \notin Steps
  BY <1>1 DEF EngineInv, LockDiscipline
<1>3. pc'[u] \notin StartSteps \cup StopSteps
  BY <1>2 DEF Steps
<1> QED BY <1>2, <1>3 DEF BuildingAt, StoppingAt, StartSteps, StopSteps

LEMMA MakeRecorderInv ==
  ASSUME TypeOK, EngineInv, NEW c \in Clients, MakeRecorder(c)
  PROVE  EngineInv'
<1>0. c \in Threads /\ c # Main /\ mutex = c /\ pc[c] = "make_recorder"
  BY ThreadAssumption DEF Threads, MakeRecorder, EngineInv, LockDiscipline, Steps, StartSteps
<1>1. \A u \in Threads : u # c => pc'[u] = pc[u]
  BY <1>0 DEF TypeOK, MakeRecorder, Goto
<1>2. pc'[c] \in {"build_pipeline", "rollback"}
  BY <1>0 DEF TypeOK, MakeRecorder, Goto
<1>3. \A u \in Threads : u # c => pc'[u] \notin Steps /\ BuildingAt(u)' /\ StoppingAt(u)'
  BY <1>0, <1>1, Outsiders
<1>4. LockDiscipline'
  BY <1>0, <1>1, <1>2, <1>3 DEF LockDiscipline, EngineInv, MakeRecorder, Threads, Steps, StartSteps, StopSteps
<1>5. CallbackDiscipline'
  BY <1>0, <1>1 DEF CallbackDiscipline, EngineInv, MakeRecorder, capture, BuildingAt, Silent, Emitters
<1>6. Resting'
  BY <1>0, <1>2 DEF Resting, StartSteps
<1>7. BuildingAt(c)' /\ StoppingAt(c)'
  <2>1. ~capturing /\ Gone /\ transport = Null /\ Silent
    BY <1>0 DEF EngineInv, BuildingAt, StartSteps
  <2>2. ~capturing' /\ session' = Null /\ pipeline' = Null /\ transport' = Null /\ Silent'
    BY <1>0, <2>1 DEF MakeRecorder, capture, Silent, Gone
  <2>3. pc'[c] = "build_pipeline" => recorder' = runs'
    BY <1>0 DEF MakeRecorder, Goto, TypeOK
  <2> QED BY <1>2, <2>2, <2>3 DEF BuildingAt, StoppingAt, StartSteps, StopSteps
<1>8. Ending'
  BY <1>0, <1>1, <1>2 DEF Ending, EngineInv, MakeRecorder, Threads
<1> QED BY <1>3, <1>4, <1>5, <1>6, <1>7, <1>8 DEF EngineInv

LEMMA HoldLock ==
  ASSUME TypeOK, EngineInv, NEW t \in Threads, mutex \in {t, Free}, mutex' = t,
         \A u \in Threads : u # t => pc'[u] = pc[u],
         pc'[t] \in Steps,
         t = Main => pc'[t] \in StopSteps \cup {"clear_handler"},
         t # Main => pc'[t] # "clear_handler"
  PROVE  LockDiscipline'
<1>1. \A u \in Threads : u # t => pc'[u] \notin Steps
  BY Outsiders
<1>2. pc[Main] \in StopSteps \cup {"idle", "clear_handler"} /\ \A c \in Clients : pc[c] # "clear_handler"
  BY DEF EngineInv, LockDiscipline
<1>3. Main \in Threads /\ (\A c \in Clients : c \in Threads /\ c # Main)
  BY ThreadAssumption DEF Threads
<1>4. pc'[Main] \in StopSteps \cup {"idle", "clear_handler"}
  BY <1>2, <1>3
<1>5. \A c \in Clients : pc'[c] # "clear_handler"
  BY <1>2, <1>3
<1> QED BY <1>1, <1>4, <1>5 DEF LockDiscipline

LEMMA FreeLock ==
  ASSUME TypeOK, EngineInv, NEW t \in Threads, mutex \in {t, Free}, mutex' = Free,
         \A u \in Threads : u # t => pc'[u] = pc[u],
         pc'[t] = "idle"
  PROVE  LockDiscipline'
<1>1. \A u \in Threads : u # t => pc'[u] \notin Steps
  BY Outsiders
<1>2. pc[Main] \in StopSteps \cup {"idle", "clear_handler"} /\ \A c \in Clients : pc[c] # "clear_handler"
  BY DEF EngineInv, LockDiscipline
<1>3. Main \in Threads /\ (\A c \in Clients : c \in Threads) /\ \A u \in Threads : u # Free
  BY ThreadAssumption DEF Threads
<1>4. pc'[t] \notin Steps
  BY DEF Steps, StartSteps, StopSteps
<1>5. pc'[Main] \in StopSteps \cup {"idle", "clear_handler"}
  BY <1>2, <1>3
<1>6. \A c \in Clients : pc'[c] # "clear_handler"
  BY <1>2, <1>3
<1> QED BY <1>1, <1>3, <1>4, <1>5, <1>6 DEF LockDiscipline

\* What a thread at a step may rely on.
LEMMA Holder ==
  ASSUME TypeOK, EngineInv, NEW t \in Threads, pc[t] \in Steps
  PROVE  mutex = t /\ BuildingAt(t) /\ StoppingAt(t) /\ CallbackDiscipline /\ Ending
  BY DEF EngineInv, LockDiscipline

\* It is enough to look at the thread that moves.
LEMMA MoverSuffices ==
  ASSUME TypeOK, EngineInv, NEW t \in Threads, mutex \in {t, Free},
         \A u \in Threads : u # t => pc'[u] = pc[u],
         LockDiscipline', CallbackDiscipline', Resting',
         BuildingAt(t)', StoppingAt(t)', Ending'
  PROVE  EngineInv'
  BY Outsiders DEF EngineInv

\* A handler outside mutex_ disturbs nothing.
LEMMA OutsideInv ==
  ASSUME TypeOK, EngineInv, NEW c \in Clients, pc[c] \in {"idle", "called"},
         \A u \in Threads : u # c => pc'[u] = pc[u], pc'[c] \in {"idle", "called"},
         UNCHANGED <<phase, handler, mutex, engine, capture>>
  PROVE  EngineInv'
<1>0. c \in Threads /\ c # Main /\ Main \in Threads
  BY ThreadAssumption DEF Threads
<1>1. pc[c] \notin Steps /\ pc'[c] \notin Steps
  BY DEF Steps, StartSteps, StopSteps
<1>2. LockDiscipline'
  BY <1>0, <1>1 DEF EngineInv, LockDiscipline, Threads
<1>3. CallbackDiscipline'
  BY <1>0 DEF EngineInv, CallbackDiscipline, engine, capture
<1>4. Resting'
  <2>1. ASSUME \A t \in Threads : pc'[t] \notin StartSteps \cup StopSteps
        PROVE  \A t \in Threads : pc[t] \notin StartSteps \cup StopSteps
    BY <1>1, <2>1 DEF Steps
  <2> QED BY <2>1 DEF EngineInv, Resting, engine, capture, Gone, Built, Silent
<1>5. ASSUME NEW u \in Threads PROVE BuildingAt(u)' /\ StoppingAt(u)'
  <2>1. CASE u = c
    BY <1>1, <2>1 DEF BuildingAt, StoppingAt, Steps, StartSteps, StopSteps
  <2>2. CASE u # c
    BY <2>2 DEF EngineInv, BuildingAt, StoppingAt, engine, capture, Gone, Built, Silent
  <2> QED BY <2>1, <2>2
<1>6. Ending'
  BY <1>0 DEF EngineInv, Ending, engine, Threads
<1> QED BY <1>2, <1>3, <1>4, <1>5, <1>6 DEF EngineInv

\* A callback moves on: it was in progress before, and only there.
LEMMA CallbackInv ==
  ASSUME TypeOK, EngineInv, NEW e \in Emitters, Record(e) \/ Broadcast(e)
  PROVE  EngineInv'
<1>1. /\ callback[e].at # "none"
      /\ UNCHANGED <<control, engine, transport>>
      /\ \A d \in Emitters : d # e => callback'[d] = callback[d]
      /\ callback'[e].at # "none" => callback'[e].run = callback[e].run
  <2>1. callback \in [Emitters -> [at : {"none", "record", "broadcast"}, run : Nat, n : Nat]]
    BY DEF TypeOK
  <2>2. CASE Record(e)
    <3>1. /\ callback[e].at = "record" /\ UNCHANGED <<control, engine, transport>>
          /\ callback' = [callback EXCEPT ![e].at = "broadcast"]
      BY <2>2 DEF Record
    <3> QED BY <2>1, <3>1
  <2>3. CASE Broadcast(e)
    <3>1. /\ callback[e].at = "broadcast" /\ UNCHANGED <<control, engine, transport>>
          /\ callback' = [callback EXCEPT ![e] = NoCall]
      BY <2>3 DEF Broadcast
    <3> QED BY <2>1, <3>1 DEF NoCall
  <2> QED BY <2>2, <2>3
<1>2. ~Silent
  BY <1>1 DEF Silent
<1>3. CallbackDiscipline'
  <2>1. \A d \in Emitters : callback'[d].at # "none" => callback[d].at # "none" /\ callback'[d].run = callback[d].run
    BY <1>1
  <2>2. \A t \in Threads : t \in Emitters
    BY DEF Emitters
  <2> QED BY <1>1, <2>1, <2>2 DEF EngineInv, CallbackDiscipline, control, engine
<1>4. LockDiscipline' /\ Ending'
  BY <1>1 DEF EngineInv, LockDiscipline, Ending, control, engine
<1>5. Resting'
  BY <1>1, <1>2 DEF EngineInv, Resting, control, engine, Built
<1>6. \A t \in Threads : BuildingAt(t)' /\ StoppingAt(t)'
  BY <1>1, <1>2 DEF EngineInv, BuildingAt, StoppingAt, control, engine, Built, Gone
<1> QED BY <1>3, <1>4, <1>5, <1>6 DEF EngineInv

\* A callback begins only while a transport is open, which it is only for a
\* capture whose pipeline and recorder exist.
LEMMA DeliverInv ==
  ASSUME TypeOK, EngineInv, NEW w \in Workers, Deliver(w)
  PROVE  EngineInv'
<1>1. /\ transport # Null /\ w \in Emitters
      /\ UNCHANGED <<control, engine, transport>>
      /\ \A d \in Emitters : d # w => callback'[d] = callback[d]
      /\ callback'[w].run = transport
  BY DEF TypeOK, Deliver, EnterCallback, Emitters
<1>2. w \notin Threads /\ \A t \in Threads : t \in Emitters
  BY ThreadAssumption DEF Threads, Emitters
<1>3. CallbackDiscipline'
  BY <1>1, <1>2 DEF EngineInv, CallbackDiscipline, control, engine
<1>4. LockDiscipline' /\ Ending'
  BY <1>1 DEF EngineInv, LockDiscipline, Ending, control, engine
<1>5. Resting'
  BY <1>1 DEF EngineInv, Resting, control, engine, Built
<1>6. \A t \in Threads : BuildingAt(t)' /\ StoppingAt(t)'
  BY <1>1 DEF EngineInv, BuildingAt, StoppingAt, control, engine, Built, Gone
<1> QED BY <1>3, <1>4, <1>5, <1>6 DEF EngineInv

LEMMA ReplyMoves ==
  ASSUME TypeOK, NEW c \in Clients, NEW m, Reply(c, m)
  PROVE  /\ \A u \in Threads : u # c => pc'[u] = pc[u]
         /\ pc'[c] = "idle"
         /\ UNCHANGED <<phase, handler>>
  BY DEF TypeOK, Reply, Goto, Threads

LEMMA RefuseInv ==
  ASSUME TypeOK, EngineInv, NEW c \in Clients, NEW op, pc[c] = "called", Refuse(c, op)
  PROVE  EngineInv'
<1>1. Reply(c, Result(c, op, FALSE))
  BY DEF Refuse
<1> QED BY <1>1, ReplyMoves, OutsideInv DEF Refuse

LEMMA ReceiveInv ==
  ASSUME TypeOK, EngineInv, NEW c \in Clients, Receive(c)
  PROVE  EngineInv'
<1>1. /\ pc[c] = "idle"
      /\ \A u \in Threads : u # c => pc'[u] = pc[u]
      /\ pc'[c] \in {"idle", "called"}
  BY DEF TypeOK, Receive, Goto, Threads
<1> QED BY <1>1, OutsideInv DEF Receive

LEMMA UnlockedHandlerInv ==
  ASSUME TypeOK, EngineInv, NEW c \in Clients, UnlockedHandler(c)
  PROVE  EngineInv'
<1>1. CASE DropNoise(c)
  <2>1. /\ pc[c] = "called" /\ pc'[c] = "idle"
        /\ \A u \in Threads : u # c => pc'[u] = pc[u]
    BY <1>1 DEF TypeOK, DropNoise, Called, Goto, Threads
  <2> QED BY <1>1, <2>1, OutsideInv DEF DropNoise
<1>2. CASE UnknownCommand(c)
  BY <1>2, ReplyMoves, OutsideInv DEF UnknownCommand, Called
<1>3. CASE HandleListSerialPorts(c)
  <2>1. PICK ok \in BOOLEAN : Reply(c, Result(c, "list_serial_ports", ok))
    BY <1>3 DEF HandleListSerialPorts
  <2> QED BY <1>3, <2>1, ReplyMoves, OutsideInv DEF HandleListSerialPorts, Called
<1> QED BY <1>1, <1>2, <1>3 DEF UnlockedHandler

\* With mutex_ free no thread is at a step.
LEMMA NobodyInside ==
  ASSUME EngineInv, mutex = Free
  PROVE  /\ \A t \in Threads : pc[t] \notin Steps
         /\ IF capturing THEN session = runs /\ Built ELSE Gone /\ transport = Null /\ Silent
         /\ CallbackDiscipline /\ Ending
<1>1. \A t \in Threads : pc[t] \notin Steps
  BY ThreadAssumption DEF EngineInv, LockDiscipline, Threads
<1> QED BY <1>1 DEF EngineInv, Resting, Steps

LEMMA ConfigureInv ==
  ASSUME TypeOK, EngineInv, NEW c \in Clients, HandleConfigure(c)
  PROVE  EngineInv'
<1>0. c \in Threads /\ c # Main /\ Main \in Threads /\ pc[c] = "called" /\ mutex = Free
  BY ThreadAssumption DEF Threads, HandleConfigure, Locked, Called
<1>1. CASE Refuse(c, "configure")
  BY <1>0, <1>1, RefuseInv
<1>2. CASE ~(capturing \/ cmd[c].arg = "Malformed")
  <2>1. /\ mutex' = c /\ pc'[c] = "status"
        /\ \A u \in Threads : u # c => pc'[u] = pc[u]
        /\ UNCHANGED <<phase, handler, capture, capturing, session, pipeline, recorder, runs>>
    BY <1>0, <1>2 DEF HandleConfigure, Acquire, Goto, TypeOK
  <2>2. Gone /\ transport = Null /\ Silent /\ CallbackDiscipline /\ Ending
    BY <1>0, <1>2, NobodyInside
  <2>3. LockDiscipline'
    BY <1>0, <2>1, HoldLock, PointFacts
  <2>4. CallbackDiscipline' /\ Resting'
    BY <1>0, <1>2, <2>1, <2>2 DEF CallbackDiscipline, Resting, Silent, Gone, capture, Emitters
  <2>5. BuildingAt(c)' /\ StoppingAt(c)'
    BY <2>1 DEF BuildingAt, StoppingAt, StartSteps, StopSteps
  <2>6. phase \notin {"destroyed", "exited"}
    BY DEF HandleConfigure, Locked, Called, Alive
  <2>7. Ending'
    BY <1>0, <2>1, <2>2, <2>6 DEF Ending, Threads
  <2> QED BY <1>0, <2>1, <2>3, <2>4, <2>5, <2>7, MoverSuffices
<1> QED BY <1>1, <1>2 DEF HandleConfigure

LEMMA StartCaptureInv ==
  ASSUME TypeOK, EngineInv, NEW c \in Clients, HandleStartCapture(c)
  PROVE  EngineInv'
<1>0. c \in Threads /\ c # Main /\ Main \in Threads /\ pc[c] = "called" /\ mutex = Free
  BY ThreadAssumption DEF Threads, HandleStartCapture, Locked, Called
<1>1. CASE Refuse(c, "start_capture")
  BY <1>0, <1>1, RefuseInv
<1>2. CASE ~(capturing \/ config = NoConfig)
  <2>1. /\ mutex' = c /\ pc'[c] = "make_recorder"
        /\ \A u \in Threads : u # c => pc'[u] = pc[u]
        /\ UNCHANGED <<phase, handler, capture, capturing, session, pipeline, recorder>>
    BY <1>0, <1>2 DEF HandleStartCapture, Acquire, Goto, TypeOK
  <2>2. Gone /\ transport = Null /\ Silent /\ CallbackDiscipline /\ Ending
    BY <1>0, <1>2, NobodyInside
  <2>3. LockDiscipline'
    BY <1>0, <2>1, HoldLock, PointFacts DEF StartSteps
  <2>4. CallbackDiscipline'
    BY <1>0, <2>1, <2>2 DEF CallbackDiscipline, Silent, capture, Emitters
  <2>5. Resting'
    BY <1>0, <2>1 DEF Resting, StartSteps
  <2>6. BuildingAt(c)' /\ StoppingAt(c)'
    BY <1>2, <2>1, <2>2 DEF BuildingAt, StoppingAt, StartSteps, StopSteps, Gone, Silent, capture
  <2>7. phase \notin {"destroyed", "exited"}
    BY DEF HandleStartCapture, Locked, Called, Alive
  <2>8. Ending'
    BY <1>0, <2>1, <2>2, <2>7 DEF Ending, Threads
  <2> QED BY <1>0, <2>1, <2>3, <2>4, <2>5, <2>6, <2>8, MoverSuffices
<1> QED BY <1>1, <1>2 DEF HandleStartCapture

LEMMA StopCaptureInv ==
  ASSUME TypeOK, EngineInv, NEW c \in Clients, HandleStopCapture(c)
  PROVE  EngineInv'
<1>0. c \in Threads /\ c # Main /\ Main \in Threads /\ pc[c] = "called" /\ mutex = Free
  BY ThreadAssumption DEF Threads, HandleStopCapture, Locked, Called
<1>1. CASE Refuse(c, "stop_capture")
  BY <1>0, <1>1, RefuseInv
<1>2. CASE capturing
  <2>1. /\ mutex' = c /\ pc'[c] = "stop_session"
        /\ \A u \in Threads : u # c => pc'[u] = pc[u]
        /\ UNCHANGED <<phase, handler, capture, engine>>
    BY <1>0, <1>2 DEF HandleStopCapture, Acquire, Goto, TypeOK
  <2>2. session = runs /\ Built /\ CallbackDiscipline /\ Ending
    BY <1>0, <1>2, NobodyInside
  <2>3. LockDiscipline'
    BY <1>0, <2>1, HoldLock, PointFacts DEF StopSteps
  <2>4. CallbackDiscipline'
    BY <1>0, <2>1, <2>2 DEF CallbackDiscipline, engine, capture, Emitters
  <2>5. Resting'
    BY <1>0, <2>1 DEF Resting, StopSteps
  <2>6. BuildingAt(c)' /\ StoppingAt(c)'
    BY <1>2, <2>1, <2>2 DEF BuildingAt, StoppingAt, StartSteps, StopSteps, Built, engine
  <2>7. phase \notin {"destroyed", "exited"}
    BY DEF HandleStopCapture, Locked, Called, Alive
  <2>8. Ending'
    BY <1>0, <2>1, <2>2, <2>7 DEF Ending, Threads, engine
  <2> QED BY <1>0, <2>1, <2>3, <2>4, <2>5, <2>6, <2>8, MoverSuffices
<1> QED BY <1>1, <1>2 DEF HandleStopCapture

LEMMA SendInv ==
  ASSUME TypeOK, EngineInv, NEW c \in Clients, HandleSend(c)
  PROVE  EngineInv'
<1>0. c \in Threads /\ c # Main /\ Main \in Threads /\ pc[c] = "called" /\ mutex = Free
  BY ThreadAssumption DEF Threads, HandleSend, Locked, Called
<1>1. CASE Refuse(c, "send")
  BY <1>0, <1>1, RefuseInv
<1>2. CASE ~Refuse(c, "send")
  <2>1. /\ mutex' = c /\ pc'[c] = "sending" /\ capturing
        /\ \A u \in Threads : u # c => pc'[u] = pc[u]
        /\ UNCHANGED <<phase, handler, engine, transport>>
    BY <1>0, <1>2 DEF HandleSend, Acquire, Goto, TypeOK
  <2>2. /\ c \in Emitters /\ callback'[c].run = session
        /\ \A d \in Emitters : d # c => callback'[d] = callback[d]
    BY <1>0, <1>2 DEF HandleSend, EnterCallback, TypeOK, Emitters
  <2>3. session = runs /\ Built /\ CallbackDiscipline /\ Ending
    BY <1>0, <2>1, NobodyInside
  <2>4. LockDiscipline'
    BY <1>0, <2>1, HoldLock, PointFacts
  <2>5. CallbackDiscipline'
    <3>1. \A t \in Threads : t \in Emitters
      BY DEF Emitters
    <3> QED BY <1>0, <2>1, <2>2, <2>3, <3>1 DEF CallbackDiscipline, engine
  <2>6. Resting'
    BY <1>0, <2>1, <2>3 DEF Resting, engine, Built
  <2>7. BuildingAt(c)' /\ StoppingAt(c)'
    BY <2>1 DEF BuildingAt, StoppingAt, StartSteps, StopSteps
  <2>8. phase \notin {"destroyed", "exited"}
    BY DEF HandleSend, Locked, Called, Alive
  <2>9. Ending'
    BY <1>0, <2>1, <2>3, <2>8 DEF Ending, Threads, engine
  <2> QED BY <1>0, <2>1, <2>4, <2>5, <2>6, <2>7, <2>9, MoverSuffices
<1> QED BY <1>1, <1>2

LEMMA LockedHandlerInv ==
  ASSUME TypeOK, EngineInv, NEW c \in Clients, LockedHandler(c)
  PROVE  EngineInv'
<1>1. CASE HandleGetStatus(c)
  BY <1>1, ReplyMoves, OutsideInv DEF HandleGetStatus, Locked, Called
<1> QED BY <1>1, ConfigureInv, StartCaptureInv, StopCaptureInv, SendInv DEF LockedHandler

LEMMA BuildPipelineInv ==
  ASSUME TypeOK, EngineInv, NEW c \in Clients, BuildPipeline(c)
  PROVE  EngineInv'
<1>0. c \in Threads /\ c # Main /\ Main \in Threads /\ pc[c] = "build_pipeline" /\ pc[c] \in Steps
  BY ThreadAssumption, PointFacts DEF Threads, BuildPipeline, StartSteps
<1>1. mutex = c /\ BuildingAt(c) /\ CallbackDiscipline /\ Ending
  BY <1>0, Holder
<1>2. /\ \A u \in Threads : u # c => pc'[u] = pc[u]
      /\ \/ pc'[c] = "start_transport" /\ pipeline' = runs
         \/ pc'[c] = "rollback" /\ pipeline' = pipeline
      /\ UNCHANGED <<phase, handler, mutex, capture, capturing, config, session, recorder, runs>>
  BY <1>0 DEF BuildPipeline, Goto, TypeOK
<1>3. ~capturing /\ session = Null /\ recorder = runs /\ transport = Null /\ Silent
  BY <1>0, <1>1 DEF BuildingAt, StartSteps
<1>4. pc'[c] \in StartSteps
  BY <1>2 DEF StartSteps
<1>5. LockDiscipline'
  BY <1>0, <1>1, <1>2, <1>4, HoldLock, PointFacts DEF StartSteps
<1>6. CallbackDiscipline'
  BY <1>0, <1>1, <1>2, <1>3 DEF CallbackDiscipline, Silent, capture, Emitters
<1>7. Resting'
  BY <1>0, <1>4 DEF Resting
<1>8. BuildingAt(c)' /\ StoppingAt(c)'
  BY <1>2, <1>3 DEF BuildingAt, StoppingAt, StartSteps, StopSteps, Built, Silent, capture
<1>9. Ending'
  BY <1>0, <1>1, <1>2 DEF Ending, Threads
<1> QED BY <1>0, <1>1, <1>2, <1>5, <1>6, <1>7, <1>8, <1>9, MoverSuffices

LEMMA StartTransportInv ==
  ASSUME TypeOK, EngineInv, NEW c \in Clients, StartTransport(c)
  PROVE  EngineInv'
<1>0. c \in Threads /\ c # Main /\ Main \in Threads /\ pc[c] = "start_transport" /\ pc[c] \in Steps
  BY ThreadAssumption, PointFacts DEF Threads, StartTransport, StartSteps
<1>1. mutex = c /\ BuildingAt(c) /\ CallbackDiscipline /\ Ending
  BY <1>0, Holder
<1>2. /\ \A u \in Threads : u # c => pc'[u] = pc[u]
      /\ pc'[c] = "await_start" /\ transport' = runs
      /\ UNCHANGED <<phase, handler, mutex, engine>>
  BY <1>0 DEF StartTransport, Goto, TypeOK
<1>3. ~capturing /\ session = Null /\ Built /\ Silent
  BY <1>0, <1>1 DEF BuildingAt, StartSteps
<1>4. /\ \A d \in Emitters : d # c => callback'[d] = callback[d]
      /\ callback'[c].at # "none" => callback'[c].run = runs
  <2>1. c \in Emitters
    BY <1>0 DEF Emitters
  <2>2. CASE config \in Proxied
    BY <2>1, <2>2 DEF StartTransport, EnterCallback, TypeOK
  <2>3. CASE config \notin Proxied
    BY <1>3, <2>1, <2>3 DEF StartTransport, Silent
  <2> QED BY <2>2, <2>3
<1>5. LockDiscipline'
  BY <1>0, <1>1, <1>2, HoldLock, PointFacts DEF StartSteps
<1>6. CallbackDiscipline'
  <2>1. \A t \in Threads : t \in Emitters
    BY DEF Emitters
  <2> QED BY <1>0, <1>2, <1>3, <1>4, <2>1 DEF CallbackDiscipline, Silent, engine
<1>7. Resting'
  BY <1>0, <1>2 DEF Resting, StartSteps
<1>8. BuildingAt(c)' /\ StoppingAt(c)'
  BY <1>2, <1>3 DEF BuildingAt, StoppingAt, StartSteps, StopSteps, Built, engine
<1>9. Ending'
  BY <1>0, <1>1, <1>2 DEF Ending, Threads, engine
<1> QED BY <1>0, <1>1, <1>2, <1>5, <1>6, <1>7, <1>8, <1>9, MoverSuffices

LEMMA SessionStartedInv ==
  ASSUME TypeOK, EngineInv, NEW c \in Clients, SessionStarted(c)
  PROVE  EngineInv'
<1>0. c \in Threads /\ c # Main /\ Main \in Threads /\ pc[c] = "await_start" /\ pc[c] \in Steps
  BY ThreadAssumption, PointFacts DEF Threads, SessionStarted, StartSteps
<1>1. mutex = c /\ BuildingAt(c) /\ CallbackDiscipline /\ Ending
  BY <1>0, Holder
<1>2. /\ \A u \in Threads : u # c => pc'[u] = pc[u]
      /\ pc'[c] = "status" /\ session' = runs /\ capturing' = TRUE /\ callback[c].at = "none"
      /\ UNCHANGED <<phase, handler, mutex, capture, pipeline, recorder, runs>>
  BY <1>0 DEF SessionStarted, Goto, TypeOK
<1>3. Built
  BY <1>0, <1>1 DEF BuildingAt
<1>4. LockDiscipline'
  BY <1>0, <1>1, <1>2, HoldLock, PointFacts
<1>5. CallbackDiscipline'
  BY <1>0, <1>1, <1>2 DEF CallbackDiscipline, capture
<1>6. Resting'
  BY <1>2, <1>3 DEF Resting, Built
<1>7. BuildingAt(c)' /\ StoppingAt(c)'
  BY <1>2 DEF BuildingAt, StoppingAt, StartSteps, StopSteps
<1>8. Ending'
  <2>1. pc[Main] = "idle"
    <3>1. pc[Main] \notin Steps
      BY <1>0, <1>1 DEF EngineInv, LockDiscipline
    <3> QED BY <3>1 DEF EngineInv, LockDiscipline, Steps
  <2>2. phase \notin {"destroyed", "exited"}
    BY <1>0, <1>1, ThreadAssumption DEF Ending
  <2> QED BY <1>0, <1>1, <1>2, <2>1, <2>2 DEF Ending, Threads
<1> QED BY <1>0, <1>1, <1>2, <1>4, <1>5, <1>6, <1>7, <1>8, MoverSuffices

LEMMA SessionFailedInv ==
  ASSUME TypeOK, EngineInv, NEW c \in Clients, SessionFailed(c)
  PROVE  EngineInv'
<1>0. c \in Threads /\ c # Main /\ Main \in Threads /\ pc[c] = "await_start" /\ pc[c] \in Steps
  BY ThreadAssumption, PointFacts DEF Threads, SessionFailed, StartSteps
<1>1. mutex = c /\ BuildingAt(c) /\ CallbackDiscipline /\ Ending
  BY <1>0, Holder
<1>2. /\ \A u \in Threads : u # c => pc'[u] = pc[u]
      /\ pc'[c] = "unwind" /\ transport' = Null /\ callback[c].at = "none"
      /\ UNCHANGED <<phase, handler, mutex, engine, callback>>
  BY <1>0 DEF SessionFailed, Goto, TypeOK
<1>3. ~capturing /\ session = Null /\ Built
  BY <1>0, <1>1 DEF BuildingAt, StartSteps
<1>4. LockDiscipline'
  BY <1>0, <1>1, <1>2, HoldLock, PointFacts DEF StartSteps
<1>5. CallbackDiscipline'
  BY <1>0, <1>1, <1>2 DEF CallbackDiscipline, engine
<1>6. Resting'
  BY <1>0, <1>2 DEF Resting, StartSteps
<1>7. BuildingAt(c)' /\ StoppingAt(c)'
  BY <1>2, <1>3 DEF BuildingAt, StoppingAt, StartSteps, StopSteps, Built, engine
<1>8. Ending'
  BY <1>0, <1>1, <1>2 DEF Ending, Threads, engine
<1> QED BY <1>0, <1>1, <1>2, <1>4, <1>5, <1>6, <1>7, <1>8, MoverSuffices

\* Once the callback threads are idle, only the thread inside mutex_ could
\* still be in a callback.
LEMMA QuietIsSilent ==
  ASSUME TypeOK, EngineInv, NEW t \in Threads, pc[t] \in Steps, Quiet, callback[t].at = "none"
  PROVE  Silent
<1>1. ASSUME NEW e \in Emitters PROVE callback[e].at = "none"
  <2>1. CASE e \in Workers
    BY <2>1 DEF Quiet
  <2>2. CASE e = t
    BY <2>2
  <2>3. CASE e \in Threads /\ e # t
    <3>1. pc[e] \notin Steps
      BY <2>3 DEF EngineInv, LockDiscipline
    <3> QED BY <2>3, <3>1, PointFacts DEF EngineInv, CallbackDiscipline, StartSteps, StopSteps
  <2> QED BY <2>1, <2>2, <2>3 DEF Emitters
<1> QED BY <1>1 DEF Silent

LEMMA UnwindInv ==
  ASSUME TypeOK, EngineInv, NEW c \in Clients, Unwind(c)
  PROVE  EngineInv'
<1>0. c \in Threads /\ c # Main /\ Main \in Threads /\ pc[c] = "unwind" /\ pc[c] \in Steps
  BY ThreadAssumption, PointFacts DEF Threads, Unwind, StartSteps
<1>1. mutex = c /\ BuildingAt(c) /\ CallbackDiscipline /\ Ending
  BY <1>0, Holder
<1>2. /\ \A u \in Threads : u # c => pc'[u] = pc[u]
      /\ pc'[c] = "rollback" /\ Quiet
      /\ UNCHANGED <<phase, handler, mutex, engine, capture>>
  BY <1>0 DEF Unwind, Goto, TypeOK
<1>3. ~capturing /\ session = Null /\ transport = Null
  BY <1>0, <1>1 DEF BuildingAt, StartSteps
<1>4. callback[c].at = "none"
  BY <1>0, <1>1 DEF CallbackDiscipline
<1>5. Silent
  BY <1>0, <1>2, <1>4, QuietIsSilent
<1>6. LockDiscipline'
  BY <1>0, <1>1, <1>2, HoldLock, PointFacts DEF StartSteps
<1>7. CallbackDiscipline'
  BY <1>0, <1>1, <1>2, <1>5 DEF CallbackDiscipline, Silent, Emitters, engine, capture
<1>8. Resting'
  BY <1>0, <1>2 DEF Resting, StartSteps
<1>9. BuildingAt(c)' /\ StoppingAt(c)'
  BY <1>2, <1>3, <1>5 DEF BuildingAt, StoppingAt, StartSteps, StopSteps, Silent, engine, capture
<1>10. Ending'
  BY <1>0, <1>1, <1>2 DEF Ending, Threads, engine
<1> QED BY <1>0, <1>1, <1>2, <1>6, <1>7, <1>8, <1>9, <1>10, MoverSuffices

LEMMA RollbackInv ==
  ASSUME TypeOK, EngineInv, NEW c \in Clients, Rollback(c)
  PROVE  EngineInv'
<1>0. c \in Threads /\ c # Main /\ Main \in Threads /\ pc[c] = "rollback" /\ pc[c] \in Steps
  BY ThreadAssumption, PointFacts DEF Threads, Rollback, StartSteps
<1>1. mutex = c /\ BuildingAt(c) /\ CallbackDiscipline /\ Ending
  BY <1>0, Holder
<1>2. /\ \A u \in Threads : u # c => pc'[u] = pc[u]
      /\ pc'[c] = "idle" /\ mutex' = Free /\ Gone'
      /\ UNCHANGED <<phase, handler, capture, capturing, runs>>
  BY <1>0, ReplyMoves DEF Rollback, Release, Gone
<1>3. ~capturing /\ transport = Null /\ Silent
  BY <1>0, <1>1 DEF BuildingAt, StartSteps
<1>4. LockDiscipline'
  BY <1>0, <1>1, <1>2, FreeLock
<1>5. CallbackDiscipline'
  BY <1>2, <1>3 DEF CallbackDiscipline, Silent, Emitters, capture
<1>6. Resting'
  BY <1>2, <1>3 DEF Resting, Silent, capture
<1>7. BuildingAt(c)' /\ StoppingAt(c)'
  BY <1>2 DEF BuildingAt, StoppingAt, StartSteps, StopSteps
<1>8. Ending'
  BY <1>0, <1>1, <1>2 DEF Ending, Threads
<1> QED BY <1>0, <1>1, <1>2, <1>4, <1>5, <1>6, <1>7, <1>8, MoverSuffices

LEMMA StartStepInv ==
  ASSUME TypeOK, EngineInv, NEW c \in Clients, StartStep(c)
  PROVE  EngineInv'
  BY MakeRecorderInv, BuildPipelineInv, StartTransportInv, SessionStartedInv, SessionFailedInv,
     UnwindInv, RollbackInv DEF StartStep

LEMMA StopSessionInv ==
  ASSUME TypeOK, EngineInv, NEW t \in Threads, StopSession(t)
  PROVE  EngineInv'
<1>0. pc[t] = "stop_session" /\ pc[t] \in Steps /\ Main \in Threads
  BY PointFacts DEF Threads, StopSession, StopSteps
<1>1. mutex = t /\ StoppingAt(t) /\ CallbackDiscipline /\ Ending
  BY <1>0, Holder
<1>2. /\ \A u \in Threads : u # t => pc'[u] = pc[u]
      /\ \/ pc'[t] = "destroy_session" /\ transport' = transport
         \/ pc'[t] = "join_session" /\ transport' = Null
      /\ UNCHANGED <<phase, handler, mutex, engine, callback>>
  BY <1>0 DEF StopSession, Goto, TypeOK
<1>3. capturing /\ session = runs /\ Built
  BY <1>0, <1>1 DEF StoppingAt, StopSteps
<1>4. callback[t].at = "none"
  BY <1>0, <1>1 DEF CallbackDiscipline
<1>5. LockDiscipline'
  BY <1>0, <1>1, <1>2, HoldLock, PointFacts DEF StopSteps
<1>6. CallbackDiscipline'
  BY <1>1, <1>2, <1>4 DEF CallbackDiscipline, engine
<1>7. Resting'
  BY <1>2 DEF Resting, StopSteps
<1>8. BuildingAt(t)' /\ StoppingAt(t)'
  BY <1>2, <1>3 DEF BuildingAt, StoppingAt, StartSteps, StopSteps, Built, engine
<1>9. Ending'
  BY <1>0, <1>1, <1>2 DEF Ending, Threads, engine
<1> QED BY <1>1, <1>2, <1>5, <1>6, <1>7, <1>8, <1>9, MoverSuffices

LEMMA JoinSessionInv ==
  ASSUME TypeOK, EngineInv, NEW t \in Threads, JoinSession(t)
  PROVE  EngineInv'
<1>0. pc[t] = "join_session" /\ pc[t] \in Steps /\ Main \in Threads
  BY PointFacts DEF Threads, JoinSession, StopSteps
<1>1. mutex = t /\ StoppingAt(t) /\ CallbackDiscipline /\ Ending
  BY <1>0, Holder
<1>2. /\ \A u \in Threads : u # t => pc'[u] = pc[u]
      /\ pc'[t] = "destroy_session"
      /\ UNCHANGED <<phase, handler, mutex, engine, transport>>
  BY <1>0 DEF JoinSession, Goto, TypeOK
<1>3. capturing /\ session = runs /\ Built /\ transport = Null /\ callback[t].at = "none"
  BY <1>0, <1>1 DEF StoppingAt, StopSteps, CallbackDiscipline
<1>4. /\ \A d \in Emitters : d # t => callback'[d] = callback[d]
      /\ callback'[t].at # "none" => callback'[t].run = runs
  <2>1. t \in Emitters
    BY DEF Emitters
  <2>2. CASE config \in Proxied
    BY <1>3, <2>1, <2>2 DEF JoinSession, EnterCallback, TypeOK
  <2>3. CASE config \notin Proxied
    BY <1>3, <2>3 DEF JoinSession
  <2> QED BY <2>2, <2>3
<1>5. LockDiscipline'
  BY <1>0, <1>1, <1>2, HoldLock, PointFacts DEF StopSteps
<1>6. CallbackDiscipline'
  <2>1. \A u \in Threads : u \in Emitters
    BY DEF Emitters
  <2> QED BY <1>1, <1>2, <1>4, <2>1 DEF CallbackDiscipline, engine
<1>7. Resting'
  BY <1>2 DEF Resting, StopSteps
<1>8. BuildingAt(t)' /\ StoppingAt(t)'
  BY <1>2, <1>3 DEF BuildingAt, StoppingAt, StartSteps, StopSteps, Built, engine
<1>9. Ending'
  BY <1>0, <1>1, <1>2 DEF Ending, Threads, engine
<1> QED BY <1>1, <1>2, <1>5, <1>6, <1>7, <1>8, <1>9, MoverSuffices

LEMMA CloseTransportInv ==
  ASSUME TypeOK, EngineInv, NEW t \in Threads, CloseTransport(t)
  PROVE  EngineInv'
<1>0. pc[t] = "destroy_session" /\ pc[t] \in Steps
  BY PointFacts DEF CloseTransport, StopSteps
<1>1. mutex = t /\ StoppingAt(t) /\ CallbackDiscipline /\ Ending /\ LockDiscipline
  BY <1>0, Holder DEF EngineInv
<1>2. transport' = Null /\ UNCHANGED <<control, engine, callback>>
  BY DEF CloseTransport
<1>3. capturing /\ session = runs /\ Built
  BY <1>0, <1>1 DEF StoppingAt, StopSteps
<1>4. LockDiscipline' /\ CallbackDiscipline' /\ Ending'
  BY <1>1, <1>2 DEF LockDiscipline, CallbackDiscipline, Ending, control, engine
<1>5. Resting'
  BY <1>0, <1>2 DEF Resting, StopSteps, control
<1>6. BuildingAt(t)' /\ StoppingAt(t)'
  BY <1>0, <1>2, <1>3 DEF BuildingAt, StoppingAt, StartSteps, StopSteps, Built, control, engine
<1> QED BY <1>1, <1>2, <1>4, <1>5, <1>6, MoverSuffices DEF control

LEMMA DestroySessionInv ==
  ASSUME TypeOK, EngineInv, NEW t \in Threads, DestroySession(t)
  PROVE  EngineInv'
<1>0. pc[t] = "destroy_session" /\ pc[t] \in Steps /\ Main \in Threads
  BY PointFacts DEF Threads, DestroySession, StopSteps
<1>1. mutex = t /\ StoppingAt(t) /\ CallbackDiscipline /\ Ending
  BY <1>0, Holder
<1>2. /\ \A u \in Threads : u # t => pc'[u] = pc[u]
      /\ pc'[t] = "reset_pipeline" /\ session' = Null
      /\ transport = Null /\ Quiet /\ callback[t].at = "none"
      /\ UNCHANGED <<phase, handler, mutex, capture, capturing, pipeline, recorder, runs>>
  BY <1>0 DEF DestroySession, Goto, TypeOK
<1>3. capturing /\ Built
  BY <1>0, <1>1 DEF StoppingAt, StopSteps
<1>4. Silent
  BY <1>0, <1>2, QuietIsSilent
<1>5. LockDiscipline'
  BY <1>0, <1>1, <1>2, HoldLock, PointFacts DEF StopSteps
<1>6. CallbackDiscipline'
  BY <1>1, <1>2, <1>4 DEF CallbackDiscipline, Silent, Emitters, capture
<1>7. Resting'
  BY <1>2 DEF Resting, StopSteps
<1>8. BuildingAt(t)' /\ StoppingAt(t)'
  BY <1>2, <1>3, <1>4 DEF BuildingAt, StoppingAt, StartSteps, StopSteps, Built, Silent, capture
<1>9. Ending'
  BY <1>0, <1>1, <1>2 DEF Ending, Threads
<1> QED BY <1>1, <1>2, <1>5, <1>6, <1>7, <1>8, <1>9, MoverSuffices

LEMMA ResetPipelineInv ==
  ASSUME TypeOK, EngineInv, NEW t \in Threads, ResetPipeline(t)
  PROVE  EngineInv'
<1>0. pc[t] = "reset_pipeline" /\ pc[t] \in Steps /\ Main \in Threads
  BY PointFacts DEF Threads, ResetPipeline, StopSteps
<1>1. mutex = t /\ StoppingAt(t) /\ CallbackDiscipline /\ Ending
  BY <1>0, Holder
<1>2. /\ \A u \in Threads : u # t => pc'[u] = pc[u]
      /\ pc'[t] = "reset_recorder" /\ pipeline' = Null
      /\ UNCHANGED <<phase, handler, mutex, capture, capturing, session, recorder, runs>>
  BY <1>0 DEF ResetPipeline, Goto, TypeOK
<1>3. capturing /\ session = Null /\ recorder = runs /\ transport = Null /\ Silent
  BY <1>0, <1>1 DEF StoppingAt, StopSteps
<1>5. LockDiscipline'
  BY <1>0, <1>1, <1>2, HoldLock, PointFacts DEF StopSteps
<1>6. CallbackDiscipline'
  BY <1>1, <1>2, <1>3 DEF CallbackDiscipline, Silent, Emitters, capture
<1>7. Resting'
  BY <1>2 DEF Resting, StopSteps
<1>8. BuildingAt(t)' /\ StoppingAt(t)'
  BY <1>2, <1>3 DEF BuildingAt, StoppingAt, StartSteps, StopSteps, Silent, capture
<1>9. Ending'
  BY <1>0, <1>1, <1>2 DEF Ending, Threads
<1> QED BY <1>1, <1>2, <1>5, <1>6, <1>7, <1>8, <1>9, MoverSuffices

LEMMA ResetRecorderInv ==
  ASSUME TypeOK, EngineInv, NEW t \in Threads, ResetRecorder(t)
  PROVE  EngineInv'
<1>0. pc[t] = "reset_recorder" /\ pc[t] \in Steps /\ Main \in Threads
  BY PointFacts DEF Threads, ResetRecorder, StopSteps
<1>1. mutex = t /\ StoppingAt(t) /\ CallbackDiscipline /\ Ending
  BY <1>0, Holder
<1>2. /\ \A u \in Threads : u # t => pc'[u] = pc[u]
      /\ pc'[t] = IF t = Main THEN "clear_handler" ELSE "status"
      /\ recorder' = Null /\ capturing' = FALSE
      /\ UNCHANGED <<phase, handler, mutex, capture, session, pipeline, runs>>
  BY <1>0 DEF ResetRecorder, Goto, TypeOK
<1>3. session = Null /\ pipeline = Null /\ transport = Null /\ Silent
  BY <1>0, <1>1 DEF StoppingAt, StopSteps
<1>5. LockDiscipline'
  BY <1>0, <1>1, <1>2, HoldLock, PointFacts DEF StopSteps
<1>6. CallbackDiscipline'
  BY <1>1, <1>2, <1>3 DEF CallbackDiscipline, Silent, Emitters, capture
<1>7. Resting'
  BY <1>2, <1>3 DEF Resting, Gone, Silent, capture
<1>8. BuildingAt(t)' /\ StoppingAt(t)'
  BY <1>2, <1>3 DEF BuildingAt, StoppingAt, StartSteps, StopSteps
<1>9. Ending'
  <2>1. \A c \in Clients : c # t => pc'[c] # "sending"
    <3>1. \A c \in Clients : c # t => pc[c] \notin Steps
      BY <1>0, <1>1 DEF EngineInv, LockDiscipline, Threads
    <3> QED BY <1>2, <3>1, PointFacts DEF Threads
  <2> QED BY <1>0, <1>1, <1>2, <2>1 DEF Ending, Threads
<1> QED BY <1>1, <1>2, <1>5, <1>6, <1>7, <1>8, <1>9, MoverSuffices

LEMMA StopStepInv ==
  ASSUME TypeOK, EngineInv, NEW t \in Threads, StopStep(t)
  PROVE  EngineInv'
  BY StopSessionInv, JoinSessionInv, CloseTransportInv, DestroySessionInv, ResetPipelineInv,
     ResetRecorderInv DEF StopStep

LEMMA FinishStepInv ==
  ASSUME TypeOK, EngineInv, NEW c \in Clients, FinishStep(c)
  PROVE  EngineInv'
<1>0. /\ c \in Threads /\ c # Main /\ Main \in Threads
      /\ pc[c] \in {"status", "sending"} /\ callback[c].at = "none"
  <2>1. c \in Threads /\ c # Main /\ Main \in Threads
    BY ThreadAssumption DEF Threads
  <2>2. CASE BroadcastStatus(c)
    BY <2>1, <2>2 DEF BroadcastStatus, EngineInv, CallbackDiscipline
  <2>3. CASE SendDone(c)
    BY <2>1, <2>3 DEF SendDone
  <2> QED BY <2>1, <2>2, <2>3 DEF FinishStep
<1>1. mutex = c /\ BuildingAt(c) /\ StoppingAt(c) /\ CallbackDiscipline /\ Ending
  BY <1>0, Holder, PointFacts
<1>2. /\ \A u \in Threads : u # c => pc'[u] = pc[u]
      /\ pc'[c] = "idle" /\ mutex' = Free
      /\ UNCHANGED <<phase, handler, engine, capture>>
  <2>1. CASE BroadcastStatus(c)
    BY <1>0, <2>1 DEF BroadcastStatus, Release, Goto, TypeOK
  <2>2. CASE SendDone(c)
    BY <1>0, <2>2, ReplyMoves DEF SendDone, Release
  <2> QED BY <2>1, <2>2 DEF FinishStep
<1>3. \A u \in Threads : pc[u] \notin StartSteps \cup StopSteps
  <2>1. \A u \in Threads : u # c => pc[u] \notin Steps
    BY <1>1 DEF EngineInv, LockDiscipline
  <2> QED BY <1>0, <2>1, PointFacts DEF StartSteps, StopSteps
<1>4. LockDiscipline'
  BY <1>0, <1>1, <1>2, FreeLock
<1>5. CallbackDiscipline'
  BY <1>0, <1>1, <1>2 DEF CallbackDiscipline, engine, capture
<1>6. Resting'
  BY <1>2, <1>3 DEF EngineInv, Resting, Built, Gone, Silent, engine, capture
<1>7. BuildingAt(c)' /\ StoppingAt(c)'
  BY <1>2 DEF BuildingAt, StoppingAt, StartSteps, StopSteps
<1>8. Ending'
  BY <1>0, <1>1, <1>2, ThreadAssumption DEF Ending, Threads, engine
<1> QED BY <1>0, <1>1, <1>2, <1>4, <1>5, <1>6, <1>7, <1>8, MoverSuffices

LEMMA MainStepInv ==
  ASSUME TypeOK, EngineInv, MainStep
  PROVE  EngineInv'
<1>0. Main \in Threads /\ Main # Free
  BY DEF Threads
\* Steps that move run_engine along without touching the controller.
<1>1. ASSUME UNCHANGED <<mutex, pc, engine, capture>>, Ending'
      PROVE  EngineInv'
  BY <1>1 DEF EngineInv, LockDiscipline, CallbackDiscipline, Resting, BuildingAt, StoppingAt,
              Built, Gone, Silent, engine, capture
<1>2. CASE Install
  <2>1. Ending'
    BY <1>2 DEF Install, EngineInv, Ending, engine
  <2> QED BY <1>1, <1>2, <2>1 DEF Install
<1>3. CASE StopRequested
  <2>1. Ending'
    BY <1>3 DEF StopRequested, EngineInv, Ending, engine
  <2> QED BY <1>1, <1>3, <2>1 DEF StopRequested
<1>4. CASE StopServer
  <2>1. Ending'
    BY <1>4 DEF StopServer, EngineInv, Ending, engine
  <2> QED BY <1>1, <1>4, <2>1 DEF StopServer
<1>5. CASE Shutdown
  <2>1. /\ mutex = Free /\ mutex' = Main
        /\ \A u \in Threads : u # Main => pc'[u] = pc[u]
        /\ pc'[Main] = IF capturing THEN "stop_session" ELSE "clear_handler"
        /\ phase \in {"shutdown", "destroy"} /\ pc[Main] = "idle"
        /\ UNCHANGED <<phase, handler, engine, capture>>
    BY <1>0, <1>5 DEF Shutdown, Acquire, Goto, TypeOK
  <2>2. /\ IF capturing THEN session = runs /\ Built ELSE Gone /\ transport = Null /\ Silent
        /\ CallbackDiscipline /\ Ending
    BY <2>1, NobodyInside
  <2>3. LockDiscipline'
    BY <1>0, <2>1, HoldLock, PointFacts DEF StopSteps
  <2>4. CallbackDiscipline'
    BY <2>1, <2>2 DEF CallbackDiscipline, engine, capture
  <2>5. Resting'
    BY <1>0, <2>1, <2>2 DEF Resting, StopSteps, Gone, Silent, engine, capture
  <2>6. BuildingAt(Main)' /\ StoppingAt(Main)'
    BY <2>1, <2>2 DEF BuildingAt, StoppingAt, StartSteps, StopSteps, Built, engine
  <2>7. Ending'
    BY <1>0, <2>1, <2>2, ThreadAssumption DEF Ending, Threads, engine
  <2> QED BY <1>0, <2>1, <2>3, <2>4, <2>5, <2>6, <2>7, MoverSuffices
<1>6. CASE ClearHandler
  <2>0. pc[Main] = "clear_handler" /\ pc[Main] \in Steps
    BY <1>6, PointFacts DEF ClearHandler
  <2>1. mutex = Main /\ CallbackDiscipline /\ Ending
    BY <1>0, <2>0, Holder
  <2>2. /\ mutex' = Free /\ pc'[Main] = "idle" /\ handler' = FALSE
        /\ \A u \in Threads : u # Main => pc'[u] = pc[u]
        /\ UNCHANGED <<engine, capture>>
    BY <1>0, <1>6 DEF ClearHandler, Release, Goto, TypeOK
  <2>3. \A u \in Threads : pc[u] \notin StartSteps \cup StopSteps
    <3>1. \A u \in Threads : u # Main => pc[u] \notin Steps
      BY <2>1 DEF EngineInv, LockDiscipline
    <3> QED BY <2>0, <3>1, PointFacts DEF StartSteps, StopSteps
  <2>4. ~capturing
    BY <2>0, <2>1 DEF Ending
  <2>5. Gone /\ transport = Null /\ Silent
    BY <2>3, <2>4 DEF EngineInv, Resting
  <2>6. LockDiscipline'
    BY <1>0, <2>1, <2>2, FreeLock
  <2>7. CallbackDiscipline' /\ Resting'
    BY <2>2, <2>4, <2>5 DEF CallbackDiscipline, Resting, Gone, Silent, Emitters, engine, capture
  <2>8. BuildingAt(Main)' /\ StoppingAt(Main)'
    BY <2>2 DEF BuildingAt, StoppingAt, StartSteps, StopSteps
  <2>9. Ending'
    <3>1. \A c \in Clients : pc'[c] # "sending"
      <4>1. \A c \in Clients : c \in Threads /\ c # Main
        BY ThreadAssumption DEF Threads
      <4> QED BY <2>1, <2>2, <2>4, <4>1 DEF Ending
    <3> QED BY <2>2, <2>4, <3>1 DEF Ending, engine
  <2> QED BY <1>0, <2>1, <2>2, <2>6, <2>7, <2>8, <2>9, MoverSuffices
<1> QED BY <1>2, <1>3, <1>4, <1>5, <1>6 DEF MainStep

LEMMA StepInv == TypeOK /\ EngineInv /\ [Next]_vars => EngineInv'
<1> SUFFICES ASSUME TypeOK, EngineInv, [Next]_vars PROVE EngineInv'
  OBVIOUS
<1>1. CASE UNCHANGED vars
  BY <1>1 DEF vars, control, engine, capture, EngineInv, LockDiscipline, CallbackDiscipline,
              Resting, BuildingAt, StoppingAt, Ending, Built, Gone, Silent
<1>2. ASSUME NEW c \in Clients,
             Receive(c) \/ UnlockedHandler(c) \/ LockedHandler(c) \/ StartStep(c) \/ FinishStep(c)
      PROVE  EngineInv'
  BY <1>2, ReceiveInv, UnlockedHandlerInv, LockedHandlerInv, StartStepInv, FinishStepInv
<1>3. ASSUME NEW t \in Threads, StopStep(t) PROVE EngineInv'
  BY <1>3, StopStepInv
<1>4. ASSUME NEW e \in Emitters, Record(e) \/ Broadcast(e) PROVE EngineInv'
  BY <1>4, CallbackInv
<1>5. ASSUME NEW w \in Workers, Deliver(w) PROVE EngineInv'
  BY <1>5, DeliverInv
<1>6. CASE MainStep
  BY <1>6, MainStepInv
<1> QED BY <1>1, <1>2, <1>3, <1>4, <1>5, <1>6 DEF Next

\* The invariant of mutex_, the capture's parts and the callbacks holds in
\* every reachable state.
THEOREM Invariant == Spec => []EngineInv
<1>1. Init => TypeOK /\ EngineInv
  BY InitType, InitInv
<1>2. TypeOK /\ EngineInv /\ [Next]_vars => (TypeOK /\ EngineInv)'
  BY StepType, StepInv
<1> QED BY <1>1, <1>2, PTL DEF Spec

-----------------------------------------------------------------------------
(***************************************************************************)
(* What follows from it.                                                   *)
(***************************************************************************)
LEMMA CallbackIsServed == EngineInv => CallbackFindsItsCapture
<1> SUFFICES ASSUME EngineInv, NEW e \in Emitters, callback[e].at # "none"
             PROVE  pipeline = callback[e].run /\ recorder = callback[e].run
  BY DEF CallbackFindsItsCapture
<1>1. callback[e].run = runs /\ ~Silent
  BY DEF EngineInv, CallbackDiscipline, Silent
<1>2. CASE \A t \in Threads : pc[t] \notin StartSteps \cup StopSteps
  BY <1>1, <1>2 DEF EngineInv, Resting, Built
<1>3. CASE \E t \in Threads : pc[t] \in StartSteps \cup StopSteps
  <2>1. PICK t \in Threads : pc[t] \in StartSteps \cup StopSteps
    BY <1>3
  <2>2. BuildingAt(t) /\ StoppingAt(t)
    BY DEF EngineInv
  <2> QED BY <1>1, <2>1, <2>2 DEF BuildingAt, StoppingAt, StartSteps, StopSteps, Built
<1> QED BY <1>2, <1>3

\* A callback in progress finds the pipeline and the recorder of its own
\* capture alive: teardown and failed starts wait for the session first.
THEOREM CallbacksAreSafe == Spec => []CallbackFindsItsCapture
  BY CallbackIsServed, Invariant, PTL

\* With mutex_ free, an idle engine has nothing left of a capture, a
\* capturing one has all of it.
THEOREM RestIsConsistent == Spec => [](IdleIsQuiescent /\ CapturingIsComplete)
<1>1. EngineInv => IdleIsQuiescent /\ CapturingIsComplete
  BY NobodyInside DEF IdleIsQuiescent, CapturingIsComplete, Gone, Built, Silent
<1> QED BY <1>1, Invariant, PTL

\* The members of a destroyed controller are idle: a capture begun by a late
\* handler between the two shutdowns has been ended by the second.
THEOREM DestructionIsClean == Spec => []DestroyedIsQuiescent
<1>1. EngineInv => DestroyedIsQuiescent
  <2> SUFFICES ASSUME EngineInv, phase \in {"destroyed", "exited"}
               PROVE  /\ ~capturing /\ session = Null /\ transport = Null /\ ~handler
                      /\ \A e \in Emitters : callback[e].at = "none"
    BY DEF DestroyedIsQuiescent
  <2>1. mutex = Free /\ ~capturing /\ ~handler
    BY DEF EngineInv, Ending
  <2> QED BY <2>1, NobodyInside DEF Gone, Silent
<1> QED BY <1>1, Invariant, PTL

\* Only configure replaces config_, and it finds nothing of a capture that
\* could notice.
THEOREM ConfigIsFixed == Spec => ConfigFixedDuringCapture
<1> DEFINE Safe == /\ ~capturing /\ session = Null /\ transport = Null
                   /\ \A e \in Emitters : callback[e].at = "none"
<1>1. TypeOK /\ EngineInv /\ [Next]_vars => [config' # config => Safe]_vars
  <2> SUFFICES ASSUME TypeOK, EngineInv, Next, config' # config PROVE Safe
    BY DEF vars
  <2>1. PICK c \in Clients : HandleConfigure(c)
    BY DEF Next, Receive, UnlockedHandler, LockedHandler, StartStep, StopStep, FinishStep, MainStep,
           Record, Broadcast, Deliver, DropNoise, UnknownCommand, HandleListSerialPorts,
           HandleGetStatus, HandleStartCapture, HandleStopCapture, HandleSend, Refuse,
           MakeRecorder, BuildPipeline, StartTransport, SessionStarted, SessionFailed, Unwind,
           Rollback, StopSession, JoinSession, CloseTransport, DestroySession, ResetPipeline,
           ResetRecorder, BroadcastStatus, SendDone, Install, StopRequested, Shutdown,
           ClearHandler, StopServer, engine
  <2>2. mutex = Free
    BY <2>1 DEF HandleConfigure, Locked
  <2>3. ~capturing
    BY <2>1 DEF HandleConfigure, Refuse, engine
  <2> QED BY <2>2, <2>3, NobodyInside DEF Gone, Silent
<1> QED BY <1>1, TypeCorrect, Invariant, PTL DEF Spec, ConfigFixedDuringCapture

-----------------------------------------------------------------------------
(***************************************************************************)
(* EngineController implements EngineProtocol: whatever the threads, the   *)
(* locks and the callbacks do, each step of the engine process is a step   *)
(* of the protocol or changes nothing that a viewer could tell.            *)
(***************************************************************************)

\* How the steps of a handler show in the protocol's state.

LEMMA TruthValues ==
  /\ Owed \in BOOLEAN /\ Owed' \in BOOLEAN
  /\ Starting \in BOOLEAN /\ Starting' \in BOOLEAN
  BY DEF Owed, Starting

LEMMA ClientIsThread ==
  \A c \in Clients : c \in Threads /\ c \in Emitters /\ c # Main /\ c # Free
  BY ThreadAssumption DEF Threads, Emitters

LEMMA Moved ==
  ASSUME TypeOK, NEW t \in Threads, NEW p, Goto(t, p)
  PROVE  pc'[t] = p /\ \A u \in Threads : u # t => pc'[u] = pc[u]
  BY DEF TypeOK, Goto

\* With mutex_ free no status is due and no start is under way.
LEMMA NobodyOwes ==
  ASSUME EngineInv, mutex = Free
  PROVE  /\ ~Owed /\ ~Starting
         /\ ProtocolState = EngineStateNow
  <1>1. \A c \in Clients : pc[c] \notin Steps
    BY NobodyInside, ClientIsThread
  <1>2. ~Owed /\ ~Starting
    BY <1>1, PointFacts DEF Owed, Starting
  <1> QED BY <1>2 DEF ProtocolState, EngineStateNow

\* A client that is, or is about to be, inside mutex_ decides alone what is
\* owed and whether a start is under way.
LEMMA ClientMoves ==
  ASSUME TypeOK, EngineInv, NEW c \in Clients, NEW p, Goto(c, p), mutex \in {c, Free}
  PROVE  /\ Owed' <=> p = "status"
         /\ Starting' <=> p \in StartSteps
  <1>1. pc'[c] = p /\ \A u \in Threads : u # c => pc'[u] = pc[u]
    BY Moved, ClientIsThread
  <1>2. \A u \in Threads : u # c => pc'[u] \notin Steps
    BY <1>1, Outsiders, ClientIsThread
  <1>3. \A u \in Clients : u # c => pc'[u] # "status" /\ pc'[u] \notin StartSteps
    BY <1>2, PointFacts, ClientIsThread
  <1>4. Owed' <=> p = "status"
    BY <1>1, <1>3 DEF Owed
  <1>5. Starting' <=> p \in StartSteps
    BY <1>1, <1>3 DEF Starting
  <1> QED BY <1>4, <1>5

\* The same of where it comes from.
LEMMA ClientInside ==
  ASSUME TypeOK, EngineInv, NEW c \in Clients, pc[c] \in Steps
  PROVE  /\ mutex = c
         /\ Owed <=> pc[c] = "status"
         /\ Starting <=> pc[c] \in StartSteps
  <1>1. mutex = c
    BY Holder, ClientIsThread
  <1>2. \A u \in Clients : u # c => pc[u] \notin Steps
    BY <1>1, ClientIsThread DEF EngineInv, LockDiscipline
  <1>3. \A u \in Clients : u # c => pc[u] # "status" /\ pc[u] \notin StartSteps
    BY <1>2, PointFacts
  <1>4. Owed <=> pc[c] = "status"
    BY <1>3 DEF Owed
  <1>5. Starting <=> pc[c] \in StartSteps
    BY <1>3 DEF Starting
  <1> QED BY <1>1, <1>4, <1>5

\* Where threads that hold no lock go shows nowhere.
LEMMA NothingShows ==
  ASSUME \A c \in Clients : /\ pc'[c] = "status" <=> pc[c] = "status"
                            /\ pc'[c] \in StartSteps <=> pc[c] \in StartSteps
  PROVE  Owed' = Owed /\ Starting' = Starting
  <1>1. Owed' <=> Owed
    BY DEF Owed
  <1>2. Starting' <=> Starting
    BY DEF Starting
  <1> QED BY <1>1, <1>2, TruthValues

\* A step that touches neither the wire, the configuration, the number of
\* captures nor what the protocol's state is made of is a stutter.
LEMMA Stutter ==
  ASSUME UNCHANGED <<capturing, config, runs, wire>>,
         Owed' = Owed, Starting' = Starting
  PROVE  UNCHANGED Protocol!vars
  <1>1. ProtocolState' = ProtocolState
    BY DEF ProtocolState
  <1> QED BY <1>1 DEF Protocol!vars

-----------------------------------------------------------------------------
(* Each step of the engine as a step of the protocol. *)

\* The protocol's vocabulary is the controller's.
LEMMA Vocabulary ==
  /\ \A c, op, ok : Protocol!Result(c, op, ok) = Result(c, op, ok)
  /\ \A st, cfg : Protocol!Status(st, cfg) = Status(st, cfg)
  /\ \A c, st, cfg : Protocol!Report(c, st, cfg) = Report(c, st, cfg)
  /\ Protocol!EventMessage = EventMessage
  /\ Protocol!LockedOps = LockedOps /\ Protocol!UnlockedOps = UnlockedOps
  BY DEF Protocol!Result, Result, Protocol!Status, Status, Protocol!Report, Report,
         Protocol!EventMessage, EventMessage, Protocol!LockedOps, LockedOps,
         Protocol!UnlockedOps, UnlockedOps

\* A locked handler that only replies leaves the protocol's state alone.
LEMMA ReplyShows ==
  ASSUME TypeOK, EngineInv, NEW c \in Clients, mutex = Free, Goto(c, "idle"),
         UNCHANGED <<capturing, config, runs>>
  PROVE  /\ Protocol!Ready
         /\ UNCHANGED <<ProtocolState, config, Owed, runs>>
  <1>1. ~Owed /\ ~Starting /\ ProtocolState = EngineStateNow
    BY NobodyOwes
  <1>2. ~(Owed') /\ ~(Starting')
    BY ClientMoves, PointFacts DEF StartSteps
  <1>3. Owed' = Owed /\ Starting' = Starting
    BY <1>1, <1>2, TruthValues
  <1>4. ProtocolState' = ProtocolState
    BY <1>3 DEF ProtocolState
  <1> QED BY <1>1, <1>3, <1>4 DEF Protocol!Ready, EngineStateNow

LEMMA RefuseIsRefuse ==
  ASSUME TypeOK, EngineInv, NEW c \in Clients, NEW op \in LockedOps, mutex = Free,
         Refuse(c, op),
         op = "start_capture" => capturing \/ config = NoConfig,
         op = "stop_capture" => ~capturing,
         op # "get_status"
  PROVE  Protocol!Refuse(c, op)
  <1>1. Goto(c, "idle") /\ Send(Result(c, op, FALSE)) /\ UNCHANGED <<capturing, config, runs>>
    BY DEF Refuse, Reply, engine
  <1>2. Protocol!Ready /\ UNCHANGED <<ProtocolState, config, Owed, runs>>
    BY <1>1, ReplyShows
  <1>3. ProtocolState = EngineStateNow
    BY NobodyOwes
  <1>4. Protocol!Say(Protocol!Result(c, op, FALSE))
    BY <1>1, Vocabulary DEF Send, Protocol!Say
  <1>5. \/ op \in {"configure", "send"}
        \/ op = "start_capture" /\ (ProtocolState = "capturing" \/ config = NoConfig)
        \/ op = "stop_capture" /\ ProtocolState = "idle"
    BY <1>3 DEF LockedOps, EngineStateNow
  <1> QED BY <1>2, <1>4, <1>5 DEF Protocol!Refuse

LEMMA UnlockedHandlerMaps ==
  ASSUME TypeOK, NEW c \in Clients, UnlockedHandler(c)
  PROVE  \/ \E op \in UnlockedOps, ok \in BOOLEAN : Protocol!Answer(c, op, ok)
         \/ UNCHANGED Protocol!vars
  <1>1. pc[c] = "called" /\ Goto(c, "idle") /\ UNCHANGED <<capturing, config, runs>>
    BY DEF UnlockedHandler, DropNoise, UnknownCommand, HandleListSerialPorts, Called, Reply, engine
  <1>2. pc'[c] = "idle" /\ \A u \in Threads : u # c => pc'[u] = pc[u]
    BY <1>1, Moved, ClientIsThread
  <1>3. Owed' = Owed /\ Starting' = Starting
    BY <1>1, <1>2, NothingShows, ClientIsThread DEF StartSteps
  <1>4. ProtocolState' = ProtocolState
    BY <1>1, <1>3 DEF ProtocolState
  <1>5. CASE DropNoise(c)
    BY <1>1, <1>3, <1>5, Stutter DEF DropNoise
  <1>6. ASSUME NEW op \in UnlockedOps, NEW ok \in BOOLEAN, op = "unknown" => ~ok,
               Reply(c, Result(c, op, ok))
        PROVE  Protocol!Answer(c, op, ok)
    BY <1>1, <1>3, <1>4, <1>6, Vocabulary DEF Reply, Send, Protocol!Answer, Protocol!Say
  <1>7. CASE UnknownCommand(c)
    <2>1. Reply(c, Result(c, "unknown", FALSE)) /\ "unknown" \in UnlockedOps
      BY <1>7 DEF UnknownCommand, UnlockedOps
    <2>2. Protocol!Answer(c, "unknown", FALSE)
      BY <1>6, <2>1
    <2> QED BY <2>1, <2>2
  <1>8. CASE HandleListSerialPorts(c)
    <2>1. PICK ok \in BOOLEAN : Reply(c, Result(c, "list_serial_ports", ok))
      BY <1>8 DEF HandleListSerialPorts
    <2>2. "list_serial_ports" \in UnlockedOps
      BY DEF UnlockedOps
    <2>3. Protocol!Answer(c, "list_serial_ports", ok)
      BY <1>6, <2>1, <2>2
    <2> QED BY <2>2, <2>3
  <1> QED BY <1>5, <1>7, <1>8 DEF UnlockedHandler

LEMMA GetStatusMaps ==
  ASSUME TypeOK, EngineInv, NEW c \in Clients, HandleGetStatus(c)
  PROVE  Protocol!GetStatus(c)
  <1>1. /\ mutex = Free /\ Goto(c, "idle") /\ UNCHANGED <<capturing, config, runs>>
        /\ wire' = Append(wire, Report(c, EngineStateNow, config))
    BY DEF HandleGetStatus, Locked, Reply, Send, engine, EngineStateNow
  <1>2. Protocol!Ready /\ UNCHANGED <<ProtocolState, config, Owed, runs>>
    BY <1>1, ReplyShows
  <1>3. ProtocolState = EngineStateNow
    BY <1>1, NobodyOwes
  <1>4. Protocol!Say(Protocol!Report(c, ProtocolState, config))
    BY <1>1, <1>3, Vocabulary DEF Protocol!Say
  <1> QED BY <1>2, <1>4 DEF Protocol!GetStatus

LEMMA ConfigureMaps ==
  ASSUME TypeOK, EngineInv, NEW c \in Clients, HandleConfigure(c)
  PROVE  \/ \E cfg \in Configs : Protocol!Configure(c, cfg)
         \/ Protocol!Refuse(c, "configure")
  <1>1. mutex = Free /\ cmd[c].op = "configure" /\ cmd[c] \in Command
    BY DEF HandleConfigure, Locked, Called, TypeOK
  <1>2. CASE capturing \/ cmd[c].arg = "Malformed"
    BY <1>1, <1>2, RefuseIsRefuse DEF HandleConfigure, LockedOps
  <1>3. CASE ~(capturing \/ cmd[c].arg = "Malformed")
    <2>1. cmd[c].arg \in Configs
      BY <1>1, <1>3 DEF Command, LockedOps, UnlockedOps
    <2>2. /\ Goto(c, "status") /\ UNCHANGED <<capturing, runs>>
          /\ config' = cmd[c].arg
          /\ wire' = Append(wire, Result(c, "configure", TRUE))
      BY <1>3 DEF HandleConfigure, Send
    <2>3. ~Owed /\ ~Starting /\ ProtocolState = "idle"
      BY <1>1, <1>3, NobodyOwes DEF EngineStateNow
    <2>4. Owed' /\ ~(Starting')
      BY <1>1, <2>2, ClientMoves DEF StartSteps
    <2>5. ProtocolState' = ProtocolState
      BY <2>2, <2>3, <2>4 DEF ProtocolState
    <2>6. Protocol!Say(Protocol!Result(c, "configure", TRUE))
      BY <2>2, Vocabulary DEF Protocol!Say
    <2>7. Protocol!Configure(c, cmd[c].arg)
      BY <2>2, <2>3, <2>4, <2>5, <2>6, TruthValues DEF Protocol!Configure, Protocol!Ready
    <2> QED BY <2>1, <2>7
  <1> QED BY <1>2, <1>3

LEMMA StartCaptureMaps ==
  ASSUME TypeOK, EngineInv, NEW c \in Clients, HandleStartCapture(c)
  PROVE  Protocol!BeginStart \/ Protocol!Refuse(c, "start_capture")
  <1>1. mutex = Free
    BY DEF HandleStartCapture, Locked
  <1>2. CASE capturing \/ config = NoConfig
    BY <1>1, <1>2, RefuseIsRefuse DEF HandleStartCapture, LockedOps
  <1>3. CASE ~(capturing \/ config = NoConfig)
    <2>1. /\ Goto(c, "make_recorder") /\ UNCHANGED <<capturing, config, wire>>
          /\ runs' = runs + 1
      BY <1>3 DEF HandleStartCapture
    <2>2. ~Owed /\ ~Starting /\ ProtocolState = "idle"
      BY <1>1, <1>3, NobodyOwes DEF EngineStateNow
    <2>3. ~(Owed') /\ Starting'
      BY <1>1, <2>1, ClientMoves DEF StartSteps
    <2>4. ProtocolState' = "starting"
      BY <1>3, <2>1, <2>3 DEF ProtocolState
    <2> QED BY <1>3, <2>1, <2>2, <2>3, <2>4, TruthValues DEF Protocol!BeginStart, Protocol!Ready
  <1> QED BY <1>2, <1>3

\* stop_capture and send take mutex_ and have nothing to show yet.
LEMMA StopCaptureMaps ==
  ASSUME TypeOK, EngineInv, NEW c \in Clients, HandleStopCapture(c)
  PROVE  Protocol!Refuse(c, "stop_capture") \/ UNCHANGED Protocol!vars
  <1>1. mutex = Free
    BY DEF HandleStopCapture, Locked
  <1>2. CASE ~capturing
    BY <1>1, <1>2, RefuseIsRefuse DEF HandleStopCapture, LockedOps
  <1>3. CASE capturing
    <2>1. Goto(c, "stop_session") /\ UNCHANGED <<capturing, config, runs, wire>>
      BY <1>3 DEF HandleStopCapture, engine
    <2>2. ~Owed /\ ~Starting /\ ~(Owed') /\ ~(Starting')
      BY <1>1, <2>1, NobodyOwes, ClientMoves DEF StartSteps
    <2> QED BY <2>1, <2>2, TruthValues, Stutter
  <1> QED BY <1>2, <1>3

LEMMA SendMaps ==
  ASSUME TypeOK, EngineInv, NEW c \in Clients, HandleSend(c)
  PROVE  Protocol!Refuse(c, "send") \/ UNCHANGED Protocol!vars
  <1>1. mutex = Free
    BY DEF HandleSend, Locked
  <1>2. CASE Refuse(c, "send")
    BY <1>1, <1>2, RefuseIsRefuse DEF LockedOps
  <1>3. CASE ~Refuse(c, "send")
    <2>1. Goto(c, "sending") /\ UNCHANGED <<capturing, config, runs, wire>>
      BY <1>3 DEF HandleSend, engine
    <2>2. ~Owed /\ ~Starting /\ ~(Owed') /\ ~(Starting')
      BY <1>1, <2>1, NobodyOwes, ClientMoves DEF StartSteps
    <2> QED BY <2>1, <2>2, TruthValues, Stutter
  <1> QED BY <1>2, <1>3

\* Building the capture is one long "starting".
LEMMA BuildingIsStutter ==
  ASSUME TypeOK, EngineInv, NEW c \in Clients, NEW p \in StartSteps,
         pc[c] \in StartSteps, Goto(c, p), UNCHANGED <<capturing, config, runs, wire>>
  PROVE  UNCHANGED Protocol!vars
  <1>1. mutex = c /\ ~Owed /\ Starting
    BY ClientInside, PointFacts DEF StartSteps
  <1>2. ~(Owed') /\ Starting'
    BY <1>1, ClientMoves DEF StartSteps
  <1> QED BY <1>1, <1>2, TruthValues, Stutter

LEMMA SessionStartedMaps ==
  ASSUME TypeOK, EngineInv, NEW c \in Clients, SessionStarted(c)
  PROVE  Protocol!Started(c)
  <1>1. /\ pc[c] \in StartSteps /\ pc[c] = "await_start" /\ Goto(c, "status")
        /\ capturing' = TRUE /\ UNCHANGED <<config, runs>>
        /\ wire' = Append(wire, Result(c, "start_capture", TRUE))
    BY DEF SessionStarted, StartSteps, Send
  <1>2. mutex = c /\ Starting /\ ~capturing
    BY <1>1, ClientInside, Holder, PointFacts, ClientIsThread DEF BuildingAt
  <1>3. Owed'
    BY <1>1, <1>2, ClientMoves
  <1>4. ProtocolState = "starting" /\ ProtocolState' = "capturing"
    BY <1>1, <1>2 DEF ProtocolState
  <1>5. Protocol!Say(Protocol!Result(c, "start_capture", TRUE))
    BY <1>1, Vocabulary DEF Protocol!Say
  <1> QED BY <1>1, <1>3, <1>4, <1>5, TruthValues DEF Protocol!Started

LEMMA RollbackMaps ==
  ASSUME TypeOK, EngineInv, NEW c \in Clients, Rollback(c)
  PROVE  Protocol!StartFailed(c)
  <1>1. /\ pc[c] \in StartSteps /\ pc[c] = "rollback" /\ Goto(c, "idle")
        /\ UNCHANGED <<capturing, config, runs>>
        /\ wire' = Append(wire, Result(c, "start_capture", FALSE))
    BY DEF Rollback, StartSteps, Reply, Send
  <1>2. mutex = c /\ Starting /\ ~Owed /\ ~capturing
    BY <1>1, ClientInside, Holder, PointFacts, ClientIsThread DEF BuildingAt
  <1>3. ~(Owed') /\ ~(Starting')
    BY <1>1, <1>2, ClientMoves DEF StartSteps
  <1>4. ProtocolState = "starting" /\ ProtocolState' = "idle"
    BY <1>1, <1>2, <1>3 DEF ProtocolState
  <1>5. Protocol!Say(Protocol!Result(c, "start_capture", FALSE))
    BY <1>1, Vocabulary DEF Protocol!Say
  <1> QED BY <1>1, <1>2, <1>3, <1>4, <1>5, TruthValues DEF Protocol!StartFailed

LEMMA StartStepMaps ==
  ASSUME TypeOK, EngineInv, NEW c \in Clients, StartStep(c)
  PROVE  Protocol!Started(c) \/ Protocol!StartFailed(c) \/ UNCHANGED Protocol!vars
  <1> USE DEF engine
  <1>1. CASE MakeRecorder(c)
    <2>1. /\ pc[c] = "make_recorder" /\ UNCHANGED <<capturing, config, runs, wire>>
          /\ Goto(c, "build_pipeline") \/ Goto(c, "rollback")
      BY <1>1 DEF MakeRecorder
    <2> QED BY <2>1, BuildingIsStutter DEF StartSteps
  <1>2. CASE BuildPipeline(c)
    <2>1. /\ pc[c] = "build_pipeline" /\ UNCHANGED <<capturing, config, runs, wire>>
          /\ Goto(c, "start_transport") \/ Goto(c, "rollback")
      BY <1>2 DEF BuildPipeline
    <2> QED BY <2>1, BuildingIsStutter DEF StartSteps
  <1>3. CASE StartTransport(c)
    <2>1. /\ pc[c] = "start_transport" /\ UNCHANGED <<capturing, config, runs, wire>>
          /\ Goto(c, "await_start")
      BY <1>3 DEF StartTransport
    <2> QED BY <2>1, BuildingIsStutter DEF StartSteps
  <1>4. CASE SessionStarted(c)
    BY <1>4, SessionStartedMaps
  <1>5. CASE SessionFailed(c)
    <2>1. /\ pc[c] = "await_start" /\ UNCHANGED <<capturing, config, runs, wire>>
          /\ Goto(c, "unwind")
      BY <1>5 DEF SessionFailed
    <2> QED BY <2>1, BuildingIsStutter DEF StartSteps
  <1>6. CASE Unwind(c)
    <2>1. /\ pc[c] = "unwind" /\ UNCHANGED <<capturing, config, runs, wire>>
          /\ Goto(c, "rollback")
      BY <1>6 DEF Unwind
    <2> QED BY <2>1, BuildingIsStutter DEF StartSteps
  <1>7. CASE Rollback(c)
    BY <1>7, RollbackMaps
  <1> QED BY <1>1, <1>2, <1>3, <1>4, <1>5, <1>6, <1>7 DEF StartStep

\* Tearing the capture down shows nothing before capturing_ is cleared,
\* whichever thread does it.
LEMMA StoppingIsStutter ==
  ASSUME TypeOK, EngineInv, NEW t \in Threads, NEW p \in StopSteps,
         pc[t] \in StopSteps, Goto(t, p), UNCHANGED <<capturing, config, runs, wire>>
  PROVE  UNCHANGED Protocol!vars
  <1>1. pc'[t] = p /\ \A u \in Threads : u # t => pc'[u] = pc[u]
    BY Moved
  <1>2. \A q \in StopSteps : q # "status" /\ q \notin StartSteps
    BY DEF StopSteps, StartSteps
  <1>3. Owed' = Owed /\ Starting' = Starting
    BY <1>1, <1>2, NothingShows, ClientIsThread
  <1> QED BY <1>3, Stutter

LEMMA ResetRecorderMaps ==
  ASSUME TypeOK, EngineInv, NEW t \in Threads, ResetRecorder(t)
  PROVE  IF t = Main THEN Protocol!Halt ELSE Protocol!Stopped(t)
  <1>1. /\ pc[t] \in StopSteps /\ pc[t] = "reset_recorder"
        /\ capturing' = FALSE /\ UNCHANGED <<config, runs>>
    BY DEF ResetRecorder, StopSteps
  <1>2. mutex = t /\ capturing
    BY <1>1, Holder, PointFacts DEF StoppingAt
  <1>3. ProtocolState = "capturing"
    BY <1>2 DEF ProtocolState
  <1>4. \A c \in Clients : c # t => pc[c] \notin Steps
    BY <1>2, ClientIsThread DEF EngineInv, LockDiscipline
  <1>5. \A c \in Clients : pc[c] # "status" /\ pc[c] \notin StartSteps
    BY <1>1, <1>4, PointFacts DEF StartSteps
  <1>6. ~Owed /\ ~Starting
    BY <1>5 DEF Owed, Starting
  <1>7. Protocol!Ready
    BY <1>3, <1>6 DEF Protocol!Ready
  <1>8. CASE t = Main
    <2>1. Goto(t, "clear_handler") /\ wire' = wire
      BY <1>8 DEF ResetRecorder
    <2>2. \A c \in Clients : pc'[c] = pc[c]
      BY <1>8, <2>1, Moved, ClientIsThread
    <2>3. Owed' = Owed /\ Starting' = Starting
      BY <2>2, NothingShows
    <2>4. ProtocolState' = "idle"
      BY <1>1, <1>6, <2>3 DEF ProtocolState
    <2> QED BY <1>1, <1>3, <1>7, <1>8, <2>1, <2>3, <2>4 DEF Protocol!Halt
  <1>9. CASE t # Main
    <2>1. t \in Clients
      BY <1>9 DEF Threads
    <2>2. Goto(t, "status") /\ wire' = Append(wire, Result(t, "stop_capture", TRUE))
      BY <1>9 DEF ResetRecorder, Send
    <2>3. Owed' /\ ~(Starting')
      BY <1>2, <2>1, <2>2, ClientMoves DEF StartSteps
    <2>4. ProtocolState' = "idle"
      BY <1>1, <2>3 DEF ProtocolState
    <2>5. Protocol!Say(Protocol!Result(t, "stop_capture", TRUE))
      BY <2>2, Vocabulary DEF Protocol!Say
    <2> QED BY <1>1, <1>3, <1>7, <1>9, <2>3, <2>4, <2>5, TruthValues DEF Protocol!Stopped
  <1> QED BY <1>8, <1>9

LEMMA StopStepMaps ==
  ASSUME TypeOK, EngineInv, NEW t \in Threads, StopStep(t)
  PROVE  \/ \E c \in Clients : Protocol!Stopped(c)
         \/ Protocol!Halt \/ UNCHANGED Protocol!vars
  <1> USE DEF engine
  <1>1. CASE StopSession(t)
    <2>1. /\ pc[t] = "stop_session" /\ UNCHANGED <<capturing, config, runs, wire>>
          /\ Goto(t, "destroy_session") \/ Goto(t, "join_session")
      BY <1>1 DEF StopSession
    <2> QED BY <2>1, StoppingIsStutter DEF StopSteps
  <1>2. CASE JoinSession(t)
    <2>1. /\ pc[t] = "join_session" /\ UNCHANGED <<capturing, config, runs, wire>>
          /\ Goto(t, "destroy_session")
      BY <1>2 DEF JoinSession
    <2> QED BY <2>1, StoppingIsStutter DEF StopSteps
  <1>3. CASE CloseTransport(t)
    <2>1. UNCHANGED <<pc, capturing, config, runs, wire>>
      BY <1>3 DEF CloseTransport, control
    <2>2. Owed' = Owed /\ Starting' = Starting
      BY <2>1, NothingShows
    <2> QED BY <2>1, <2>2, Stutter
  <1>4. CASE DestroySession(t)
    <2>1. /\ pc[t] = "destroy_session" /\ UNCHANGED <<capturing, config, runs, wire>>
          /\ Goto(t, "reset_pipeline")
      BY <1>4 DEF DestroySession
    <2> QED BY <2>1, StoppingIsStutter DEF StopSteps
  <1>5. CASE ResetPipeline(t)
    <2>1. /\ pc[t] = "reset_pipeline" /\ UNCHANGED <<capturing, config, runs, wire>>
          /\ Goto(t, "reset_recorder")
      BY <1>5 DEF ResetPipeline
    <2> QED BY <2>1, StoppingIsStutter DEF StopSteps
  <1>6. CASE ResetRecorder(t)
    BY <1>6, ResetRecorderMaps DEF Threads
  <1> QED BY <1>1, <1>2, <1>3, <1>4, <1>5, <1>6 DEF StopStep

LEMMA FinishStepMaps ==
  ASSUME TypeOK, EngineInv, NEW c \in Clients, FinishStep(c)
  PROVE  Protocol!Announce \/ Protocol!Sent(c)
  <1>0. /\ pc[c] \in {"status", "sending"} /\ Goto(c, "idle")
        /\ UNCHANGED <<capturing, config, runs>>
    BY DEF FinishStep, BroadcastStatus, SendDone, Reply, engine
  <1>1. mutex = c /\ ~Starting /\ (Owed <=> pc[c] = "status")
    BY <1>0, ClientInside, PointFacts DEF StartSteps
  <1>2. ~(Owed') /\ ~(Starting')
    BY <1>0, <1>1, ClientMoves DEF StartSteps
  <1>3. ProtocolState = EngineStateNow /\ ProtocolState' = ProtocolState
    BY <1>0, <1>1, <1>2 DEF ProtocolState, EngineStateNow
  <1>4. CASE BroadcastStatus(c)
    <2>1. Owed
      BY <1>1, <1>4 DEF BroadcastStatus
    <2>2. wire' = Append(wire, Status(EngineStateNow, config))
      BY <1>4 DEF BroadcastStatus, Send, EngineStateNow
    <2>3. Protocol!Say(Protocol!Status(ProtocolState, config))
      BY <1>3, <2>2, Vocabulary DEF Protocol!Say
    <2> QED BY <1>0, <1>2, <1>3, <2>1, <2>3, TruthValues DEF Protocol!Announce
  <1>5. CASE SendDone(c)
    <2>1. pc[c] = "sending" /\ wire' = Append(wire, Result(c, "send", TRUE))
      BY <1>5 DEF SendDone, Reply, Send
    <2>2. capturing /\ ~Owed
      BY <1>1, <2>1, Holder, PointFacts, ClientIsThread DEF Ending
    <2>3. ProtocolState = "capturing" /\ Owed' = Owed
      BY <1>2, <2>2, TruthValues DEF ProtocolState
    <2>4. Protocol!Say(Protocol!Result(c, "send", TRUE))
      BY <2>1, Vocabulary DEF Protocol!Say
    <2> QED BY <1>0, <1>3, <2>2, <2>3, <2>4 DEF Protocol!Sent, Protocol!Ready
  <1> QED BY <1>4, <1>5 DEF FinishStep

\* A callback in progress belongs to the current capture, which is being
\* built or has not been taken down yet.
LEMMA CallbackMeansCapture ==
  ASSUME TypeOK, EngineInv, NEW e \in Emitters, callback[e].at # "none"
  PROVE  ProtocolState # "idle" /\ callback[e].run = runs
  <1>1. callback[e].run = runs /\ ~Silent
    BY DEF EngineInv, CallbackDiscipline, Silent
  <1>2. SUFFICES ASSUME ~capturing, ~Starting PROVE FALSE
    BY <1>1 DEF ProtocolState
  <1>3. \A t \in Threads : pc[t] \notin StopSteps
    BY <1>2 DEF EngineInv, StoppingAt
  <1>4. \A t \in Threads : pc[t] \notin StartSteps
    <2>1. pc[Main] \notin StartSteps
      BY DEF EngineInv, LockDiscipline, StartSteps, StopSteps
    <2> QED BY <1>2, <2>1 DEF Starting, Threads
  <1> QED BY <1>1, <1>2, <1>3, <1>4 DEF EngineInv, Resting

LEMMA CallbackMaps ==
  ASSUME TypeOK, EngineInv, NEW e \in Emitters, Record(e) \/ Broadcast(e)
  PROVE  Protocol!Emit \/ UNCHANGED Protocol!vars
  <1>0. UNCHANGED <<pc, capturing, config, runs>>
    BY DEF Record, Broadcast, control, engine
  <1>1. Owed' = Owed /\ Starting' = Starting
    BY <1>0, NothingShows
  <1>2. ProtocolState' = ProtocolState
    BY <1>0, <1>1 DEF ProtocolState
  <1>3. CASE Record(e)
    BY <1>0, <1>1, <1>3, Stutter DEF Record
  <1>4. CASE Broadcast(e)
    <2> DEFINE m == Event(callback[e].run, callback[e].n)
    <2>1. callback[e].at # "none" /\ wire' = Append(wire, m)
      BY <1>4 DEF Broadcast, Send
    <2>2. ProtocolState # "idle" /\ callback[e].run = runs
      BY <2>1, CallbackMeansCapture
    <2>3. callback[e].run \in Nat /\ callback[e].n \in Nat
      BY DEF TypeOK
    <2>4. m \in EventMessage /\ m.run = runs
      BY <2>2, <2>3 DEF Event, EventMessage
    <2>5. Len(wire) + 1 \in DOMAIN wire' /\ wire'[Len(wire) + 1] = m
      BY <2>1 DEF TypeOK
    <2> HIDE DEF m
    <2>6. \E i \in DOMAIN wire' : /\ wire'[i] \in Protocol!EventMessage
                                  /\ wire'[i].run = runs
                                  /\ wire' = Append(wire, wire'[i])
      BY <2>1, <2>4, <2>5, Vocabulary
    <2> QED BY <1>0, <1>1, <1>2, <2>2, <2>6 DEF Protocol!Emit
  <1> QED BY <1>3, <1>4

LEMMA MainStepMaps ==
  ASSUME TypeOK, MainStep
  PROVE  UNCHANGED Protocol!vars
  <1>1. /\ UNCHANGED <<capturing, config, runs, wire>>
        /\ \/ pc' = pc
           \/ Goto(Main, "stop_session") \/ Goto(Main, "clear_handler") \/ Goto(Main, "idle")
    BY DEF MainStep, Install, StopRequested, Shutdown, ClearHandler, StopServer, engine
  <1>2. \A c \in Clients : pc'[c] = pc[c]
    BY <1>1, ClientIsThread DEF TypeOK, Goto
  <1>3. Owed' = Owed /\ Starting' = Starting
    BY <1>2, NothingShows
  <1> QED BY <1>1, <1>3, Stutter

LEMMA OutsideMaps ==
  ASSUME TypeOK, (\E c \in Clients : Receive(c)) \/ (\E w \in Workers : Deliver(w))
  PROVE  UNCHANGED Protocol!vars
  <1>1. UNCHANGED <<capturing, config, runs, wire>>
    BY DEF Receive, Deliver, engine
  <1>2. \/ pc' = pc
        \/ \E c \in Clients : pc[c] = "idle" /\ Goto(c, "called")
    BY DEF Receive, Deliver, control
  <1>3. \A c \in Clients : \/ pc'[c] = pc[c]
                           \/ pc[c] = "idle" /\ pc'[c] = "called"
    BY <1>2, ClientIsThread, Moved
  <1>4. Owed' = Owed /\ Starting' = Starting
    BY <1>3, NothingShows DEF StartSteps
  <1> QED BY <1>1, <1>4, Stutter

LEMMA StepMaps == TypeOK /\ EngineInv /\ [Next]_vars => [Protocol!Next]_(Protocol!vars)
  <1> SUFFICES ASSUME TypeOK, EngineInv, [Next]_vars
               PROVE  Protocol!Next \/ UNCHANGED Protocol!vars
    OBVIOUS
  <1>1. CASE UNCHANGED vars
    <2>1. UNCHANGED <<pc, capturing, config, runs, wire>>
      BY <1>1 DEF vars, control, engine
    <2>2. Owed' = Owed /\ Starting' = Starting
      BY <2>1, NothingShows
    <2> QED BY <2>1, <2>2, Stutter
  <1>2. ASSUME NEW c \in Clients, Receive(c) PROVE UNCHANGED Protocol!vars
    BY <1>2, OutsideMaps
  <1>3. ASSUME NEW c \in Clients, UnlockedHandler(c)
        PROVE  Protocol!Next \/ UNCHANGED Protocol!vars
    BY <1>3, UnlockedHandlerMaps, Vocabulary DEF Protocol!Next
  <1>4. ASSUME NEW c \in Clients, LockedHandler(c)
        PROVE  Protocol!Next \/ UNCHANGED Protocol!vars
    <2>1. {"configure", "start_capture", "stop_capture", "send"} \subseteq Protocol!LockedOps
      BY Vocabulary DEF LockedOps
    <2> QED BY <1>4, <2>1, GetStatusMaps, ConfigureMaps, StartCaptureMaps, StopCaptureMaps, SendMaps
            DEF LockedHandler, Protocol!Next
  <1>5. ASSUME NEW c \in Clients, StartStep(c)
        PROVE  Protocol!Next \/ UNCHANGED Protocol!vars
    BY <1>5, StartStepMaps DEF Protocol!Next
  <1>6. ASSUME NEW c \in Clients, FinishStep(c)
        PROVE  Protocol!Next
    BY <1>6, FinishStepMaps DEF Protocol!Next
  <1>7. ASSUME NEW t \in Threads, StopStep(t)
        PROVE  Protocol!Next \/ UNCHANGED Protocol!vars
    BY <1>7, StopStepMaps DEF Protocol!Next
  <1>8. ASSUME NEW e \in Emitters, Record(e) \/ Broadcast(e)
        PROVE  Protocol!Next \/ UNCHANGED Protocol!vars
    BY <1>8, CallbackMaps DEF Protocol!Next
  <1>9. ASSUME NEW w \in Workers, Deliver(w) PROVE UNCHANGED Protocol!vars
    BY <1>9, OutsideMaps
  <1>10. CASE MainStep
    BY <1>10, MainStepMaps
  <1> QED BY <1>1, <1>2, <1>3, <1>4, <1>5, <1>6, <1>7, <1>8, <1>9, <1>10 DEF Next

LEMMA InitMaps == Init => Protocol!Init
  <1> SUFFICES ASSUME Init PROVE Protocol!Init
    OBVIOUS
  <1>1. \A c \in Clients : pc[c] = "idle"
    BY ClientIsThread DEF Init
  <1>2. Owed = FALSE /\ Starting = FALSE
    BY <1>1 DEF Owed, Starting, StartSteps
  <1> QED BY <1>2 DEF Init, Protocol!Init, ProtocolState

-----------------------------------------------------------------------------
\* The engine process implements the protocol: for every number of viewers and
\* of callback threads, commands take effect one at a time, a change is
\* followed by its status before the next command, and events flow only while
\* a capture is being started or runs.
THEOREM Refinement == Spec => ImplementsProtocol
  BY InitMaps, StepMaps, TypeCorrect, Invariant, PTL
     DEF Spec, ImplementsProtocol, Protocol!Spec
=============================================================================
