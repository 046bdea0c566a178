------------------------ MODULE EngineHistoryProofs ------------------------
(***************************************************************************)
(* Theorems about what EngineController has sent and written: the order of *)
(* the viewers' messages, the answers, the status broadcasts and the log.  *)
(***************************************************************************)
EXTENDS EngineProofs, FiniteSetTheorems

USE DEF Main, Free, Null

-----------------------------------------------------------------------------
(* Sequences that only grow. *)

LEMMA AppendFacts ==
  ASSUME NEW T, NEW s \in Seq(T), NEW m, NEW t, t = Append(s, m)
  PROVE  /\ DOMAIN t = DOMAIN s \cup {Len(s) + 1}
         /\ Len(s) + 1 \notin DOMAIN s
         /\ t[Len(s) + 1] = m
         /\ \A i \in DOMAIN s : i \in Nat /\ i < Len(s) + 1 /\ 1 <= i /\ t[i] = s[i]
         /\ Len(s) \in Nat
  OBVIOUS

LEMMA Kinds ==
  /\ \A c, op, ok : ~IsEvent(Result(c, op, ok)) /\ ~IsStatus(Result(c, op, ok))
  /\ \A c, st, cfg : ~IsEvent(Report(c, st, cfg)) /\ ~IsStatus(Report(c, st, cfg))
  /\ \A st, cfg : ~IsEvent(Status(st, cfg)) /\ IsStatus(Status(st, cfg))
                  /\ Status(st, cfg).engine_state = st
  /\ \A run, n : IsEvent(Event(run, n)) /\ ~IsStatus(Event(run, n)) /\ Event(run, n).run = run
  BY DEF IsEvent, IsStatus, Result, Report, Status, Event

LEMMA EventsAreNumbered ==
  ASSUME TypeOK
  PROVE  /\ \A i \in DOMAIN wire : IsEvent(wire[i]) => wire[i].run \in Nat
         /\ \A i \in DOMAIN log : log[i].run \in Nat
  <1>1. \A i \in DOMAIN wire : wire[i] \in Message
    BY DEF TypeOK
  <1>2. \A m \in Message : IsEvent(m) => m.run \in Nat
    BY DEF Message, IsEvent, EventMessage
  <1>3. \A i \in DOMAIN log : log[i] \in LogLine
    BY DEF TypeOK
  <1>4. \A l \in LogLine : l.run \in Nat
    BY DEF LogLine, EventMessage
  <1> QED BY <1>1, <1>2, <1>3, <1>4

-----------------------------------------------------------------------------
(* The order of the events the viewers see: an argument about the protocol *)
(* alone, which the engine inherits through the refinement.                *)

\* What a step of the protocol can do to the wire and to the capture.
Keeps == runs' = runs /\ (ProtocolState' # "idle" => ProtocolState # "idle")

SaysNothing == wire' = wire /\ (Keeps \/ (runs' = runs + 1 /\ ProtocolState = "idle"))

SaysEvent ==
  \E m : /\ wire' = Append(wire, m)
         /\ IsEvent(m) /\ ~IsStatus(m) /\ m.run = runs
         /\ ProtocolState # "idle" /\ Keeps

SaysOther ==
  \E m : /\ wire' = Append(wire, m)
         /\ ~IsEvent(m) /\ Keeps
         /\ (IsStatus(m) /\ m.engine_state = "idle") => ProtocolState' = "idle"

LEMMA ProtocolSays ==
  ASSUME [Protocol!Next]_(Protocol!vars)
  PROVE  SaysNothing \/ SaysEvent \/ SaysOther
  <1>1. CASE UNCHANGED Protocol!vars
    BY <1>1 DEF Protocol!vars, SaysNothing, Keeps
  <1>2. ASSUME NEW m, Protocol!Say(m), ~IsEvent(m), Keeps,
               (IsStatus(m) /\ m.engine_state = "idle") => ProtocolState' = "idle"
        PROVE  SaysOther
    BY <1>2 DEF Protocol!Say, SaysOther
  <1>3. ASSUME NEW c, NEW op, NEW ok, Protocol!Say(Protocol!Result(c, op, ok)), Keeps
        PROVE  SaysOther
    BY <1>2, <1>3, Kinds, Vocabulary
  <1>4. ASSUME NEW c \in Clients, NEW cfg, Protocol!Configure(c, cfg) PROVE SaysOther
    BY <1>3, <1>4 DEF Protocol!Configure, Keeps
  <1>5. ASSUME NEW c \in Clients,
               Protocol!Started(c) \/ Protocol!StartFailed(c) \/ Protocol!Stopped(c) \/ Protocol!Sent(c)
        PROVE  SaysOther
    BY <1>3, <1>5
       DEF Protocol!Started, Protocol!StartFailed, Protocol!Stopped, Protocol!Sent, Keeps
  <1>6. ASSUME NEW c \in Clients, NEW op, Protocol!Refuse(c, op) PROVE SaysOther
    BY <1>3, <1>6 DEF Protocol!Refuse, Keeps
  <1>7. ASSUME NEW c \in Clients, NEW op, NEW ok, Protocol!Answer(c, op, ok) PROVE SaysOther
    BY <1>3, <1>7 DEF Protocol!Answer, Keeps
  <1>8. ASSUME NEW c \in Clients, Protocol!GetStatus(c) PROVE SaysOther
    <2>1. Protocol!Say(Report(c, ProtocolState, config)) /\ Keeps
      BY <1>8, Vocabulary DEF Protocol!GetStatus, Keeps
    <2> QED BY <1>2, <2>1, Kinds
  <1>9. CASE Protocol!Announce
    <2>1. Protocol!Say(Status(ProtocolState, config)) /\ Keeps /\ ProtocolState' = ProtocolState
      BY <1>9, Vocabulary DEF Protocol!Announce, Keeps
    <2> QED BY <1>2, <2>1, Kinds
  <1>10. CASE Protocol!BeginStart
    BY <1>10 DEF Protocol!BeginStart, SaysNothing
  <1>11. CASE Protocol!Halt
    BY <1>11 DEF Protocol!Halt, SaysNothing, Keeps
  <1>12. CASE Protocol!Emit
    <2>1. PICK i \in DOMAIN wire' : /\ wire'[i] \in EventMessage /\ wire'[i].run = runs
                                    /\ wire' = Append(wire, wire'[i])
      BY <1>12, Vocabulary DEF Protocol!Emit
    <2>2. IsEvent(wire'[i]) /\ ~IsStatus(wire'[i])
      BY <2>1 DEF EventMessage, IsEvent, IsStatus
    <2> QED BY <1>12, <2>1, <2>2 DEF Protocol!Emit, SaysEvent, Keeps
  <1> QED BY <1>1, <1>4, <1>5, <1>6, <1>7, <1>8, <1>9, <1>10, <1>11, <1>12 DEF Protocol!Next

LEMMA InitWire == Init => WireInOrder
  <1> SUFFICES ASSUME Init PROVE WireInOrder
    OBVIOUS
  <1>1. ProtocolState = "idle"
    BY InitMaps DEF Protocol!Init
  <1> QED BY <1>1 DEF Init, WireInOrder

LEMMA StepWire ==
  ASSUME TypeOK, TypeOK', WireInOrder, [Protocol!Next]_(Protocol!vars)
  PROVE  WireInOrder'
  <1> USE DEF WireInOrder
  <1>0. runs \in Nat /\ wire \in Seq(Message)
    BY DEF TypeOK
  <1>1. CASE SaysNothing
    BY <1>0, <1>1, EventsAreNumbered DEF SaysNothing, Keeps
  <1>2. CASE SaysEvent
    <2>1. PICK m : /\ wire' = Append(wire, m)
                   /\ IsEvent(m) /\ ~IsStatus(m) /\ m.run = runs
                   /\ ProtocolState # "idle" /\ Keeps
      BY <1>2 DEF SaysEvent
    <2>2. /\ DOMAIN wire' = DOMAIN wire \cup {Len(wire) + 1}
          /\ wire'[Len(wire) + 1] = m
          /\ \A i \in DOMAIN wire : i \in Nat /\ i < Len(wire) + 1 /\ wire'[i] = wire[i]
          /\ Len(wire) \in Nat
      BY <1>0, <2>1, AppendFacts
    <2> QED BY <1>0, <2>1, <2>2 DEF Keeps
  <1>3. CASE SaysOther
    <2>1. PICK m : /\ wire' = Append(wire, m)
                   /\ ~IsEvent(m) /\ Keeps
                   /\ (IsStatus(m) /\ m.engine_state = "idle") => ProtocolState' = "idle"
      BY <1>3 DEF SaysOther
    <2>2. /\ DOMAIN wire' = DOMAIN wire \cup {Len(wire) + 1}
          /\ wire'[Len(wire) + 1] = m
          /\ \A i \in DOMAIN wire : i \in Nat /\ i < Len(wire) + 1 /\ wire'[i] = wire[i]
          /\ Len(wire) \in Nat
      BY <1>0, <2>1, AppendFacts
    <2> QED BY <1>0, <2>1, <2>2 DEF Keeps
  <1> QED BY <1>1, <1>2, <1>3, ProtocolSays

LEMMA WireOrder == Spec => []WireInOrder
  <1>1. TypeOK /\ EngineInv /\ WireInOrder /\ [Next]_vars => WireInOrder'
    BY StepMaps, StepType, StepWire
  <1> QED BY <1>1, InitWire, TypeCorrect, Invariant, PTL DEF Spec

-----------------------------------------------------------------------------
(* Status broadcasts.                                                      *)

Current == Status(EngineStateNow, config)

Following == pc[Main] # "clear_handler" /\ phase \in {"boot", "running", "shutdown"}

LEMMA ClientsLeaveMainAlone ==
  ASSUME TypeOK, NEW c \in Clients,
         Receive(c) \/ UnlockedHandler(c) \/ LockedHandler(c) \/ StartStep(c) \/ FinishStep(c)
  PROVE  phase' = phase /\ pc'[Main] = pc[Main]
  <1>1. phase' = phase /\ (pc' = pc \/ \E p : Goto(c, p))
    <2>1. CASE Receive(c)
      BY <2>1 DEF Receive
    <2>2. CASE UnlockedHandler(c)
      BY <2>2 DEF UnlockedHandler, DropNoise, UnknownCommand, HandleListSerialPorts, Reply
    <2>3. CASE LockedHandler(c)
      BY <2>3 DEF LockedHandler, HandleGetStatus, HandleConfigure, HandleStartCapture,
                  HandleStopCapture, HandleSend, Refuse, Reply
    <2>4. CASE StartStep(c)
      BY <2>4 DEF StartStep, MakeRecorder, BuildPipeline, StartTransport, SessionStarted,
                  SessionFailed, Unwind, Rollback, Reply
    <2>5. CASE FinishStep(c)
      BY <2>5 DEF FinishStep, BroadcastStatus, SendDone, Reply
    <2> QED BY <2>1, <2>2, <2>3, <2>4, <2>5
  <1>2. Main \in Threads /\ c \in Threads /\ c # Main
    BY ClientIsThread DEF Threads
  <1>3. ASSUME NEW p, Goto(c, p) PROVE pc'[Main] = pc[Main]
    BY <1>2, <1>3, Moved
  <1> QED BY <1>1, <1>3

\* Once shutdown() has ended a capture in silence nobody is promised a status
\* again.
LEMMA FollowingEnds ==
  ASSUME TypeOK, EngineInv, [Next]_vars, Following'
  PROVE  Following
  <1>1. ASSUME phase' = phase, pc'[Main] = pc[Main] \/ pc[Main] \in StopSteps
        PROVE  Following
    BY <1>1 DEF Following, StopSteps
  <1>2. CASE UNCHANGED vars
    BY <1>1, <1>2 DEF vars, control
  <1>3. ASSUME NEW c \in Clients,
               Receive(c) \/ UnlockedHandler(c) \/ LockedHandler(c) \/ StartStep(c) \/ FinishStep(c)
        PROVE  Following
    BY <1>1, <1>3, ClientsLeaveMainAlone
  <1>4. ASSUME NEW t \in Threads, StopStep(t) PROVE Following
    <2>1. phase' = phase /\ (pc' = pc \/ (pc[t] \in StopSteps /\ \E p : Goto(t, p)))
      BY <1>4 DEF StopStep, StopSession, JoinSession, CloseTransport, DestroySession,
                  ResetPipeline, ResetRecorder, control, StopSteps
    <2>2. pc'[Main] = pc[Main] \/ pc[Main] \in StopSteps
      BY <2>1, Moved DEF Threads
    <2> QED BY <1>1, <2>1, <2>2
  <1>5. ASSUME NEW e \in Emitters, Record(e) \/ Broadcast(e) PROVE Following
    BY <1>1, <1>5 DEF Record, Broadcast, control
  <1>6. ASSUME NEW w \in Workers, Deliver(w) PROVE Following
    BY <1>1, <1>6 DEF Deliver, control
  <1>7. CASE MainStep
    <2>1. CASE ClearHandler
      BY <2>1 DEF ClearHandler, Following
    <2>2. CASE Install \/ StopRequested \/ StopServer
      BY <2>2 DEF Install, StopRequested, StopServer, Following
    <2>3. CASE Shutdown
      BY <2>3 DEF Shutdown, Following
    <2> QED BY <1>7, <2>1, <2>2, <2>3 DEF MainStep
  <1> QED BY <1>2, <1>3, <1>4, <1>5, <1>6, <1>7 DEF Next

\* Nobody but stop_capture_locked ends a capture, and its caller either owes
\* a status or is shutdown().
LEMMA EndingIsKnown ==
  ASSUME TypeOK, EngineInv, [Next]_vars, capturing, ~(capturing')
  PROVE  Owed' \/ ~(Following')
  <1>1. PICK t \in Threads : ResetRecorder(t)
    BY DEF Next, Receive, UnlockedHandler, LockedHandler, StartStep, StopStep, FinishStep, MainStep,
           Record, Broadcast, Deliver, DropNoise, UnknownCommand, HandleListSerialPorts,
           HandleGetStatus, HandleConfigure, HandleStartCapture, HandleStopCapture, HandleSend, Refuse,
           MakeRecorder, BuildPipeline, StartTransport, SessionStarted, SessionFailed, Unwind,
           Rollback, StopSession, JoinSession, CloseTransport, DestroySession, ResetPipeline,
           BroadcastStatus, SendDone, Install, StopRequested, Shutdown,
           ClearHandler, StopServer, engine, vars
  <1>2. CASE t = Main
    BY <1>1, <1>2, Moved DEF ResetRecorder, Following
  <1>3. CASE t # Main
    <2>1. t \in Clients /\ pc'[t] = "status"
      BY <1>1, <1>3, Moved DEF ResetRecorder, Threads
    <2> QED BY <2>1 DEF Owed
  <1> QED BY <1>2, <1>3

LEMMA StatusStays ==
  ASSUME TypeOK, LastStatusIs(Current), Current' = Current,
         wire' = wire \/ \E m : wire' = Append(wire, m) /\ ~IsStatus(m)
  PROVE  LastStatusIs(Current)'
  <1>1. CASE wire' = wire
    BY <1>1 DEF LastStatusIs
  <1>2. ASSUME NEW m, wire' = Append(wire, m), ~IsStatus(m)
        PROVE  LastStatusIs(Current)'
    <2>1. /\ DOMAIN wire' = DOMAIN wire \cup {Len(wire) + 1}
          /\ wire'[Len(wire) + 1] = m
          /\ \A i \in DOMAIN wire : wire'[i] = wire[i]
      BY <1>2, AppendFacts DEF TypeOK
    <2> QED BY <1>2, <2>1 DEF LastStatusIs
  <1> QED BY <1>1, <1>2

LEMMA StatusSaid ==
  ASSUME TypeOK, wire' = Append(wire, Current), Current' = Current
  PROVE  LastStatusIs(Current)'
  <1>1. /\ DOMAIN wire' = DOMAIN wire \cup {Len(wire) + 1}
        /\ wire'[Len(wire) + 1] = Current'
        /\ \A i \in DOMAIN wire : i < Len(wire) + 1 /\ i \in Nat
        /\ Len(wire) \in Nat
    BY AppendFacts DEF TypeOK
  <1>2. IsStatus(Current')
    BY Kinds DEF Current
  <1> QED BY <1>1, <1>2 DEF LastStatusIs

LEMMA NotBoth == ASSUME EngineInv, TypeOK, Owed PROVE ~Starting
  BY ClientInside, PointFacts DEF Owed, StartSteps

LEMMA InitAnnounced == Init => Announced
  <1> SUFFICES ASSUME Init PROVE LastStatusIs(Status("idle", NoConfig)) /\ EngineStateNow = "idle"
    BY DEF Announced, Init
  <1> QED BY DEF Init, LastStatusIs, EngineStateNow

LEMMA StepAnnounced ==
  ASSUME TypeOK, EngineInv, Announced, [Next]_vars
  PROVE  Announced'
  <1> SUFFICES ASSUME ~(Owed'), Following' PROVE LastStatusIs(Current)'
    BY DEF Announced, Following, Current
  <1>1. Following
    BY FollowingEnds
  <1>2. CASE Owed
    <2>1. [Protocol!Next]_(Protocol!vars)
      BY StepMaps
    <2>2. Owed' # Owed
      BY <1>2
    <2>3. Protocol!Announce
      BY <1>2, <2>1, <2>2
         DEF Protocol!Next, Protocol!vars, Protocol!Configure, Protocol!BeginStart,
             Protocol!Started, Protocol!StartFailed, Protocol!Stopped, Protocol!Refuse,
             Protocol!GetStatus, Protocol!Sent, Protocol!Answer, Protocol!Emit, Protocol!Halt,
             Protocol!Ready
    <2>4. ProtocolState = EngineStateNow
      BY <1>2, NotBoth DEF ProtocolState, EngineStateNow
    <2>5. wire' = Append(wire, Current) /\ config' = config /\ ProtocolState' = ProtocolState
      BY <2>3, <2>4, Vocabulary DEF Protocol!Announce, Protocol!Say, Current
    <2>6. EngineStateNow' = EngineStateNow
      BY <2>4, <2>5 DEF ProtocolState, EngineStateNow
    <2>7. Current' = Current
      BY <2>5, <2>6 DEF Current
    <2> QED BY <2>5, <2>7, StatusSaid
  <1>3. CASE ~Owed
    <2>1. LastStatusIs(Current)
      BY <1>1, <1>3 DEF Announced, Following, Current
    <2>2. [Protocol!Next]_(Protocol!vars)
      BY StepMaps
    <2>3. /\ config' = config
          /\ ~capturing => ~(capturing')
          /\ wire' = wire \/ \E m : wire' = Append(wire, m) /\ ~IsStatus(m)
      <3>0. ~capturing' <=> ProtocolState' # "capturing"
        BY DEF ProtocolState
      <3>1. ~capturing <=> ProtocolState # "capturing"
        BY DEF ProtocolState
      <3>2. CASE UNCHANGED Protocol!vars
        BY <3>0, <3>1, <3>2 DEF Protocol!vars
      <3>3. CASE Protocol!BeginStart \/ Protocol!Halt
        BY <3>0, <3>1, <3>3 DEF Protocol!BeginStart, Protocol!Halt
      <3>4. CASE Protocol!Announce
        BY <1>3, <3>4 DEF Protocol!Announce
      <3>5. ASSUME NEW c \in Clients, NEW cfg, Protocol!Configure(c, cfg) PROVE FALSE
        BY <3>5 DEF Protocol!Configure
      <3>6. ASSUME NEW c \in Clients, Protocol!Started(c) \/ Protocol!Stopped(c) PROVE FALSE
        BY <3>6 DEF Protocol!Started, Protocol!Stopped
      <3>7. ASSUME NEW c \in Clients, NEW op, NEW ok,
                   \/ Protocol!StartFailed(c) \/ Protocol!Refuse(c, op)
                   \/ Protocol!Sent(c) \/ Protocol!Answer(c, op, ok)
            PROVE  /\ config' = config /\ (~capturing => ~(capturing'))
                   /\ \E m : wire' = Append(wire, m) /\ ~IsStatus(m)
        <4>1. /\ config' = config
              /\ ProtocolState' = ProtocolState \/ ProtocolState' = "idle"
              /\ \E o, k : wire' = Append(wire, Result(c, o, k))
          BY <3>7, Vocabulary DEF Protocol!StartFailed, Protocol!Refuse, Protocol!Sent,
                                  Protocol!Answer, Protocol!Say
        <4> QED BY <3>0, <3>1, <4>1, Kinds
      <3>8. ASSUME NEW c \in Clients, Protocol!GetStatus(c)
            PROVE  /\ config' = config /\ (~capturing => ~(capturing'))
                   /\ \E m : wire' = Append(wire, m) /\ ~IsStatus(m)
        <4>1. /\ config' = config /\ ProtocolState' = ProtocolState
              /\ wire' = Append(wire, Report(c, ProtocolState, config))
          BY <3>8, Vocabulary DEF Protocol!GetStatus, Protocol!Say
        <4> QED BY <3>0, <3>1, <4>1, Kinds
      <3>9. CASE Protocol!Emit
        <4>1. PICK i \in DOMAIN wire' : wire'[i] \in EventMessage /\ wire' = Append(wire, wire'[i])
          BY <3>9, Vocabulary DEF Protocol!Emit
        <4>2. ~IsStatus(wire'[i])
          BY <4>1 DEF EventMessage, IsStatus
        <4> QED BY <3>0, <3>1, <3>9, <4>1, <4>2 DEF Protocol!Emit
      <3> QED BY <2>2, <3>2, <3>3, <3>4, <3>5, <3>6, <3>7, <3>8, <3>9 DEF Protocol!Next
    <2>4. capturing => capturing'
      BY EndingIsKnown
    <2>5. Current' = Current
      BY <2>3, <2>4 DEF Current, EngineStateNow
    <2> QED BY <2>1, <2>3, <2>5, StatusStays
  <1> QED BY <1>2, <1>3

LEMMA StatusOrder == Spec => []Announced
  BY InitAnnounced, StepAnnounced, TypeCorrect, Invariant, PTL DEF Spec

\* Whenever no handler is at work, a viewer that has followed the status
\* broadcasts knows state and configuration, until shutdown() ends a capture.
THEOREM StatusIsFollowed == Spec => []StatusIsCurrent
  <1>1. TypeOK /\ EngineInv /\ Announced => StatusIsCurrent
    <2> SUFFICES ASSUME TypeOK, EngineInv, Announced, mutex = Free,
                        phase \in {"boot", "running", "shutdown"}
                 PROVE  LastStatusIs(Status(EngineStateNow, config))
      BY DEF StatusIsCurrent
    <2>1. ~Owed /\ pc[Main] # "clear_handler"
      BY NobodyOwes, NobodyInside, PointFacts DEF Threads
    <2> QED BY <2>1 DEF Announced
  <1> QED BY <1>1, StatusOrder, TypeCorrect, Invariant, PTL

-----------------------------------------------------------------------------
(* Answers.                                                                *)

LEMMA RepliesAreFinite ==
  ASSUME TypeOK, NEW c \in Clients
  PROVE  IsFiniteSet(Replies(c)) /\ Cardinality(Replies(c)) \in Nat /\ dispatched[c] \in Int
  <1>1. Replies(c) \subseteq 1..Len(wire) /\ Len(wire) \in Nat
    BY DEF Replies, TypeOK
  <1>2. IsFiniteSet(Replies(c))
    <2>1. IsFiniteSet(1..Len(wire))
      <3>1. 1 \in Int /\ Len(wire) \in Int
        BY <1>1
      <3> QED BY <3>1, FS_Interval
    <2> QED BY <1>1, <2>1, FS_Subset
  <1> QED BY <1>2, FS_CardinalityType DEF TypeOK

LEMMA RepliesGrow ==
  ASSUME TypeOK, NEW c \in Clients, NEW m, wire' = Append(wire, m)
  PROVE  Cardinality(Replies(c)') = Cardinality(Replies(c)) + (IF IsReplyTo(c, m) THEN 1 ELSE 0)
  <1>1. /\ DOMAIN wire' = DOMAIN wire \cup {Len(wire) + 1}
        /\ Len(wire) + 1 \notin DOMAIN wire
        /\ wire'[Len(wire) + 1] = m
        /\ \A i \in DOMAIN wire : wire'[i] = wire[i]
    BY AppendFacts DEF TypeOK
  <1>2. IsFiniteSet(Replies(c)) /\ Cardinality(Replies(c)) \in Nat
    BY RepliesAreFinite
  <1>3. CASE IsReplyTo(c, m)
    <2>1. Replies(c)' = Replies(c) \cup {Len(wire) + 1} /\ Len(wire) + 1 \notin Replies(c)
      BY <1>1, <1>3 DEF Replies
    <2> QED BY <1>2, <1>3, <2>1, FS_AddElement
  <1>4. CASE ~IsReplyTo(c, m)
    <2>1. Replies(c)' = Replies(c)
      BY <1>1, <1>4 DEF Replies
    <2> QED BY <1>2, <1>4, <2>1
  <1> QED BY <1>3, <1>4

LEMMA Addressed ==
  /\ \A c, d, op, ok : IsReplyTo(d, Result(c, op, ok)) <=> d = c
  /\ \A c, d, st, cfg : IsReplyTo(d, Report(c, st, cfg)) <=> d = c
  /\ \A d, st, cfg : ~IsReplyTo(d, Status(st, cfg))
  /\ \A d, run, n : ~IsReplyTo(d, Event(run, n))
  BY DEF IsReplyTo, Result, Report, Status, Event

Noise(c) == cmd[c].op = "noise"

\* A step that answers nobody and ends nobody's wait keeps the account.
LEMMA NobodyAnswered ==
  ASSUME TypeOK, Accounted, UNCHANGED <<cmd, dispatched>>,
         wire' = wire \/ \E m : wire' = Append(wire, m) /\ \A u \in Clients : ~IsReplyTo(u, m),
         \A u \in Clients : /\ Pending(u)' <=> Pending(u)
                            /\ pc'[u] \in Steps => (pc[u] \in Steps \/ ~Noise(u))
  PROVE  Accounted'
  <1>1. ASSUME NEW u \in Clients PROVE Cardinality(Replies(u)') = Cardinality(Replies(u))
    <2>1. CASE wire' = wire
      BY <2>1 DEF Replies
    <2>2. ASSUME NEW m, wire' = Append(wire, m), ~IsReplyTo(u, m)
          PROVE  Cardinality(Replies(u)') = Cardinality(Replies(u))
      BY <2>2, RepliesGrow, RepliesAreFinite
    <2> QED BY <2>1, <2>2
  <1> QED BY <1>1 DEF Accounted, OneResultPerCommand, Noise

\* A step that answers the one viewer whose wait it ends keeps it too.
LEMMA OneAnswered ==
  ASSUME TypeOK, Accounted, UNCHANGED <<cmd, dispatched>>, NEW c \in Clients,
         NEW m, wire' = Append(wire, m), \A u \in Clients : IsReplyTo(u, m) <=> u = c,
         Pending(c), ~(Pending(c)'), ~Noise(c),
         \A u \in Clients : u # c => pc'[u] = pc[u]
  PROVE  Accounted'
  <1>1. \A u \in Clients : /\ Cardinality(Replies(u)') = Cardinality(Replies(u))
                                                         + (IF u = c THEN 1 ELSE 0)
                           /\ Cardinality(Replies(u)) \in Nat /\ dispatched[u] \in Int
    BY RepliesGrow, RepliesAreFinite
  <1>2. \A u \in Clients : u # c => (Pending(u)' <=> Pending(u))
    BY DEF Pending
  <1>3. OneResultPerCommand'
    BY <1>1, <1>2 DEF Accounted, OneResultPerCommand, Noise
  <1>4. \A u \in Clients : pc'[u] \in Steps => cmd'[u].op # "noise"
    BY DEF Accounted, Noise
  <1> QED BY <1>3, <1>4 DEF Accounted

\* The same for Goto.
LEMMA AnswerAndGo ==
  ASSUME TypeOK, Accounted, UNCHANGED <<cmd, dispatched>>, NEW c \in Clients, NEW p,
         NEW m, wire' = Append(wire, m), \A u \in Clients : IsReplyTo(u, m) <=> u = c,
         Goto(c, p), p \in {"idle", "status"}, Pending(c), ~Noise(c)
  PROVE  Accounted'
  <1>1. pc'[c] = p /\ \A u \in Clients : u # c => pc'[u] = pc[u]
    BY Moved, ClientIsThread
  <1>2. ~(Pending(c)')
    BY <1>1 DEF Pending, StartSteps, StopSteps
  <1> QED BY <1>1, <1>2, OneAnswered

LEMMA ResultAndGo ==
  ASSUME TypeOK, Accounted, UNCHANGED <<cmd, dispatched>>, NEW c \in Clients, NEW p,
         NEW op, NEW ok, wire' = Append(wire, Result(c, op, ok)),
         Goto(c, p), p \in {"idle", "status"}, Pending(c), ~Noise(c)
  PROVE  Accounted'
  <1>1. \A u \in Clients : IsReplyTo(u, Result(c, op, ok)) <=> u = c
    BY Addressed
  <1> QED BY <1>1, AnswerAndGo

LEMMA WorkOn ==
  ASSUME TypeOK, Accounted, UNCHANGED <<cmd, dispatched, wire>>, NEW t \in Threads, NEW p,
         Goto(t, p), t = Main \/ (p \in StartSteps \cup StopSteps \cup {"sending"} /\ Pending(t)),
         pc[t] \in Steps \/ t = Main \/ ~Noise(t)
  PROVE  Accounted'
  <1>1. pc'[t] = p /\ \A u \in Threads : u # t => pc'[u] = pc[u]
    BY Moved
  <1>2. ASSUME NEW u \in Clients
        PROVE  /\ Pending(u)' <=> Pending(u)
               /\ pc'[u] \in Steps => (pc[u] \in Steps \/ ~Noise(u))
    BY <1>1, ClientIsThread DEF Pending
  <1> QED BY <1>2, NobodyAnswered

LEMMA ReceiveAccounts ==
  ASSUME TypeOK, Accounted, NEW c \in Clients, Receive(c)
  PROVE  Accounted'
  <1>1. PICK k \in Command :
          /\ cmd' = [cmd EXCEPT ![c] = k]
          /\ dispatched' = IF handler /\ k.op # "noise"
                           THEN [dispatched EXCEPT ![c] = @ + 1] ELSE dispatched
    BY DEF Receive
  <1>2. pc[c] = "idle" /\ wire' = wire /\ IF handler THEN Goto(c, "called") ELSE pc' = pc
    BY DEF Receive
  <1>3. /\ pc'[c] = IF handler THEN "called" ELSE "idle"
        /\ \A u \in Clients : u # c => pc'[u] = pc[u]
    BY <1>2, Moved, ClientIsThread
  <1>4. ~Pending(c) /\ (Pending(c)' <=> handler) /\ pc'[c] \notin Steps
    BY <1>2, <1>3, ThreadAssumption DEF Pending, Steps, StartSteps, StopSteps
  <1>5. /\ cmd'[c] = k /\ dispatched[c] \in Int
        /\ dispatched'[c] = dispatched[c] + (IF handler /\ k.op # "noise" THEN 1 ELSE 0)
        /\ \A u \in Clients : u # c => cmd'[u] = cmd[u] /\ dispatched'[u] = dispatched[u]
    BY <1>1 DEF TypeOK
  <1>6. \A u \in Clients : Replies(u)' = Replies(u)
    BY <1>2 DEF Replies
  <1>7. \A u \in Clients : u # c => (Pending(u)' <=> Pending(u))
    BY <1>3 DEF Pending
  <1>8. Cardinality(Replies(c)) = dispatched[c]
    BY <1>4, <1>5 DEF Accounted, OneResultPerCommand
  <1>9. Cardinality(Replies(c)') = dispatched'[c] - (IF Pending(c)' /\ cmd'[c].op # "noise" THEN 1 ELSE 0)
    BY <1>4, <1>5, <1>6, <1>8
  <1>10. \A u \in Clients : u # c =>
           Cardinality(Replies(u)') = dispatched'[u] - (IF Pending(u)' /\ cmd'[u].op # "noise" THEN 1 ELSE 0)
    BY <1>5, <1>6, <1>7 DEF Accounted, OneResultPerCommand
  <1>11. \A u \in Clients : pc'[u] \in Steps => cmd'[u].op # "noise"
    BY <1>3, <1>4, <1>5 DEF Accounted
  <1> QED BY <1>9, <1>10, <1>11 DEF Accounted, OneResultPerCommand

LEMMA HandlerAccounts ==
  ASSUME TypeOK, EngineInv, Accounted, NEW c \in Clients,
         UnlockedHandler(c) \/ LockedHandler(c)
  PROVE  Accounted'
  <1>0. pc[c] = "called" /\ Pending(c)
    BY DEF UnlockedHandler, LockedHandler, DropNoise, UnknownCommand, HandleListSerialPorts,
           HandleGetStatus, HandleConfigure, HandleStartCapture, HandleStopCapture, HandleSend,
           Locked, Called, Pending
  <1>1. ASSUME NEW m, Reply(c, m), \A u \in Clients : IsReplyTo(u, m) <=> u = c, ~Noise(c)
        PROVE  Accounted'
    BY <1>0, <1>1, AnswerAndGo DEF Reply, Send
  <1>2. ASSUME NEW op, NEW ok, Reply(c, Result(c, op, ok)), ~Noise(c)
        PROVE  Accounted'
    BY <1>1, <1>2, Addressed
  <1>3. ASSUME NEW op, Refuse(c, op), ~Noise(c) PROVE Accounted'
    BY <1>2, <1>3 DEF Refuse
  <1>4. ASSUME NEW p, Goto(c, p), p \in StartSteps \cup StopSteps \cup {"sending"},
               UNCHANGED <<cmd, dispatched, wire>>, ~Noise(c)
        PROVE  Accounted'
    BY <1>0, <1>4, WorkOn, ClientIsThread
  <1>5. CASE DropNoise(c)
    <2>1. Noise(c) /\ Goto(c, "idle") /\ UNCHANGED <<cmd, dispatched, wire>>
      BY <1>5 DEF DropNoise, Called, Noise
    <2>2. pc'[c] = "idle" /\ \A u \in Clients : u # c => pc'[u] = pc[u]
      BY <2>1, Moved, ClientIsThread
    <2>3. \A u \in Clients : u # c => (Pending(u)' <=> Pending(u))
      BY <2>2 DEF Pending
    <2>4. \A u \in Clients : Replies(u)' = Replies(u)
      BY <2>1 DEF Replies
    <2>5. "idle" \notin Steps
      BY DEF Steps, StartSteps, StopSteps
    <2>6. \A u \in Clients : (Pending(u)' /\ cmd'[u].op # "noise") <=> (Pending(u) /\ cmd[u].op # "noise")
      BY <2>1, <2>3 DEF Noise
    <2> QED BY <2>1, <2>2, <2>4, <2>5, <2>6 DEF Accounted, OneResultPerCommand
  <1>6. CASE UnknownCommand(c)
    BY <1>2, <1>6 DEF UnknownCommand, Called, Noise
  <1>7. CASE HandleListSerialPorts(c)
    BY <1>2, <1>7 DEF HandleListSerialPorts, Called, Noise
  <1>8. CASE HandleGetStatus(c)
    <2>1. Reply(c, Report(c, EngineStateNow, config)) /\ ~Noise(c)
      BY <1>8 DEF HandleGetStatus, Locked, Called, Noise, EngineStateNow
    <2> QED BY <1>1, <2>1, Addressed
  <1>9. CASE HandleConfigure(c)
    <2>1. ~Noise(c)
      BY <1>9 DEF HandleConfigure, Locked, Called, Noise
    <2>2. \/ Refuse(c, "configure")
          \/ /\ wire' = Append(wire, Result(c, "configure", TRUE)) /\ Goto(c, "status")
             /\ UNCHANGED <<cmd, dispatched>>
      BY <1>9 DEF HandleConfigure, Send
    <2>3. ASSUME Goto(c, "status"), UNCHANGED <<cmd, dispatched>>,
                 wire' = Append(wire, Result(c, "configure", TRUE))
          PROVE  Accounted'
      BY <1>0, <2>1, <2>3, ResultAndGo
    <2> QED BY <1>3, <2>1, <2>2, <2>3
  <1>10. CASE HandleStartCapture(c)
    <2>1. ~Noise(c)
      BY <1>10 DEF HandleStartCapture, Locked, Called, Noise
    <2>2. \/ Refuse(c, "start_capture")
          \/ Goto(c, "make_recorder") /\ UNCHANGED <<cmd, dispatched, wire>>
      BY <1>10 DEF HandleStartCapture
    <2> QED BY <1>3, <1>4, <2>1, <2>2 DEF StartSteps
  <1>11. CASE HandleStopCapture(c)
    <2>1. ~Noise(c)
      BY <1>11 DEF HandleStopCapture, Locked, Called, Noise
    <2>2. \/ Refuse(c, "stop_capture")
          \/ Goto(c, "stop_session") /\ UNCHANGED <<cmd, dispatched, wire>>
      BY <1>11 DEF HandleStopCapture
    <2> QED BY <1>3, <1>4, <2>1, <2>2 DEF StopSteps
  <1>12. CASE HandleSend(c)
    <2>1. ~Noise(c)
      BY <1>12 DEF HandleSend, Locked, Called, Noise
    <2>2. \/ Refuse(c, "send")
          \/ Goto(c, "sending") /\ UNCHANGED <<cmd, dispatched, wire>>
      BY <1>12 DEF HandleSend
    <2> QED BY <1>3, <1>4, <2>1, <2>2
  <1> QED BY <1>5, <1>6, <1>7, <1>8, <1>9, <1>10, <1>11, <1>12 DEF UnlockedHandler, LockedHandler

\* Inside mutex_ a thread works on a command that is not noise.
LEMMA WorkerIsPending ==
  ASSUME Accounted, NEW c \in Clients, pc[c] \in StartSteps \cup StopSteps \cup {"sending"}
  PROVE  Pending(c) /\ ~Noise(c)
  BY PointFacts DEF Accounted, Pending, Noise

LEMMA StartStepAccounts ==
  ASSUME TypeOK, EngineInv, Accounted, NEW c \in Clients, StartStep(c)
  PROVE  Accounted'
  <1>0. pc[c] \in StartSteps
    BY DEF StartStep, StartSteps, MakeRecorder, BuildPipeline, StartTransport, SessionStarted,
           SessionFailed, Unwind, Rollback
  <1>1. Pending(c) /\ ~Noise(c)
    BY <1>0, WorkerIsPending
  <1>2. \/ /\ UNCHANGED <<cmd, dispatched, wire>>
           /\ \/ Goto(c, "build_pipeline") \/ Goto(c, "rollback") \/ Goto(c, "start_transport")
              \/ Goto(c, "await_start") \/ Goto(c, "unwind")
        \/ /\ UNCHANGED <<cmd, dispatched>>
           /\ \/ wire' = Append(wire, Result(c, "start_capture", TRUE)) /\ Goto(c, "status")
              \/ wire' = Append(wire, Result(c, "start_capture", FALSE)) /\ Goto(c, "idle")
    BY DEF StartStep, MakeRecorder, BuildPipeline, StartTransport, SessionStarted, SessionFailed,
           Unwind, Rollback, Reply, Send
  <1>3. ASSUME NEW p \in StartSteps, Goto(c, p), UNCHANGED <<cmd, dispatched, wire>>
        PROVE  Accounted'
    BY <1>1, <1>3, WorkOn, ClientIsThread
  <1>4. ASSUME NEW ok, NEW p \in {"idle", "status"}, UNCHANGED <<cmd, dispatched>>,
               wire' = Append(wire, Result(c, "start_capture", ok)), Goto(c, p)
        PROVE  Accounted'
    BY <1>1, <1>4, ResultAndGo
  <1> QED BY <1>2, <1>3, <1>4 DEF StartSteps

LEMMA StopStepAccounts ==
  ASSUME TypeOK, EngineInv, Accounted, NEW t \in Threads, StopStep(t)
  PROVE  Accounted'
  <1>0. pc[t] \in StopSteps
    BY DEF StopStep, StopSteps, StopSession, JoinSession, CloseTransport, DestroySession,
           ResetPipeline, ResetRecorder
  <1>1. t # Main => t \in Clients /\ Pending(t) /\ ~Noise(t)
    BY <1>0, WorkerIsPending DEF Threads
  <1>2. CASE CloseTransport(t)
    <2>1. UNCHANGED <<pc, cmd, dispatched, wire>>
      BY <1>2 DEF CloseTransport, control
    <2>2. \A u \in Clients : Pending(u)' <=> Pending(u)
      BY <2>1 DEF Pending
    <2> QED BY <2>1, <2>2, NobodyAnswered
  <1>3. CASE ResetRecorder(t) /\ t # Main
    <2>1. /\ UNCHANGED <<cmd, dispatched>> /\ Goto(t, "status")
          /\ wire' = Append(wire, Result(t, "stop_capture", TRUE))
      BY <1>3 DEF ResetRecorder, Send
    <2> QED BY <1>1, <1>3, <2>1, ResultAndGo
  <1>4. CASE ~CloseTransport(t) /\ ~(ResetRecorder(t) /\ t # Main)
    <2>1. /\ UNCHANGED <<cmd, dispatched, wire>>
          /\ \/ Goto(t, "join_session") \/ Goto(t, "destroy_session") \/ Goto(t, "reset_pipeline")
             \/ Goto(t, "reset_recorder") \/ (t = Main /\ Goto(t, "clear_handler"))
      BY <1>4 DEF StopStep, StopSession, JoinSession, DestroySession, ResetPipeline, ResetRecorder
    <2>2. ASSUME NEW p, Goto(t, p), t = Main \/ p \in StopSteps PROVE Accounted'
      BY <1>1, <2>1, <2>2, WorkOn
    <2> QED BY <2>1, <2>2 DEF StopSteps
  <1> QED BY <1>2, <1>3, <1>4

LEMMA FinishStepAccounts ==
  ASSUME TypeOK, EngineInv, Accounted, NEW c \in Clients, FinishStep(c)
  PROVE  Accounted'
  <1>1. CASE SendDone(c)
    <2>1. /\ pc[c] = "sending" /\ UNCHANGED <<cmd, dispatched>> /\ Goto(c, "idle")
          /\ wire' = Append(wire, Result(c, "send", TRUE))
      BY <1>1 DEF SendDone, Reply, Send
    <2>2. Pending(c) /\ ~Noise(c)
      BY <2>1, WorkerIsPending
    <2> QED BY <2>1, <2>2, ResultAndGo
  <1>2. CASE BroadcastStatus(c)
    <2>1. /\ pc[c] = "status" /\ UNCHANGED <<cmd, dispatched>> /\ Goto(c, "idle")
          /\ wire' = Append(wire, Status(EngineStateNow, config))
      BY <1>2 DEF BroadcastStatus, Send, EngineStateNow
    <2>2. pc'[c] = "idle" /\ \A u \in Clients : u # c => pc'[u] = pc[u]
      BY <2>1, Moved, ClientIsThread
    <2>3. "idle" \notin Steps /\ "status" \notin StartSteps \cup StopSteps
      BY DEF Steps, StartSteps, StopSteps
    <2>4. \A u \in Clients : /\ Pending(u)' <=> Pending(u)
                             /\ pc'[u] \in Steps => pc[u] \in Steps
      BY <2>1, <2>2, <2>3, PointFacts DEF Pending
    <2> QED BY <2>1, <2>4, Addressed, NobodyAnswered
  <1> QED BY <1>1, <1>2 DEF FinishStep

LEMMA OtherStepsAccount ==
  ASSUME TypeOK, EngineInv, Accounted,
         \/ \E e \in Emitters : Record(e) \/ Broadcast(e)
         \/ \E w \in Workers : Deliver(w)
         \/ MainStep
         \/ UNCHANGED vars
  PROVE  Accounted'
  <1>1. /\ UNCHANGED <<cmd, dispatched>>
        /\ \/ wire' = wire
           \/ \E run, n : wire' = Append(wire, Event(run, n))
        /\ pc' = pc \/ \E p : Goto(Main, p)
    <2>1. CASE \E e \in Emitters : Record(e) \/ Broadcast(e)
      BY <2>1 DEF Record, Broadcast, Send, control
    <2>2. CASE \E w \in Workers : Deliver(w)
      BY <2>2 DEF Deliver, control
    <2>3. CASE MainStep
      BY <2>3 DEF MainStep, Install, StopRequested, Shutdown, ClearHandler, StopServer
    <2>4. CASE UNCHANGED vars
      BY <2>4 DEF vars, control
    <2> QED BY <2>1, <2>2, <2>3, <2>4
  <1>2. \A u \in Clients : pc'[u] = pc[u]
    <2>1. Main \in Threads
      BY DEF Threads
    <2>2. ASSUME NEW p, Goto(Main, p) PROVE \A u \in Clients : pc'[u] = pc[u]
      BY <2>1, <2>2, Moved, ClientIsThread
    <2> QED BY <1>1, <2>2
  <1>3. \A u \in Clients : Pending(u)' <=> Pending(u)
    BY <1>1, <1>2 DEF Pending
  <1> QED BY <1>1, <1>2, <1>3, Addressed, NobodyAnswered

LEMMA InitAccounted == Init => Accounted
  <1> SUFFICES ASSUME Init PROVE Accounted
    OBVIOUS
  <1>1. \A c \in Clients : pc[c] = "idle"
    BY ClientIsThread DEF Init
  <1>2. "idle" \notin Steps /\ "idle" \notin StartSteps \cup StopSteps
    BY DEF Steps, StartSteps, StopSteps
  <1>3. \A c \in Clients : Replies(c) = {} /\ dispatched[c] = 0
    <2>1. DOMAIN wire = {} /\ \A c \in Clients : dispatched[c] = 0
      BY DEF Init
    <2> QED BY <2>1 DEF Replies
  <1>4. Cardinality({}) = 0
    BY FS_EmptySet
  <1> QED BY <1>1, <1>2, <1>3, <1>4 DEF Accounted, OneResultPerCommand, Pending

LEMMA StepAccounted ==
  ASSUME TypeOK, EngineInv, Accounted, [Next]_vars
  PROVE  Accounted'
  BY ReceiveAccounts, HandlerAccounts, StartStepAccounts, StopStepAccounts, FinishStepAccounts,
     OtherStepsAccount DEF Next

LEMMA AnswerCount == Spec => []Accounted
  BY InitAccounted, StepAccounted, TypeCorrect, Invariant, PTL DEF Spec

\* Every command that reaches the controller is answered exactly once: by the
\* time its handler is through, whichever early return, exception or failed
\* start it leaves by, and never twice.
THEOREM AnsweredOnce == Spec => []OneResultPerCommand
  <1>1. Accounted => OneResultPerCommand
    BY DEF Accounted
  <1> QED BY <1>1, AnswerCount, PTL

-----------------------------------------------------------------------------
(* The log.                                                                *)

\* The clauses of LogInOrder, by name.
RecorderKnows ==
  recorder # Null =>
      IF config \in Logged THEN LogIsOpenFor(recorder)
      ELSE \A i \in DOMAIN log : IsMetadata(log[i]) => log[i].run # recorder

MetadataIsPast == \A i \in DOMAIN log : IsMetadata(log[i]) => log[i].run <= runs

RunIsNew == \A c \in Clients : pc[c] = "make_recorder" => NothingYet(runs)

RecordedFirst ==
  \A e \in Emitters : (callback[e].at = "broadcast" /\ config \in Logged) =>
      \E j \in DOMAIN log : log[j] = Event(callback[e].run, callback[e].n)

LinesHaveHeads ==
  \A j \in DOMAIN log : ~IsMetadata(log[j]) =>
      \E i \in 1..(j - 1) :
          /\ IsMetadata(log[i]) /\ log[i].run = log[j].run
          /\ \A k \in (i + 1)..j : ~IsMetadata(log[k])

LEMMA LogParts ==
  LogInOrder <=> /\ RecorderKnows /\ MetadataIsPast /\ RunIsNew
                 /\ RecordedFirst /\ LoggedBeforeSeen /\ LinesHaveHeads
  BY DEF LogInOrder, RecorderKnows, MetadataIsPast, RunIsNew, RecordedFirst, LinesHaveHeads

LEMMA LogWhole ==
  ASSUME RecorderKnows', MetadataIsPast', RunIsNew', RecordedFirst', LoggedBeforeSeen',
         LinesHaveHeads'
  PROVE  LogInOrder'
  BY DEF LogInOrder, RecorderKnows, MetadataIsPast, RunIsNew, RecordedFirst, LinesHaveHeads

LEMMA LineKinds ==
  /\ \A run : IsMetadata(Metadata(run)) /\ Metadata(run).run = run
  /\ \A run, n : ~IsMetadata(Event(run, n)) /\ Event(run, n).run = run
  BY DEF IsMetadata, Metadata, Event

\* A callback in progress writes to the recorder of the current capture, and
\* no recorder is being made.
LEMMA CallbackRecorder ==
  ASSUME TypeOK, EngineInv, WireInOrder, NEW e \in Emitters, callback[e].at # "none"
  PROVE  /\ callback[e].run = recorder /\ recorder = runs /\ recorder # Null
         /\ \A c \in Clients : pc[c] # "make_recorder"
  <1>1. callback[e].run = runs /\ ProtocolState # "idle"
    BY CallbackMeansCapture
  <1>2. callback[e].run = recorder
    BY CallbackIsServed DEF CallbackFindsItsCapture
  <1>3. \A c \in Clients : pc[c] # "make_recorder"
    BY ClientIsThread DEF EngineInv, BuildingAt, Silent
  <1> QED BY <1>1, <1>2, <1>3 DEF WireInOrder

\* A step that neither writes nor shows an event and makes no recorder.
LogAside ==
  /\ log' = log /\ runs' = runs
  /\ wire' = wire \/ \E m : wire' = Append(wire, m) /\ ~IsEvent(m)
  /\ recorder' = recorder \/ recorder' = Null
  /\ config' = config \/ (recorder = Null /\ Silent)
  /\ \A c \in Clients : pc'[c] = "make_recorder" => pc[c] = "make_recorder"
  /\ \A e \in Emitters : callback'[e].at = "broadcast" => callback'[e] = callback[e]

LEMMA NoNewEvent ==
  ASSUME TypeOK, wire' = wire \/ \E m : wire' = Append(wire, m) /\ ~IsEvent(m)
  PROVE  \A i \in DOMAIN wire' : IsEvent(wire'[i]) => i \in DOMAIN wire /\ wire'[i] = wire[i]
  <1>1. ASSUME NEW m, wire' = Append(wire, m), ~IsEvent(m)
        PROVE  \A i \in DOMAIN wire' : IsEvent(wire'[i]) => i \in DOMAIN wire /\ wire'[i] = wire[i]
    <2>1. /\ DOMAIN wire' = DOMAIN wire \cup {Len(wire) + 1}
          /\ wire'[Len(wire) + 1] = m
          /\ \A i \in DOMAIN wire : wire'[i] = wire[i]
      BY <1>1, AppendFacts DEF TypeOK
    <2> QED BY <1>1, <2>1
  <1> QED BY <1>1

LEMMA AsideKeepsLog ==
  ASSUME TypeOK, LogInOrder, LogAside
  PROVE  LogInOrder'
  <1>0. \A i \in DOMAIN wire' : IsEvent(wire'[i]) => i \in DOMAIN wire /\ wire'[i] = wire[i]
    BY NoNewEvent DEF LogAside
  <1>1. RecorderKnows'
    BY LogParts DEF RecorderKnows, LogAside, LogIsOpenFor
  <1>2. MetadataIsPast'
    BY LogParts DEF MetadataIsPast, LogAside
  <1>3. RunIsNew'
    BY <1>0, LogParts DEF RunIsNew, NothingYet, LogAside
  <1>4. RecordedFirst'
    BY LogParts DEF RecordedFirst, LogAside, Silent
  <1>5. LoggedBeforeSeen'
    BY <1>0, LogParts DEF LoggedBeforeSeen, LogAside
  <1>6. LinesHaveHeads'
    BY LogParts DEF LinesHaveHeads, LogAside
  <1> QED BY <1>1, <1>2, <1>3, <1>4, <1>5, <1>6, LogWhole

LEMMA StartCaptureKeepsLog ==
  ASSUME TypeOK, EngineInv, WireInOrder, LogInOrder, NEW c \in Clients,
         HandleStartCapture(c), ~Refuse(c, "start_capture")
  PROVE  LogInOrder'
  <1>0. /\ UNCHANGED <<log, wire, recorder, config, callback>> /\ runs' = runs + 1 /\ runs \in Nat
    BY DEF HandleStartCapture, capture, TypeOK
  <1>1. RecorderKnows' /\ RecordedFirst' /\ LoggedBeforeSeen' /\ LinesHaveHeads'
    BY <1>0, LogParts DEF RecorderKnows, LogIsOpenFor, RecordedFirst, LoggedBeforeSeen, LinesHaveHeads
  <1>2. MetadataIsPast'
    BY <1>0, LogParts, EventsAreNumbered DEF MetadataIsPast
  <1>3. RunIsNew'
    BY <1>0, LogParts, EventsAreNumbered DEF RunIsNew, NothingYet, MetadataIsPast, WireInOrder
  <1> QED BY <1>1, <1>2, <1>3, LogWhole

LEMMA MakeRecorderKeepsLog ==
  ASSUME TypeOK, EngineInv, LogInOrder, NEW c \in Clients, MakeRecorder(c)
  PROVE  LogInOrder'
  <1>0. /\ pc[c] = "make_recorder" /\ c \in Threads /\ c # Main
        /\ UNCHANGED <<wire, config, runs, callback, mutex>>
        /\ runs \in Nat /\ wire \in Seq(Message) /\ log \in Seq(LogLine)
    BY ClientIsThread DEF MakeRecorder, capture, TypeOK
  <1>1. mutex = c /\ recorder = Null /\ Silent /\ NothingYet(runs)
    BY <1>0, Holder, LogParts, PointFacts DEF BuildingAt, Gone, StartSteps, RunIsNew
  <1>2. \A u \in Clients : pc'[u] # "make_recorder"
    <2>1. pc'[c] # "make_recorder" /\ \A u \in Threads : u # c => pc'[u] = pc[u]
      BY <1>0, Moved DEF MakeRecorder
    <2>2. \A u \in Threads : u # c => pc'[u] \notin Steps
      BY <1>0, <1>1, <2>1, Outsiders
    <2> QED BY <2>1, <2>2, PointFacts, ClientIsThread DEF StartSteps
  <1>3. RunIsNew' /\ RecordedFirst'
    BY <1>0, <1>1, <1>2 DEF RunIsNew, RecordedFirst, Silent
  <1>4. CASE config \in Logged /\ recorder' = runs /\ log' = Append(log, Metadata(runs))
    <2>1. /\ DOMAIN log' = DOMAIN log \cup {Len(log) + 1}
          /\ log'[Len(log) + 1] = Metadata(runs)
          /\ \A i \in DOMAIN log : i \in Nat /\ i < Len(log) + 1 /\ log'[i] = log[i]
          /\ Len(log) \in Nat /\ DOMAIN log = 1..Len(log)
      BY <1>0, <1>4, AppendFacts
    <2>2. IsMetadata(Metadata(runs)) /\ Metadata(runs).run = runs
      BY LineKinds
    <2>3. RecorderKnows'
      BY <1>0, <1>4, <2>1, <2>2 DEF RecorderKnows, LogIsOpenFor
    <2>4. MetadataIsPast'
      BY <1>0, <2>1, <2>2, LogParts DEF MetadataIsPast
    <2>5. LoggedBeforeSeen'
      BY SMTT(20), <1>0, <1>1, <2>1, <2>2, LogParts, EventsAreNumbered DEF LoggedBeforeSeen, NothingYet
    <2>6. LinesHaveHeads'
      <3> SUFFICES ASSUME NEW j \in DOMAIN log', ~IsMetadata(log'[j])
                   PROVE  \E i \in 1..(j - 1) :
                            /\ IsMetadata(log'[i]) /\ log'[i].run = log'[j].run
                            /\ \A k \in (i + 1)..j : ~IsMetadata(log'[k])
        BY DEF LinesHaveHeads
      <3>1. j \in DOMAIN log /\ log'[j] = log[j]
        BY <2>1, <2>2
      <3>2. PICK i \in 1..(j - 1) :
              /\ IsMetadata(log[i]) /\ log[i].run = log[j].run
              /\ \A k \in (i + 1)..j : ~IsMetadata(log[k])
        BY <3>1, LogParts DEF LinesHaveHeads
      <3>3. i \in DOMAIN log /\ \A k \in (i + 1)..j : k \in DOMAIN log
        BY <2>1, <3>1
      <3> QED BY <2>1, <3>1, <3>2, <3>3
    <2> QED BY <1>3, <2>3, <2>4, <2>5, <2>6, LogWhole
  <1>5. CASE log' = log /\ (config \notin Logged \/ recorder' = Null) /\ recorder' \in {runs, Null}
    <2>1. RecorderKnows'
      BY <1>0, <1>1, <1>5, EventsAreNumbered DEF RecorderKnows, NothingYet
    <2>2. MetadataIsPast' /\ LoggedBeforeSeen' /\ LinesHaveHeads'
      BY <1>0, <1>5, LogParts DEF MetadataIsPast, LoggedBeforeSeen, LinesHaveHeads
    <2> QED BY <1>3, <2>1, <2>2, LogWhole
  <1> QED BY <1>1, <1>4, <1>5 DEF MakeRecorder

LEMMA RecordKeepsLog ==
  ASSUME TypeOK, EngineInv, WireInOrder, LogInOrder, NEW e \in Emitters, Record(e)
  PROVE  LogInOrder'
  <1>0. /\ callback[e].at = "record"
        /\ UNCHANGED <<wire, config, runs, recorder, pc>>
        /\ runs \in Nat /\ wire \in Seq(Message) /\ log \in Seq(LogLine)
    BY DEF Record, control, engine, TypeOK
  <1>1. /\ callback[e].run = recorder /\ recorder = runs /\ recorder # Null
        /\ \A c \in Clients : pc[c] # "make_recorder"
    BY <1>0, CallbackRecorder
  <1>2. RunIsNew'
    BY <1>0, <1>1 DEF RunIsNew
  <1>3. /\ callback'[e].run = callback[e].run /\ callback'[e].n = callback[e].n
        /\ \A u \in Emitters : u # e => callback'[u] = callback[u]
    BY DEF Record, TypeOK
  <1>4. CASE config \notin Logged
    <2>1. log' = log
      BY <1>4 DEF Record
    <2>2. RecordedFirst'
      BY <1>0, <1>4 DEF RecordedFirst
    <2>3. RecorderKnows' /\ MetadataIsPast' /\ LoggedBeforeSeen' /\ LinesHaveHeads'
      BY <1>0, <2>1, LogParts DEF RecorderKnows, LogIsOpenFor, MetadataIsPast, LoggedBeforeSeen,
                                  LinesHaveHeads
    <2> QED BY <1>2, <2>2, <2>3, LogWhole
  <1>5. CASE config \in Logged
    <2> DEFINE l == Event(callback[e].run, callback[e].n)
    <2>0. log' = Append(log, l)
      BY <1>5 DEF Record
    <2>1. /\ DOMAIN log' = DOMAIN log \cup {Len(log) + 1}
          /\ log'[Len(log) + 1] = l
          /\ \A i \in DOMAIN log : i \in Nat /\ i < Len(log) + 1 /\ log'[i] = log[i]
          /\ Len(log) \in Nat /\ DOMAIN log = 1..Len(log)
      BY <1>0, <2>0, AppendFacts
    <2>2. ~IsMetadata(l) /\ l.run = recorder
      BY <1>1, LineKinds
    <2>3. Event(callback'[e].run, callback'[e].n) = l
      BY <1>3
    <2> HIDE DEF l
    <2>4. PICK h \in DOMAIN log : /\ log[h] = Metadata(recorder)
                                  /\ \A k \in DOMAIN log : k > h => ~IsMetadata(log[k])
      BY <1>1, <1>5, LogParts DEF RecorderKnows, LogIsOpenFor
    <2>5. RecorderKnows'
      BY <1>0, <1>5, <2>1, <2>2, <2>4 DEF RecorderKnows, LogIsOpenFor
    <2>6. MetadataIsPast'
      BY <1>0, <2>1, <2>2, LogParts DEF MetadataIsPast
    <2>7. RecordedFirst'
      <3>1. ASSUME NEW u \in Emitters, u # e, callback'[u].at = "broadcast"
            PROVE  \E j \in DOMAIN log' : log'[j] = Event(callback'[u].run, callback'[u].n)
        BY <1>3, <1>5, <2>1, <3>1, LogParts DEF RecordedFirst
      <3>2. \E j \in DOMAIN log' : log'[j] = Event(callback'[e].run, callback'[e].n)
        BY <2>1, <2>3
      <3> QED BY <3>1, <3>2 DEF RecordedFirst
    <2>8. LoggedBeforeSeen'
      BY <1>0, <2>1, <2>2, LogParts DEF LoggedBeforeSeen
    <2>9. LinesHaveHeads'
      <3> SUFFICES ASSUME NEW j \in DOMAIN log', ~IsMetadata(log'[j])
                   PROVE  \E i \in 1..(j - 1) :
                            /\ IsMetadata(log'[i]) /\ log'[i].run = log'[j].run
                            /\ \A k \in (i + 1)..j : ~IsMetadata(log'[k])
        BY DEF LinesHaveHeads
      <3>1. CASE j \in DOMAIN log
        <4>1. PICK i \in 1..(j - 1) :
                /\ IsMetadata(log[i]) /\ log[i].run = log[j].run
                /\ \A k \in (i + 1)..j : ~IsMetadata(log[k])
          BY <2>1, <3>1, LogParts DEF LinesHaveHeads
        <4>2. i \in DOMAIN log /\ \A k \in (i + 1)..j : k \in DOMAIN log
          BY <2>1, <3>1
        <4> QED BY <2>1, <3>1, <4>1, <4>2
      <3>2. CASE j = Len(log) + 1
        <4>1. IsMetadata(log'[h]) /\ log'[h].run = log'[j].run /\ h \in 1..(j - 1)
          BY <2>1, <2>2, <2>4, <3>2, LineKinds
        <4>2. \A k \in (h + 1)..j : ~IsMetadata(log'[k])
          BY <2>1, <2>2, <2>4, <3>2
        <4> QED BY <4>1, <4>2
      <3> QED BY <2>1, <3>1, <3>2
    <2> QED BY <1>2, <2>5, <2>6, <2>7, <2>8, <2>9, LogWhole
  <1> QED BY <1>4, <1>5

LEMMA BroadcastKeepsLog ==
  ASSUME TypeOK, EngineInv, WireInOrder, LogInOrder, NEW e \in Emitters, Broadcast(e)
  PROVE  LogInOrder'
  <1>0. /\ callback[e].at = "broadcast"
        /\ UNCHANGED <<log, config, runs, recorder, pc>>
        /\ wire' = Append(wire, Event(callback[e].run, callback[e].n))
        /\ wire \in Seq(Message)
    BY DEF Broadcast, Send, control, engine, TypeOK
  <1>1. /\ callback[e].run = recorder /\ recorder = runs /\ recorder # Null
        /\ \A c \in Clients : pc[c] # "make_recorder"
    BY <1>0, CallbackRecorder
  <1>2. RunIsNew'
    BY <1>0, <1>1 DEF RunIsNew
  <1>3. RecorderKnows' /\ MetadataIsPast' /\ LinesHaveHeads'
    BY <1>0, LogParts DEF RecorderKnows, LogIsOpenFor, MetadataIsPast, LinesHaveHeads
  <1>4. RecordedFirst'
    <2>1. callback'[e].at = "none" /\ \A u \in Emitters : u # e => callback'[u] = callback[u]
      BY DEF Broadcast, TypeOK, NoCall
    <2> QED BY <1>0, <2>1, LogParts DEF RecordedFirst
  <1>5. LoggedBeforeSeen'
    <2> DEFINE m == Event(callback[e].run, callback[e].n)
    <2>1. /\ DOMAIN wire' = DOMAIN wire \cup {Len(wire) + 1}
          /\ wire'[Len(wire) + 1] = m
          /\ \A i \in DOMAIN wire : wire'[i] = wire[i]
      BY <1>0, AppendFacts
    <2>2. m.run = recorder
      BY <1>1, LineKinds
    <2>3. \/ \E j \in DOMAIN log : log[j] = m
          \/ ~\E j \in DOMAIN log : IsMetadata(log[j]) /\ log[j].run = m.run
      BY <1>0, <1>1, <2>2, LogParts DEF RecorderKnows, RecordedFirst
    <2> HIDE DEF m
    <2> QED BY <1>0, <2>1, <2>3, LogParts DEF LoggedBeforeSeen
  <1> QED BY <1>2, <1>3, <1>4, <1>5, LogWhole

LEMMA EnteredAside ==
  ASSUME TypeOK, NEW e \in Emitters, NEW run, EnterCallback(e, run)
  PROVE  \A u \in Emitters : callback'[u].at = "broadcast" => callback'[u] = callback[u]
  BY DEF EnterCallback, TypeOK

LEMMA MovedAside ==
  ASSUME TypeOK, NEW t \in Threads, NEW p, p # "make_recorder", Goto(t, p)
  PROVE  \A c \in Clients : pc'[c] = "make_recorder" => pc[c] = "make_recorder"
  BY Moved, ClientIsThread

\* An answer, and any other step that moves one thread and calls nobody back.
LEMMA MoveAside ==
  ASSUME TypeOK, NEW t \in Threads, NEW p, p # "make_recorder", Goto(t, p),
         log' = log, runs' = runs, recorder' = recorder \/ recorder' = Null,
         wire' = wire \/ \E m : wire' = Append(wire, m) /\ ~IsEvent(m),
         config' = config \/ (recorder = Null /\ Silent),
         \A e \in Emitters : callback'[e].at = "broadcast" => callback'[e] = callback[e]
  PROVE  LogAside
  BY MovedAside DEF LogAside

LEMMA ReplyAside ==
  ASSUME TypeOK, NEW c \in Clients, NEW m, ~IsEvent(m), Reply(c, m),
         UNCHANGED <<mutex, engine, capture, log>>
  PROVE  LogAside
  <1>1. /\ Goto(c, "idle") /\ UNCHANGED <<log, runs, recorder, config, callback>>
        /\ wire' = Append(wire, m)
    BY DEF Reply, Send, engine, capture
  <1> QED BY <1>1, ClientIsThread, MoveAside

LEMMA HandlerAside ==
  ASSUME TypeOK, EngineInv, NEW c \in Clients,
         \/ Receive(c) \/ UnlockedHandler(c) \/ HandleGetStatus(c) \/ HandleConfigure(c)
         \/ Refuse(c, "start_capture") \/ HandleStopCapture(c) \/ HandleSend(c)
  PROVE  LogAside
  <1> USE DEF engine, capture
  <1>0. c \in Threads /\ c \in Emitters
    BY ClientIsThread
  <1>1. CASE Receive(c)
    <2>1. UNCHANGED <<log, runs, recorder, config, callback, wire>>
      BY <1>1 DEF Receive
    <2>2. pc' = pc \/ Goto(c, "called")
      BY <1>1 DEF Receive
    <2>3. CASE pc' = pc
      BY <2>1, <2>3 DEF LogAside
    <2>4. CASE Goto(c, "called")
      BY <1>0, <2>1, <2>4, MoveAside
    <2> QED BY <2>2, <2>3, <2>4
  <1>2. CASE DropNoise(c)
    <2>1. UNCHANGED <<log, runs, recorder, config, callback, wire>> /\ Goto(c, "idle")
      BY <1>2 DEF DropNoise
    <2> QED BY <1>0, <2>1, MoveAside
  <1>3. ASSUME NEW op, NEW ok, Reply(c, Result(c, op, ok)), UNCHANGED <<mutex, engine, capture, log>>
        PROVE  LogAside
    BY <1>3, Kinds, ReplyAside
  <1>4. ASSUME NEW op, Refuse(c, op) PROVE LogAside
    BY <1>3, <1>4 DEF Refuse
  <1>5. CASE UnknownCommand(c) \/ HandleListSerialPorts(c)
    BY <1>3, <1>5 DEF UnknownCommand, HandleListSerialPorts
  <1>6. CASE HandleGetStatus(c)
    <2>1. Reply(c, Report(c, EngineStateNow, config)) /\ UNCHANGED <<mutex, engine, capture, log>>
      BY <1>6 DEF HandleGetStatus, EngineStateNow
    <2> QED BY <2>1, Kinds, ReplyAside
  <1>7. CASE HandleConfigure(c) /\ ~Refuse(c, "configure")
    <2>1. /\ mutex = Free /\ ~capturing
          /\ Goto(c, "status") /\ UNCHANGED <<log, runs, recorder, callback>>
          /\ wire' = Append(wire, Result(c, "configure", TRUE))
      BY <1>7 DEF HandleConfigure, Locked, Send
    <2>2. recorder = Null /\ Silent
      BY <2>1, NobodyInside DEF Gone
    <2>3. \E m : wire' = Append(wire, m) /\ ~IsEvent(m)
      BY <2>1, Kinds
    <2> QED BY <1>0, <2>1, <2>2, <2>3, MoveAside
  <1>8. CASE HandleStopCapture(c) /\ ~Refuse(c, "stop_capture")
    <2>1. Goto(c, "stop_session") /\ UNCHANGED <<log, runs, recorder, config, callback, wire>>
      BY <1>8 DEF HandleStopCapture
    <2> QED BY <1>0, <2>1, MoveAside
  <1>9. CASE HandleSend(c) /\ ~Refuse(c, "send")
    <2>1. /\ Goto(c, "sending") /\ UNCHANGED <<log, runs, recorder, config, wire>>
          /\ EnterCallback(c, session)
      BY <1>9 DEF HandleSend
    <2>2. \A u \in Emitters : callback'[u].at = "broadcast" => callback'[u] = callback[u]
      BY <1>0, <2>1, EnteredAside
    <2> QED BY <1>0, <2>1, <2>2, MoveAside
  <1> QED BY <1>1, <1>2, <1>4, <1>5, <1>6, <1>7, <1>8, <1>9 DEF UnlockedHandler

LEMMA StartStepAside ==
  ASSUME TypeOK, NEW c \in Clients, StartStep(c), ~MakeRecorder(c)
  PROVE  LogAside
  <1> USE DEF engine, capture
  <1>0. c \in Threads /\ c \in Emitters
    BY ClientIsThread
  <1>1. /\ log' = log /\ runs' = runs /\ config' = config
        /\ recorder' = recorder \/ recorder' = Null
    BY DEF StartStep, BuildPipeline, StartTransport, SessionStarted, SessionFailed, Unwind, Rollback
  <1>2. \/ Goto(c, "rollback") \/ Goto(c, "start_transport") \/ Goto(c, "await_start")
        \/ Goto(c, "status") \/ Goto(c, "unwind") \/ Goto(c, "idle")
    BY DEF StartStep, BuildPipeline, StartTransport, SessionStarted, SessionFailed, Unwind,
           Rollback, Reply
  <1>3. wire' = wire \/ \E m : wire' = Append(wire, m) /\ ~IsEvent(m)
    <2>1. wire' = wire \/ \E ok : wire' = Append(wire, Result(c, "start_capture", ok))
      BY DEF StartStep, BuildPipeline, StartTransport, SessionStarted, SessionFailed, Unwind,
             Rollback, Reply, Send
    <2> QED BY <2>1, Kinds
  <1>4. callback' = callback \/ EnterCallback(c, runs)
    BY DEF StartStep, BuildPipeline, StartTransport, SessionStarted, SessionFailed, Unwind, Rollback
  <1>5. \A u \in Emitters : callback'[u].at = "broadcast" => callback'[u] = callback[u]
    BY <1>0, <1>4, EnteredAside
  <1> QED BY <1>0, <1>1, <1>2, <1>3, <1>5, MoveAside

LEMMA StopStepAside ==
  ASSUME TypeOK, NEW t \in Threads, StopStep(t)
  PROVE  LogAside
  <1> USE DEF engine, capture
  <1>1. /\ log' = log /\ runs' = runs /\ config' = config
        /\ recorder' = recorder \/ recorder' = Null
    BY DEF StopStep, StopSession, JoinSession, CloseTransport, DestroySession, ResetPipeline,
           ResetRecorder
  <1>2. \/ Goto(t, "destroy_session") \/ Goto(t, "join_session") \/ Goto(t, "reset_pipeline")
        \/ Goto(t, "reset_recorder") \/ Goto(t, "clear_handler") \/ Goto(t, "status") \/ pc' = pc
    BY DEF StopStep, StopSession, JoinSession, CloseTransport, DestroySession, ResetPipeline,
           ResetRecorder, control
  <1>3. wire' = wire \/ \E m : wire' = Append(wire, m) /\ ~IsEvent(m)
    <2>1. wire' = wire \/ wire' = Append(wire, Result(t, "stop_capture", TRUE))
      BY DEF StopStep, StopSession, JoinSession, CloseTransport, DestroySession, ResetPipeline,
             ResetRecorder, Send
    <2> QED BY <2>1, Kinds
  <1>4. callback' = callback \/ EnterCallback(t, session)
    BY DEF StopStep, StopSession, JoinSession, CloseTransport, DestroySession, ResetPipeline,
           ResetRecorder
  <1>5. \A u \in Emitters : callback'[u].at = "broadcast" => callback'[u] = callback[u]
    BY <1>4, EnteredAside DEF Emitters
  <1>6. CASE pc' = pc
    BY <1>1, <1>3, <1>5, <1>6 DEF LogAside
  <1> QED BY <1>1, <1>2, <1>3, <1>5, <1>6, MoveAside

LEMMA FinishStepAside ==
  ASSUME TypeOK, NEW c \in Clients, FinishStep(c)
  PROVE  LogAside
  <1>1. /\ UNCHANGED <<log, runs, recorder, config, callback>> /\ Goto(c, "idle")
        /\ \/ wire' = Append(wire, Status(EngineStateNow, config))
           \/ wire' = Append(wire, Result(c, "send", TRUE))
    BY DEF FinishStep, BroadcastStatus, SendDone, Reply, Send, engine, capture, EngineStateNow
  <1>2. \E m : wire' = Append(wire, m) /\ ~IsEvent(m)
    BY <1>1, Kinds
  <1> QED BY <1>1, <1>2, ClientIsThread, MoveAside

LEMMA OtherStepAside ==
  ASSUME TypeOK, (\E w \in Workers : Deliver(w)) \/ MainStep \/ UNCHANGED vars
  PROVE  LogAside
  <1>0. Main \in Threads
    BY DEF Threads
  <1>1. ASSUME NEW w \in Workers, Deliver(w) PROVE LogAside
    <2>1. /\ UNCHANGED <<log, runs, recorder, config, wire, pc>>
          /\ EnterCallback(w, transport) /\ w \in Emitters
      BY <1>1 DEF Deliver, control, engine, Emitters
    <2>2. \A u \in Emitters : callback'[u].at = "broadcast" => callback'[u] = callback[u]
      BY <2>1, EnteredAside
    <2> QED BY <2>1, <2>2 DEF LogAside
  <1>2. CASE MainStep
    <2>1. UNCHANGED <<log, runs, recorder, config, wire, callback>>
      BY <1>2 DEF MainStep, Install, StopRequested, Shutdown, ClearHandler, StopServer, engine, capture
    <2>2. \/ pc' = pc \/ Goto(Main, "stop_session") \/ Goto(Main, "clear_handler")
          \/ Goto(Main, "idle")
      BY <1>2 DEF MainStep, Install, StopRequested, Shutdown, ClearHandler, StopServer
    <2>3. CASE pc' = pc
      BY <2>1, <2>3 DEF LogAside
    <2> QED BY <1>0, <2>1, <2>2, <2>3, MoveAside
  <1>3. CASE UNCHANGED vars
    BY <1>3 DEF vars, control, engine, capture, LogAside
  <1> QED BY <1>1, <1>2, <1>3

LEMMA InitLog == Init => LogInOrder
  <1> SUFFICES ASSUME Init PROVE LogInOrder
    OBVIOUS
  <1>1. DOMAIN log = {} /\ DOMAIN wire = {} /\ recorder = Null
    BY DEF Init
  <1>2. \A e \in Emitters : callback[e].at = "none"
    BY DEF Init, NoCall
  <1> QED BY <1>1, <1>2 DEF LogInOrder, NothingYet, LoggedBeforeSeen

LEMMA StepLog ==
  ASSUME TypeOK, EngineInv, WireInOrder, LogInOrder, [Next]_vars
  PROVE  LogInOrder'
  <1>1. ASSUME NEW c \in Clients, HandleStartCapture(c) PROVE LogInOrder'
    <2>1. CASE Refuse(c, "start_capture")
      BY <2>1, HandlerAside, AsideKeepsLog
    <2> QED BY <1>1, <2>1, StartCaptureKeepsLog
  <1>2. ASSUME NEW c \in Clients,
               Receive(c) \/ UnlockedHandler(c) \/ LockedHandler(c) \/ FinishStep(c)
        PROVE  LogInOrder'
    BY <1>1, <1>2, HandlerAside, FinishStepAside, AsideKeepsLog DEF LockedHandler
  <1>3. ASSUME NEW c \in Clients, StartStep(c) PROVE LogInOrder'
    BY <1>3, MakeRecorderKeepsLog, StartStepAside, AsideKeepsLog
  <1>4. ASSUME NEW t \in Threads, StopStep(t) PROVE LogInOrder'
    BY <1>4, StopStepAside, AsideKeepsLog
  <1>5. ASSUME NEW e \in Emitters, Record(e) \/ Broadcast(e) PROVE LogInOrder'
    BY <1>5, RecordKeepsLog, BroadcastKeepsLog
  <1>6. CASE (\E w \in Workers : Deliver(w)) \/ MainStep \/ UNCHANGED vars
    BY <1>6, OtherStepAside, AsideKeepsLog
  <1> QED BY <1>2, <1>3, <1>4, <1>5, <1>6 DEF Next

LEMMA LogOrder == Spec => []LogInOrder
  BY InitLog, StepLog, TypeCorrect, Invariant, WireOrder, PTL DEF Spec

-----------------------------------------------------------------------------
\* Captures never run into each other, neither in the order in which viewers
\* are told of them nor in the log file.
THEOREM CapturesDoNotMix == Spec => []CapturesAreSeparate
  <1>1. WireInOrder /\ LogInOrder => CapturesAreSeparate
    BY DEF WireInOrder, LogInOrder, CapturesAreSeparate
  <1> QED BY <1>1, WireOrder, LogOrder, PTL

\* What a viewer has been shown of a logged capture is in the file already.
THEOREM LogLeads == Spec => []LoggedBeforeSeen
  <1>1. LogInOrder => LoggedBeforeSeen
    BY DEF LogInOrder
  <1> QED BY <1>1, LogOrder, PTL

\* The whole of what the engine remembers of the past is inductive.
THEOREM History == Spec => []HistoryInv
  <1>1. Announced /\ Accounted /\ WireInOrder /\ LogInOrder => HistoryInv
    BY DEF HistoryInv
  <1> QED BY <1>1, StatusOrder, AnswerCount, WireOrder, LogOrder, PTL
=============================================================================
