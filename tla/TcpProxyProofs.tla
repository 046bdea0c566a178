--------------------------- MODULE TcpProxyProofs ---------------------------
(***************************************************************************)
(* The end of a proxy session, what it forwards and what it measures, for  *)
(* any number of chunks, whether or not closing the listener wakes         *)
(* accept() and with or without latencies.                                 *)
(***************************************************************************)
EXTENDS TcpProxyProperties, FiniteSetTheorems, TLAPS

-----------------------------------------------------------------------------
(***************************************************************************)
(* Types                                                                   *)
(***************************************************************************)
PcType ==
    /\ pc \in [Threads -> OwnerPoints \cup AcceptPoints \cup ForwardPoints]
    /\ pc[Owner] \in OwnerPoints /\ pc[Accept] \in AcceptPoints
    /\ \A d \in Forwarders : pc[d] \in ForwardPoints

EventsType == emitted \in Seq(EventType) /\ counter \in Nat

\* The threads are four different ones.
LEMMA ThreadFacts ==
  /\ Owner \in Threads /\ Accept \in Threads /\ Forwarders \subseteq Threads
  /\ Owner # Accept /\ Owner \notin Spawned /\ Accept \notin Forwarders
  /\ Spawned \subseteq Threads /\ Threads = Spawned \cup {Owner}
  /\ Accept \in Spawned /\ Forwarders \subseteq Spawned /\ Spawned = Forwarders \cup {Accept}
  /\ AppToDevice \in Forwarders /\ DeviceToApp \in Forwarders /\ AppToDevice # DeviceToApp
  /\ Forwarders = {AppToDevice, DeviceToApp}
  BY DEF Threads, Spawned, Forwarders, Owner, Accept, AppToDevice, DeviceToApp

LEMMA GotoOwner ==
  ASSUME PcType, NEW p \in OwnerPoints, Goto(Owner, p)
  PROVE  PcType' /\ pc'[Owner] = p /\ \A t \in Spawned : pc'[t] = pc[t]
  BY ThreadFacts DEF PcType, Goto

LEMMA GotoAccept ==
  ASSUME PcType, NEW p \in AcceptPoints, Goto(Accept, p)
  PROVE  PcType' /\ pc'[Accept] = p /\ \A t \in Threads \ {Accept} : pc'[t] = pc[t]
  BY ThreadFacts DEF PcType, Goto

LEMMA GotoForward ==
  ASSUME PcType, NEW d \in Forwarders, NEW p \in ForwardPoints, Goto(d, p)
  PROVE  PcType' /\ pc'[d] = p /\ \A t \in Threads \ {d} : pc'[t] = pc[t]
  BY ThreadFacts DEF PcType, Goto

LEMMA NoticeTyped ==
  ASSUME EventsType, NEW type \in NoticeTypes, EmitNotice(type)
  PROVE  EventsType'
<1>1. Notice(type, counter) \in EventType
  BY DEF EventsType, EventType, Notice
<1> QED
  BY <1>1 DEF EventsType, EmitNotice

\* What is said of the variables that are neither a place nor an event.
FlagsType ==
    /\ stopped \in BOOLEAN /\ destroying \in BOOLEAN
    /\ acceptor \in {"none", "open", "closed"} /\ sockets \in {"none", "open", "closed"}
    /\ handle \in [Spawned -> BOOLEAN] /\ was_stopped \in [Threads -> BOOLEAN]

DataType ==
    /\ reads \in [Forwarders -> Nat] /\ chunk \in [Forwarders -> Nat]
    /\ pending \in Seq(Nat)
    /\ forwarded \in [Forwarders -> Seq(Nat)]

LEMMA TypeParts == TypeOK <=> PcType /\ FlagsType /\ DataType /\ EventsType
  BY DEF TypeOK, PcType, FlagsType, DataType, EventsType

LEMMA TypePartsNext == TypeOK' <=> PcType' /\ FlagsType' /\ DataType' /\ EventsType'
  BY DEF TypeOK, PcType, FlagsType, DataType, EventsType

LEMMA PointFacts ==
  /\ {"new", "spawn", "open", "destroy", "close", "report", "destroyed"} \cup Spawned
         = OwnerPoints
  /\ {"none", "begin", "accepting", "connecting", "failed", "abandon", "connected",
      "spawn_app", "keep_app", "spawn_device", "keep_device", "done"} = AcceptPoints
  /\ {"none", "loop", "read", "emit", "observe", "write", "leave", "close",
      "report", "done"} = ForwardPoints
  /\ {"listening", "error", "proxy connected", "proxy stopped"} = NoticeTypes
  BY DEF OwnerPoints, AcceptPoints, ForwardPoints, NoticeTypes

\* stop() joins the forwarding threads and then the accept thread.
LEMMA JoinFacts ==
  /\ JoinOrder[AppToDevice] = DeviceToApp
  /\ JoinOrder[DeviceToApp] = Accept
  /\ JoinOrder[Accept] = "report"
  BY DEF JoinOrder, Accept, AppToDevice, DeviceToApp

LEMMA InitType == Init => TypeOK
<1> SUFFICES ASSUME Init PROVE TypeOK
  OBVIOUS
<1>1. PcType
  BY ThreadFacts, PointFacts DEF Init, PcType
<1>2. FlagsType
  BY DEF Init, FlagsType
<1>3. <<>> \in Seq(Nat) /\ <<>> \in Seq(EventType)
  OBVIOUS
<1>4. DataType
  BY <1>3 DEF Init, DataType
<1>5. EventsType
  BY <1>3 DEF Init, EventsType
<1> QED
  BY <1>1, <1>2, <1>4, <1>5, TypeParts

LEMMA StartType ==
  ASSUME TypeOK, Start
  PROVE  TypeOK'
<1> USE TypeParts, TypePartsNext, PointFacts, ThreadFacts
<1>1. CASE StartFails
  <2>1. PcType'
    BY <1>1, GotoOwner DEF StartFails
  <2> QED
    BY <1>1, <2>1 DEF StartFails, FlagsType, DataType, EventsType, data, Silent
<1>2. CASE StartListening
  <2>1. PcType'
    BY <1>2, GotoOwner DEF StartListening
  <2>2. EventsType'
    BY <1>2, NoticeTyped DEF StartListening
  <2> QED
    BY <1>2, <2>1, <2>2 DEF StartListening, FlagsType, DataType, data
<1>3. CASE SpawnAccept
  <2>1. PcType'
    <3>1. CASE Goto(Owner, "destroy")
      BY <3>1, GotoOwner
    <3>2. CASE pc' = [pc EXCEPT ![Owner] = "open", ![Accept] = "begin"]
      BY <3>2 DEF PcType
    <3> QED
      BY <1>3, <3>1, <3>2 DEF SpawnAccept
  <2>2. FlagsType'
    BY <1>3 DEF SpawnAccept, FlagsType
  <2> QED
    BY <1>3, <2>1, <2>2 DEF SpawnAccept, DataType, EventsType, data, Silent
<1> QED
  BY <1>1, <1>2, <1>3 DEF Start

LEMMA StopType ==
  ASSUME TypeOK, Stop
  PROVE  TypeOK'
<1> USE TypeParts, TypePartsNext, PointFacts, ThreadFacts
<1>1. CASE StopCalled
  <2>1. PcType'
    BY <1>1, GotoOwner DEF StopCalled
  <2> QED
    BY <1>1, <2>1 DEF StopCalled, FlagsType, DataType, EventsType, data, Silent
<1>2. CASE CloseAll
  <2>1. PcType'
    BY <1>2, GotoOwner DEF CloseAll
  <2> QED
    BY <1>2, <2>1 DEF CloseAll, Shut, FlagsType, DataType, EventsType, data, Silent
<1>3. CASE ReportStop
  <2>1. PcType'
    BY <1>3, GotoOwner DEF ReportStop
  <2>2. EventsType'
    BY <1>3, NoticeTyped DEF ReportStop, Silent, EventsType
  <2> QED
    BY <1>3, <2>1, <2>2 DEF ReportStop, FlagsType, DataType, sync, data
<1>4. ASSUME NEW t \in Spawned, Join(t) PROVE TypeOK'
  <2>1. JoinOrder[t] \in OwnerPoints
    BY JoinFacts
  <2>2. PcType'
    BY <1>4, <2>1, GotoOwner DEF Join
  <2> QED
    BY <1>4, <2>2 DEF Join, FlagsType, DataType, EventsType, data, Silent
<1> QED
  BY <1>1, <1>2, <1>3, <1>4 DEF Stop

LEMMA AcceptType ==
  ASSUME TypeOK, AcceptThread
  PROVE  TypeOK'
<1> USE TypeParts, TypePartsNext, PointFacts, ThreadFacts
<1>1. ASSUME Silent /\ UNCHANGED <<sync, data>>, PcType' PROVE TypeOK'
  BY <1>1 DEF Silent, sync, data, FlagsType, DataType, EventsType
<1>2. ASSUME NEW p \in AcceptPoints, Goto(Accept, p) PROVE PcType'
  BY <1>2, GotoAccept
<1>3. ASSUME NEW type \in NoticeTypes, EmitNotice(type), UNCHANGED <<sync, data>>, PcType'
      PROVE  TypeOK'
  BY <1>3, NoticeTyped DEF sync, data, FlagsType, DataType
<1>4. CASE BeginAccept
  BY <1>4, <1>1, <1>2 DEF BeginAccept
<1>5. CASE Accepted \/ AcceptFailed
  BY <1>5, <1>1, <1>2 DEF Accepted, AcceptFailed
<1>6. CASE ReportFailure
  BY <1>6, <1>1, <1>2, <1>3 DEF ReportFailure
<1>7. CASE Abandon
  <2>1. PcType'
    BY <1>7, <1>2 DEF Abandon
  <2> QED
    BY <1>7, <2>1 DEF Abandon, Silent, data, FlagsType, DataType, EventsType
<1>8. CASE ConnectFailed
  BY <1>8, <1>2, <1>3 DEF ConnectFailed
<1>9. CASE Threw
  BY <1>9, <1>1, <1>2 DEF Threw
<1>10. CASE Publish
  <2>1. PcType'
    BY <1>10, <1>2 DEF Publish
  <2> QED
    BY <1>10, <2>1 DEF Publish, Silent, data, FlagsType, DataType, EventsType
<1>11. CASE Connected
  BY <1>11, <1>2, <1>3 DEF Connected
<1>12. ASSUME NEW d \in Forwarders, SpawnForwarder(d) PROVE TypeOK'
  <2>1. PcType'
    BY <1>12 DEF SpawnForwarder, PcType
  <2> QED
    BY <1>12, <2>1, <1>1 DEF SpawnForwarder
<1>13. ASSUME NEW d \in Forwarders, KeepForwarder(d) PROVE TypeOK'
  <2>1. PcType'
    BY <1>13, <1>2 DEF KeepForwarder
  <2> QED
    BY <1>13, <2>1 DEF KeepForwarder, Silent, data, FlagsType, DataType, EventsType
<1> QED
  BY <1>4, <1>5, <1>6, <1>7, <1>8, <1>9, <1>10, <1>11, <1>12, <1>13 DEF AcceptThread

LEMMA ForwardType ==
  ASSUME TypeOK, NEW d \in Forwarders, Forward(d)
  PROVE  TypeOK'
<1>p. PcType /\ FlagsType /\ DataType /\ EventsType
  BY TypeParts
<1> SUFFICES PcType' /\ FlagsType' /\ DataType' /\ EventsType'
  BY TypePartsNext
<1>g. ASSUME NEW p \in ForwardPoints, Goto(d, p) PROVE PcType'
  BY <1>p, <1>g, GotoForward
<1>1. CASE CheckStopped(d) \/ ReadOrWriteFailed(d)
  <2>1. PcType'
    BY <1>1, <1>g, PointFacts DEF CheckStopped, ReadOrWriteFailed
  <2> QED
    BY <1>p, <1>1, <2>1
       DEF CheckStopped, ReadOrWriteFailed, Silent, sync, data, FlagsType, DataType, EventsType
<1>2. CASE Read(d)
  <2>1. PcType'
    BY <1>2, <1>g, PointFacts DEF Read
  <2>2. FlagsType'
    BY <1>p, <1>2 DEF Read, sync, FlagsType
  <2>3. EventsType'
    BY <1>p, <1>2 DEF Read, EventsType
  <2>4. reads' \in [Forwarders -> Nat]
    BY <1>p, <1>2 DEF Read, DataType
  <2>5. chunk' \in [Forwarders -> Nat]
    BY <1>p, <1>2 DEF Read, DataType, EventsType
  <2> QED
    BY <1>p, <1>2, <2>1, <2>2, <2>3, <2>4, <2>5 DEF Read, DataType
<1>3. CASE EmitRaw(d)
  <2>1. PcType'
    BY <1>3, <1>g, PointFacts DEF EmitRaw
  <2>2. RawBytes(d, chunk[d]) \in EventType
    BY <1>p DEF RawBytes, EventType, DataType
  <2>3. EventsType'
    BY <1>p, <1>3, <2>2 DEF EmitRaw, EventsType
  <2> QED
    BY <1>p, <1>3, <2>1, <2>3 DEF EmitRaw, sync, data, FlagsType, DataType
<1>4. CASE ObserveLatency(d)
  <2>1. PcType'
    BY <1>4, <1>g, PointFacts DEF ObserveLatency
  <2>2. FlagsType'
    BY <1>p, <1>4 DEF ObserveLatency, sync, FlagsType
  <2>3. chunk[d] \in Nat /\ pending \in Seq(Nat)
    BY <1>p DEF DataType
  <2>4. CASE LatencyEnabled /\ d = AppToDevice
    <3>1. pending' \in Seq(Nat)
      BY <1>4, <2>3, <2>4 DEF ObserveLatency
    <3> QED
      BY <1>p, <1>4, <2>1, <2>2, <2>4, <3>1 DEF ObserveLatency, Silent, DataType, EventsType
  <2>5. CASE ~(LatencyEnabled /\ d = AppToDevice) /\ LatencyEnabled /\ pending # <<>>
    <3>1. Head(pending) \in Nat /\ Tail(pending) \in Seq(Nat)
      BY <2>3, <2>5
    <3>2. Latency(counter, Head(pending), chunk[d]) \in EventType
      BY <1>p, <2>3, <3>1 DEF Latency, EventType, EventsType
    <3>3. EventsType'
      BY <1>p, <1>4, <2>5, <3>2 DEF ObserveLatency, EventsType
    <3>4. DataType'
      BY <1>p, <1>4, <2>5, <3>1 DEF ObserveLatency, DataType
    <3> QED
      BY <2>1, <2>2, <3>3, <3>4
  <2>6. CASE ~(LatencyEnabled /\ d = AppToDevice) /\ ~(LatencyEnabled /\ pending # <<>>)
    BY <1>p, <1>4, <2>1, <2>2, <2>6 DEF ObserveLatency, Silent, DataType, EventsType
  <2> QED
    BY <2>4, <2>5, <2>6
<1>5. CASE Write(d)
  <2>1. PcType'
    BY <1>5, <1>g, PointFacts DEF Write
  <2>2. Append(forwarded[d], chunk[d]) \in Seq(Nat)
    BY <1>p DEF DataType
  <2>3. DataType'
    BY <1>p, <1>5, <2>2 DEF Write, DataType
  <2> QED
    BY <1>p, <1>5, <2>1, <2>3 DEF Write, Silent, sync, FlagsType, EventsType
<1>6. CASE Leave(d)
  <2>1. PcType'
    BY <1>6, <1>g, PointFacts DEF Leave
  <2> QED
    BY <1>p, <1>6, <2>1 DEF Leave, Silent, data, FlagsType, DataType, EventsType
<1>7. CASE CloseSockets(d)
  <2>1. PcType'
    BY <1>7, <1>g, PointFacts DEF CloseSockets
  <2> QED
    BY <1>p, <1>7, <2>1 DEF CloseSockets, Shut, Silent, data, FlagsType, DataType, EventsType
<1>8. CASE ReportEnd(d)
  <2>1. PcType'
    BY <1>8, <1>g, PointFacts DEF ReportEnd
  <2>2. EventsType'
    BY <1>p, <1>8, NoticeTyped, PointFacts DEF ReportEnd, Silent, EventsType
  <2> QED
    BY <1>p, <1>8, <2>1, <2>2 DEF ReportEnd, sync, data, FlagsType, DataType
<1> QED
  BY <1>1, <1>2, <1>3, <1>4, <1>5, <1>6, <1>7, <1>8 DEF Forward

LEMMA StepType == TypeOK /\ [Next]_vars => TypeOK'
<1> SUFFICES ASSUME TypeOK, [Next]_vars PROVE TypeOK'
  OBVIOUS
<1>1. CASE UNCHANGED vars
  BY <1>1, TypeParts, TypePartsNext
     DEF vars, sync, data, PcType, FlagsType, DataType, EventsType
<1>2. CASE Next
  BY <1>2, StartType, StopType, AcceptType, ForwardType DEF Next
<1> QED
  BY <1>1, <1>2

\* Every variable of a proxy session has its type.
THEOREM TypeCorrect == Spec => []TypeOK
  BY InitType, StepType, PTL DEF Spec

-----------------------------------------------------------------------------
(***************************************************************************)
(* Lifetimes                                                               *)
(***************************************************************************)
LEMMA InitLifetime == Init => LifetimeInv
  BY ThreadFacts DEF Init, LifetimeInv, Starting, Handles, NotYet, AcceptIsOver, Destroying, Idle,
                     Owner, Accept, Joining, Spawned, Forwarders, AppToDevice, DeviceToApp

LEMMA StartLifetime ==
  ASSUME TypeOK, LifetimeInv, Start
  PROVE  LifetimeInv'
<1>p. PcType /\ FlagsType
  BY TypeParts
<1> USE ThreadFacts DEF LifetimeInv, Starting, Handles, NotYet, AcceptIsOver, Destroying, Idle, Joining
<1>1. CASE StartFails
  <2>1. pc'[Owner] = "destroy" /\ \A t \in Spawned : pc'[t] = pc[t]
    BY <1>p, <1>1, GotoOwner, PointFacts DEF StartFails
  <2> QED
    BY <1>p, <1>1, <2>1 DEF StartFails, Owner, Accept, AppToDevice, DeviceToApp
<1>2. CASE StartListening
  <2>1. pc'[Owner] = "spawn" /\ \A t \in Spawned : pc'[t] = pc[t]
    BY <1>p, <1>2, GotoOwner, PointFacts DEF StartListening
  <2> QED
    BY <1>p, <1>2, <2>1 DEF StartListening, Owner, Accept, AppToDevice, DeviceToApp
<1>3. CASE SpawnAccept
  <2>1. CASE Goto(Owner, "destroy") /\ UNCHANGED handle
    <3>1. pc'[Owner] = "destroy" /\ \A t \in Spawned : pc'[t] = pc[t]
      BY <1>p, <2>1, GotoOwner, PointFacts
    <3> QED
      BY <1>p, <1>3, <2>1, <3>1 DEF SpawnAccept, Owner, Accept, AppToDevice, DeviceToApp
  <2>2. CASE /\ handle' = [handle EXCEPT ![Accept] = TRUE]
             /\ pc' = [pc EXCEPT ![Owner] = "open", ![Accept] = "begin"]
    <3>1. /\ pc'[Owner] = "open" /\ pc'[Accept] = "begin"
          /\ \A d \in Forwarders : pc'[d] = pc[d]
          /\ handle'[Accept] /\ \A d \in Forwarders : handle'[d] = handle[d]
      BY <1>p, <2>2 DEF PcType, FlagsType
    <3> QED
      BY <1>p, <1>3, <2>2, <3>1 DEF SpawnAccept, Owner, Accept, AppToDevice, DeviceToApp
  <2> QED
    BY <1>3, <2>1, <2>2 DEF SpawnAccept
<1> QED
  BY <1>1, <1>2, <1>3 DEF Start

LEMMA StopLifetime ==
  ASSUME TypeOK, LifetimeInv, Stop
  PROVE  LifetimeInv'
<1>p. PcType /\ FlagsType
  BY TypeParts
<1> USE ThreadFacts DEF LifetimeInv, Starting, Handles, NotYet, AcceptIsOver, Destroying, Idle, Joining
<1>1. CASE StopCalled
  <2>1. pc'[Owner] = "close" /\ \A t \in Spawned : pc'[t] = pc[t]
    BY <1>p, <1>1, GotoOwner, PointFacts DEF StopCalled
  <2> QED
    BY ZenonT(30), <1>p, <1>1, <2>1 DEF StopCalled, Owner, Accept, AppToDevice, DeviceToApp
<1>2. CASE CloseAll
  <2>1. pc'[Owner] = AppToDevice /\ \A t \in Spawned : pc'[t] = pc[t]
    BY <1>p, <1>2, GotoOwner, PointFacts DEF CloseAll
  <2>2. acceptor' # "open" /\ sockets' # "open"
    BY <1>2 DEF CloseAll, Shut
  <2> QED
    BY <1>p, <1>2, <2>1, <2>2 DEF CloseAll, Owner, Accept, AppToDevice, DeviceToApp
<1>3. CASE ReportStop
  <2>1. pc'[Owner] = (IF destroying THEN "destroyed" ELSE "destroy")
        /\ \A t \in Spawned : pc'[t] = pc[t]
    BY <1>p, <1>3, GotoOwner, PointFacts DEF ReportStop
  <2> QED
    BY ZenonT(30), <1>p, <1>3, <2>1 DEF ReportStop, sync, Owner, Accept, AppToDevice, DeviceToApp
<1>4. ASSUME NEW t \in Spawned, Join(t) PROVE LifetimeInv'
  <2>1. JoinOrder[t] \in OwnerPoints
    BY JoinFacts, PointFacts
  <2>2. pc'[Owner] = JoinOrder[t] /\ \A u \in Spawned : pc'[u] = pc[u]
    BY <1>p, <1>4, <2>1, GotoOwner DEF Join
  <2>3. /\ handle'[t] = FALSE /\ \A u \in Spawned \ {t} : handle'[u] = handle[u]
        /\ handle[t] => pc[t] = "done"
    BY <1>p, <1>4 DEF Join, FlagsType
  <2>4. UNCHANGED <<sockets, acceptor, destroying>> /\ pc[Owner] = t
    BY <1>4 DEF Join
  <2>5. CASE t = AppToDevice
    BY <2>2, <2>3, <2>4, <2>5, JoinFacts DEF Owner, Accept, AppToDevice, DeviceToApp
  <2>6. CASE t = DeviceToApp
    BY <2>2, <2>3, <2>4, <2>6, JoinFacts DEF Owner, Accept, AppToDevice, DeviceToApp
  <2>7. CASE t = Accept
    BY <2>2, <2>3, <2>4, <2>7, JoinFacts DEF Owner, Accept, AppToDevice, DeviceToApp
  <2> QED
    BY <2>5, <2>6, <2>7
<1> QED
  BY <1>1, <1>2, <1>3, <1>4 DEF Stop

\* The accept thread runs only while the owner has not joined it.
LEMMA AcceptLifetime ==
  ASSUME TypeOK, LifetimeInv, AcceptThread
  PROVE  LifetimeInv'
<1>p. PcType /\ FlagsType
  BY TypeParts
<1> USE ThreadFacts DEF LifetimeInv, Starting, Handles, NotYet, AcceptIsOver, Destroying, Idle, Joining
<1>1. ~Idle(Accept)
  BY <1>p DEF AcceptThread, BeginAccept, Accepted, AcceptFailed, ReportFailure, Abandon,
              ConnectFailed, Threw, Publish, Connected, SpawnForwarder, KeepForwarder
<1>2. /\ handle[Accept] /\ ~destroying
      /\ pc[Owner] \notin {"new", "spawn", "report", "destroy", "destroyed"}
  BY <1>p, <1>1
<1>3. UNCHANGED destroying
  BY DEF AcceptThread, BeginAccept, Accepted, AcceptFailed, ReportFailure, Abandon, ConnectFailed,
         Threw, Publish, Connected, SpawnForwarder, KeepForwarder, sync
<1>4. ASSUME NEW p \in AcceptPoints, Goto(Accept, p), UNCHANGED handle,
             pc[Accept] \notin {"keep_app", "keep_device"},
             p \notin {"none", "begin", "keep_app", "spawn_device"},
             p \in {"accepting", "connecting", "connected", "spawn_app"} =>
                 pc[Accept] \in {"begin", "accepting", "connecting", "connected"}
      PROVE  LifetimeInv'
  <2>1. pc'[Accept] = p /\ \A t \in Threads \ {Accept} : pc'[t] = pc[t]
    BY <1>p, <1>4, GotoAccept
  <2> QED
    BY <1>2, <1>3, <1>4, <2>1 DEF Owner, Accept, AppToDevice, DeviceToApp
<1>5. CASE BeginAccept \/ Accepted \/ AcceptFailed \/ ReportFailure \/ ConnectFailed \/ Connected
  BY <1>4, <1>5, PointFacts
     DEF BeginAccept, Accepted, AcceptFailed, ReportFailure, ConnectFailed, Connected, sync
<1>6. CASE Abandon \/ Threw \/ Publish
  BY <1>4, <1>6, PointFacts DEF Abandon, Threw, Publish, sync
<1>7. ASSUME NEW d \in Forwarders, SpawnForwarder(d) PROVE LifetimeInv'
  <2>1. /\ pc'[Accept] = IF d = AppToDevice THEN "keep_app" ELSE "keep_device"
        /\ pc'[d] = "loop"
        /\ \A t \in Threads \ {Accept, d} : pc'[t] = pc[t]
        /\ UNCHANGED handle
        /\ pc[Accept] \notin {"keep_app", "keep_device"}
    BY <1>p, <1>7 DEF SpawnForwarder, PcType, sync
  <2>2. pc[Accept] = IF d = AppToDevice THEN "spawn_app" ELSE "spawn_device"
    BY <1>7 DEF SpawnForwarder
  <2>3. \A e \in Forwarders : NotYet(e)' => pc'[e] = "none"
    BY <2>1, <2>2 DEF Accept, AppToDevice, DeviceToApp
  <2>4. Handles'
    BY <1>2, <2>1, <2>2, <2>3 DEF Accept, AppToDevice, DeviceToApp
  <2> QED
    BY <1>2, <1>3, <2>1, <2>4 DEF Owner, Accept, AppToDevice, DeviceToApp
<1>8. ASSUME NEW d \in Forwarders, KeepForwarder(d) PROVE LifetimeInv'
  <2>1. /\ pc'[Accept] = IF d = AppToDevice THEN "spawn_device" ELSE "done"
        /\ \A t \in Threads \ {Accept} : pc'[t] = pc[t]
        /\ pc[Accept] = IF d = AppToDevice THEN "keep_app" ELSE "keep_device"
    BY <1>p, <1>8, GotoAccept, PointFacts DEF KeepForwarder
  <2>2. handle'[d] /\ \A t \in Spawned \ {d} : handle'[t] = handle[t]
    BY <1>p, <1>8 DEF KeepForwarder, FlagsType
  <2> QED
    BY <1>2, <1>3, <1>8, <2>1, <2>2 DEF Owner, Accept, AppToDevice, DeviceToApp
<1> QED
  BY <1>5, <1>6, <1>7, <1>8 DEF AcceptThread

LEMMA ForwardLifetime ==
  ASSUME TypeOK, LifetimeInv, NEW d \in Forwarders, Forward(d)
  PROVE  LifetimeInv'
<1>p. PcType /\ FlagsType
  BY TypeParts
<1> USE ThreadFacts DEF LifetimeInv, Starting, Handles, NotYet, AcceptIsOver, Destroying, Idle, Joining
<1>1. /\ ~Idle(d)
      /\ UNCHANGED <<acceptor, handle, destroying>>
      /\ sockets' = sockets \/ sockets' # "open"
  BY DEF Forward, CheckStopped, Read, ReadOrWriteFailed, EmitRaw, ObserveLatency, Write, Leave,
         CloseSockets, ReportEnd, Shut, sync
<1>2. \E p \in ForwardPoints \ {"none"} : Goto(d, p)
  BY PointFacts DEF Forward, CheckStopped, Read, ReadOrWriteFailed, EmitRaw, ObserveLatency, Write,
         Leave, CloseSockets, ReportEnd
<1>3. \A t \in Threads \ {d} : pc'[t] = pc[t]
  BY <1>p, <1>2, GotoForward
<1>4. pc[Owner] \notin {"new", "spawn"}
  BY <1>1
<1> QED
  BY <1>1, <1>3, <1>4 DEF Owner, Accept, AppToDevice, DeviceToApp

LEMMA StepLifetime == TypeOK /\ LifetimeInv /\ [Next]_vars => LifetimeInv'
<1> SUFFICES ASSUME TypeOK, LifetimeInv, [Next]_vars PROVE LifetimeInv'
  OBVIOUS
<1>1. CASE UNCHANGED vars
  BY <1>1 DEF vars, sync, data, LifetimeInv, Starting, Handles, NotYet, AcceptIsOver,
                  Destroying, Idle
<1>2. CASE Next
  BY <1>2, StartLifetime, StopLifetime, AcceptLifetime, ForwardLifetime DEF Next
<1> QED
  BY <1>1, <1>2

\* Who runs, who is joinable and what is open at each point of stop().
THEOREM Lifetimes == Spec => []LifetimeInv
<1>1. TypeOK /\ LifetimeInv /\ [Next]_vars => (TypeOK /\ LifetimeInv)'
  BY StepType, StepLifetime
<1> QED
  BY <1>1, InitType, InitLifetime, PTL DEF Spec

\* The destructor leaves no thread, no joinable std::thread and no socket.
THEOREM DestructionIsClean == Spec => []DestroyedIsSilent
<1>1. LifetimeInv => DestroyedIsSilent
  BY ThreadFacts DEF LifetimeInv, AcceptIsOver, Destroying, DestroyedIsSilent, Idle
<1> QED
  BY <1>1, Lifetimes, PTL

-----------------------------------------------------------------------------
(***************************************************************************)
(* The report of the end                                                   *)
(***************************************************************************)
\* An event that is emitted is added to those of its type and to no other.
LEMMA OfAppended ==
  ASSUME EventsType, NEW e \in EventType, emitted' = Append(emitted, e), NEW type
  PROVE  Of(type)' = IF e.type = type THEN Of(type) \cup {Len(emitted) + 1} ELSE Of(type)
<1>1. /\ DOMAIN emitted = 1..Len(emitted) /\ Len(emitted) \in Nat
      /\ DOMAIN emitted' = 1..(Len(emitted) + 1)
  BY DEF EventsType
<1>2. emitted'[Len(emitted) + 1] = e
  BY DEF EventsType
<1>3. \A i \in 1..Len(emitted) : emitted'[i] = emitted[i]
  BY DEF EventsType
<1> QED
  BY <1>1, <1>2, <1>3 DEF Of

LEMMA OfNotice ==
  ASSUME EventsType, NEW kind \in NoticeTypes, EmitNotice(kind), NEW type
  PROVE  Of(type)' = IF kind = type THEN Of(type) \cup {Len(emitted) + 1} ELSE Of(type)
<1>1. Notice(kind, counter) \in EventType /\ Notice(kind, counter).type = kind
  BY DEF EventsType, EventType, Notice
<1> QED
  BY <1>1, OfAppended DEF EmitNotice

LEMMA OfSilent ==
  ASSUME UNCHANGED emitted, NEW type
  PROVE  Of(type)' = Of(type)
  BY DEF Of

LEMMA InitEnd == Init => EndInv
<1> SUFFICES ASSUME Init PROVE EndInv
  OBVIOUS
<1>1. \A type : Of(type) = {}
  BY DEF Init, Of
<1>2. \A t \in Threads : ~Reports(t)
  BY ThreadFacts DEF Init, Reports, Joining, Spawned, Forwarders, Owner, Accept,
                     AppToDevice, DeviceToApp
<1>3. pc[Owner] \notin {"close", "destroyed"} \cup Joining
  BY ThreadFacts DEF Init, Joining, Spawned, Forwarders, Accept, AppToDevice, DeviceToApp
<1> QED
  BY <1>1, <1>2, <1>3, ThreadFacts DEF EndInv, Reported, Init

\* A step that ends nothing: stopped_ stays, the same threads report, and no
\* end is reported.
LEMMA BystanderEnd ==
  ASSUME EndInv, UNCHANGED stopped,
         \A t \in Threads : Reports(t)' <=> Reports(t),
         Of("proxy stopped")' = Of("proxy stopped"),
         Of("listening")' = Of("listening"),
         Of("error") \subseteq Of("error")',
         pc'[Accept] = "abandon" => pc[Accept] = "abandon" \/ stopped \/ Of("error")' # {},
         pc'[Owner] \in {"close", "destroyed"} \cup Joining =>
             pc[Owner] \in {"close", "destroyed"} \cup Joining
  PROVE  EndInv'
<1>1. Reported' <=> Reported
  BY DEF Reported
<1>2. /\ (~stopped => ~Reported /\ \A t \in Threads : ~Reports(t))'
      /\ (\A t \in Threads : Reports(t) => ~Reported)'
      /\ (\A t, u \in Threads : Reports(t) /\ Reports(u) => t = u)'
  BY <1>1 DEF EndInv
<1>3. (\A i, j \in Of("proxy stopped") : i = j)'
  BY DEF EndInv
<1>4. ((Of("listening") # {} /\ (stopped \/ pc[Accept] = "abandon")) =>
           Reported \/ Of("error") # {} \/ \E t \in Threads : Reports(t))'
  BY <1>1 DEF EndInv
<1> QED
  BY <1>2, <1>3, <1>4 DEF EndInv

\* A thread whose exchange finds stopped_ unset is the one to report.
LEMMA ExchangeEnd ==
  ASSUME TypeOK, EndInv, NEW t \in {Owner} \cup Forwarders, ~Reports(t), stopped' = TRUE,
         Reports(t)' <=> ~stopped,
         \A u \in Threads \ {t} : Reports(u)' <=> Reports(u),
         UNCHANGED emitted, pc'[Accept] = pc[Accept]
  PROVE  EndInv'
<1>1. t \in Threads
  BY ThreadFacts
<1>2. \A type : Of(type)' = Of(type)
  BY OfSilent
<1>3. Reported' <=> Reported
  BY <1>2 DEF Reported
<1>4. /\ (~stopped => ~Reported /\ \A u \in Threads : ~Reports(u))'
      /\ (\A u \in Threads : Reports(u) => ~Reported)'
      /\ (\A u, v \in Threads : Reports(u) /\ Reports(v) => u = v)'
  BY <1>1, <1>3 DEF EndInv
<1>5. (\A i, j \in Of("proxy stopped") : i = j)'
  BY <1>2 DEF EndInv
<1>6. (Of("listening") # {} => Reported \/ Of("error") # {} \/ \E u \in Threads : Reports(u))'
  BY <1>1, <1>2, <1>3 DEF EndInv
<1> QED
  BY <1>4, <1>5, <1>6 DEF EndInv

\* The thread that is to report the end does.
LEMMA ReportedEnd ==
  ASSUME TypeOK, EndInv, NEW t \in {Owner} \cup Forwarders, UNCHANGED stopped, ~Reports(t)',
         \A u \in Threads \ {t} : Reports(u)' <=> Reports(u),
         IF Reports(t) THEN EmitNotice("proxy stopped") ELSE Silent,
         pc'[Accept] = pc[Accept],
         pc'[Owner] \in {"close", "destroyed"} \cup Joining =>
             pc[Owner] \in {"close", "destroyed"} \cup Joining
  PROVE  EndInv'
<1>1. t \in Threads /\ EventsType
  BY ThreadFacts, TypeParts
<1>2. CASE ~Reports(t)
  <2>1. \A type : Of(type)' = Of(type)
    BY <1>2, OfSilent DEF Silent
  <2> QED
    BY <1>1, <1>2, <2>1, BystanderEnd
<1>3. CASE Reports(t)
  <2>1. Of("proxy stopped")' = Of("proxy stopped") \cup {Len(emitted) + 1}
    BY <1>1, <1>3, OfNotice, PointFacts
  <2>2. ~Reported /\ stopped /\ \A u \in Threads : Reports(u) => u = t
    BY <1>1, <1>3 DEF EndInv
  <2>3. Reported' /\ (\A i, j \in Of("proxy stopped") : i = j)'
    BY <2>1, <2>2 DEF Reported
  <2>4. \A u \in Threads : ~Reports(u)'
    BY <1>1, <2>2
  <2> QED
    BY <2>2, <2>3, <2>4 DEF EndInv
<1> QED
  BY <1>2, <1>3

\* A thread whose place and exchange are as they were reports as it did.
LEMMA SameReports ==
  ASSUME NEW t, pc'[t] = pc[t], was_stopped'[t] = was_stopped[t]
  PROVE  Reports(t)' <=> Reports(t)
  BY DEF Reports

LEMMA StartEnd ==
  ASSUME TypeOK, LifetimeInv, EndInv, Start
  PROVE  EndInv'
<1>p. PcType /\ FlagsType /\ EventsType
  BY TypeParts
<1>o. "destroy" \notin {"close", "destroyed"} \cup Joining /\ "open" \notin {"close", "destroyed"} \cup Joining
      /\ "spawn" \notin {"close", "destroyed"} \cup Joining
      /\ "new" \notin {"close", "destroyed"} \cup Joining
  BY DEF Joining, Spawned, Forwarders, Accept, AppToDevice, DeviceToApp
<1>1. ASSUME NEW p \in {"destroy", "spawn"}, Goto(Owner, p), UNCHANGED was_stopped,
             pc[Owner] \in {"new", "spawn"}
      PROVE  /\ \A t \in Threads : Reports(t)' <=> Reports(t)
             /\ pc'[Accept] = pc[Accept]
             /\ pc'[Owner] \notin {"close", "destroyed"} \cup Joining
  <2>1. pc'[Owner] = p /\ \A t \in Spawned : pc'[t] = pc[t]
    BY <1>p, <1>1, GotoOwner, PointFacts
  <2>2. ~Reports(Owner) /\ ~Reports(Owner)'
    BY <1>o, <1>1, <2>1 DEF Reports
  <2> QED
    BY <1>o, <1>1, <2>1, <2>2, SameReports, ThreadFacts
<1>2. CASE StartFails
  BY <1>1, <1>2, BystanderEnd, OfSilent DEF StartFails, Silent
<1>3. CASE StartListening
  <2>1. /\ \A t \in Threads : Reports(t)' <=> Reports(t)
        /\ pc'[Accept] = pc[Accept]
        /\ pc'[Owner] \notin {"close", "destroyed"} \cup Joining
    BY <1>1, <1>3 DEF StartListening
  <2>2. emitted = <<>> /\ pc[Owner] = "new" /\ \A t \in Spawned : pc[t] = "none"
    BY <1>3 DEF StartListening, LifetimeInv, Starting
  <2>3. \A t \in Threads : ~Reports(t)
    BY <1>o, <2>2, ThreadFacts DEF Reports
  <2>4. Of("proxy stopped") = {}
    BY <2>2 DEF Of
  <2>5. Of("proxy stopped")' = {}
    BY <1>p, <1>3, <2>4, OfNotice, PointFacts DEF StartListening
  <2> QED
    BY <1>3, <2>1, <2>2, <2>3, <2>5, ThreadFacts DEF StartListening, EndInv, Reported
<1>4. CASE SpawnAccept
  <2>1. CASE Goto(Owner, "destroy")
    BY <1>1, <1>4, <2>1, BystanderEnd, OfSilent DEF SpawnAccept, Silent
  <2>2. CASE pc' = [pc EXCEPT ![Owner] = "open", ![Accept] = "begin"]
    <3>1. /\ pc'[Owner] = "open" /\ pc'[Accept] = "begin"
          /\ \A d \in Forwarders : pc'[d] = pc[d]
      BY <1>p, <2>2, ThreadFacts DEF PcType
    <3>2. UNCHANGED <<was_stopped, stopped, emitted>> /\ pc[Owner] = "spawn"
      BY <1>4 DEF SpawnAccept, Silent
    <3>3. \A d \in Forwarders : Reports(d)' <=> Reports(d)
      BY <3>1, <3>2, SameReports
    <3>4. \A t \in {Owner, Accept} : ~Reports(t) /\ ~Reports(t)'
      BY <1>o, <3>1, <3>2, ThreadFacts DEF Reports
    <3>5. \A t \in Threads : Reports(t)' <=> Reports(t)
      BY <3>3, <3>4, ThreadFacts
    <3> QED
      BY <1>o, <3>1, <3>2, <3>5, BystanderEnd, OfSilent
  <2> QED
    BY <1>4, <2>1, <2>2 DEF SpawnAccept
<1> QED
  BY <1>2, <1>3, <1>4 DEF Start

LEMMA StopEnd ==
  ASSUME TypeOK, LifetimeInv, EndInv, Stop
  PROVE  EndInv'
<1>p. PcType /\ FlagsType /\ EventsType
  BY TypeParts
<1>o. "destroy" \notin {"close", "destroyed"} \cup Joining
      /\ "open" \notin {"close", "destroyed"} \cup Joining
      /\ "destroyed" \notin {"close"} \cup Joining
  BY DEF Joining, Spawned, Forwarders, Accept, AppToDevice, DeviceToApp
<1>1. ASSUME NEW p \in OwnerPoints, Goto(Owner, p)
      PROVE  /\ pc'[Owner] = p /\ pc'[Accept] = pc[Accept]
             /\ \A t \in Threads \ {Owner} : pc'[t] = pc[t]
  BY <1>p, <1>1, GotoOwner, ThreadFacts
<1>2. CASE StopCalled
  <2>1. /\ pc'[Owner] = "close" /\ pc'[Accept] = pc[Accept]
        /\ \A t \in Threads \ {Owner} : pc'[t] = pc[t]
    BY <1>1, <1>2, PointFacts DEF StopCalled
  <2>2. /\ was_stopped'[Owner] = stopped
        /\ \A t \in Threads \ {Owner} : was_stopped'[t] = was_stopped[t]
    BY <1>p, <1>2, ThreadFacts DEF StopCalled, FlagsType
  <2>3. ~Reports(Owner) /\ (Reports(Owner)' <=> ~stopped)
    BY <1>o, <1>2, <2>1, <2>2 DEF StopCalled, Reports
  <2>4. \A t \in Threads \ {Owner} : Reports(t)' <=> Reports(t)
    BY <2>1, <2>2, SameReports
  <2> QED
    BY <1>2, <2>1, <2>3, <2>4, ExchangeEnd DEF StopCalled, Silent
<1>3. ASSUME NEW p \in Joining, Goto(Owner, p), pc[Owner] \in {"close"} \cup Joining,
             UNCHANGED <<stopped, was_stopped, emitted>>
      PROVE  EndInv'
  <2>1. p \in OwnerPoints
    BY PointFacts DEF Joining
  <2>2. Reports(Owner)' <=> Reports(Owner)
    BY <1>1, <1>3, <2>1 DEF Reports
  <2>3. \A t \in Threads : Reports(t)' <=> Reports(t)
    BY <1>1, <1>3, <2>1, <2>2, SameReports
  <2> QED
    BY <1>1, <1>3, <2>1, <2>3, BystanderEnd, OfSilent
<1>4. CASE CloseAll
  BY <1>3, <1>4, ThreadFacts DEF CloseAll, Silent, Joining
<1>5. ASSUME NEW t \in Spawned, Join(t) PROVE EndInv'
  <2>1. JoinOrder[t] \in Joining
    BY JoinFacts, ThreadFacts DEF Joining
  <2> QED
    BY <1>3, <1>5, <2>1 DEF Join, Silent, Joining
<1>6. CASE ReportStop
  <2>1. /\ pc'[Owner] \in {"destroy", "destroyed"} /\ pc'[Accept] = pc[Accept]
        /\ \A t \in Threads \ {Owner} : pc'[t] = pc[t]
    BY <1>1, <1>6, PointFacts DEF ReportStop
  <2>2. \A t \in Threads \ {Owner} : Reports(t)' <=> Reports(t)
    BY <1>6, <2>1, SameReports DEF ReportStop, sync
  <2>3. ~Reports(Owner)' /\ (Reports(Owner) <=> ~was_stopped[Owner])
    BY <1>o, <1>6, <2>1 DEF ReportStop, Reports, Joining
  <2> QED
    BY <1>6, <2>1, <2>2, <2>3, ReportedEnd DEF ReportStop, sync, Joining
<1> QED
  BY <1>2, <1>4, <1>5, <1>6 DEF Stop

LEMMA AcceptEnd ==
  ASSUME TypeOK, LifetimeInv, EndInv, AcceptThread
  PROVE  EndInv'
<1>p. PcType /\ FlagsType /\ EventsType
  BY TypeParts
<1>1. ASSUME NEW p \in AcceptPoints, Goto(Accept, p), UNCHANGED was_stopped
      PROVE  /\ pc'[Accept] = p /\ pc'[Owner] = pc[Owner]
             /\ \A t \in Threads : Reports(t)' <=> Reports(t)
  <2>1. pc'[Accept] = p /\ \A t \in Threads \ {Accept} : pc'[t] = pc[t]
    BY <1>p, <1>1, GotoAccept
  <2>2. ~Reports(Accept) /\ ~Reports(Accept)'
    BY ThreadFacts DEF Reports
  <2> QED
    BY <1>1, <2>1, <2>2, SameReports, ThreadFacts
<1>2. ASSUME NEW p \in AcceptPoints, Goto(Accept, p), UNCHANGED was_stopped, UNCHANGED stopped,
             Silent, p = "abandon" => stopped
      PROVE  EndInv'
  BY <1>1, <1>2, BystanderEnd, OfSilent DEF Silent
<1>3. ASSUME NEW p \in AcceptPoints, Goto(Accept, p), UNCHANGED was_stopped, UNCHANGED stopped,
             NEW type \in {"error", "proxy connected"}, EmitNotice(type),
             p = "abandon" => type = "error"
      PROVE  EndInv'
  <2>1. /\ Of("proxy stopped")' = Of("proxy stopped")
        /\ Of("listening")' = Of("listening")
        /\ Of("error") \subseteq Of("error")'
        /\ type = "error" => Of("error")' # {}
    BY <1>p, <1>3, OfNotice, PointFacts
  <2> QED
    BY <1>1, <1>3, <2>1, BystanderEnd
<1>4. CASE BeginAccept \/ Accepted \/ AcceptFailed \/ Threw \/ Publish
  BY <1>2, <1>4, PointFacts DEF BeginAccept, Accepted, AcceptFailed, Threw, Publish, sync
<1>5. CASE ReportFailure
  BY <1>2, <1>3, <1>5, PointFacts DEF ReportFailure, sync
<1>6. CASE Abandon
  <2>1. /\ pc'[Accept] = "done" /\ pc'[Owner] = pc[Owner]
        /\ \A t \in Threads : Reports(t)' <=> Reports(t)
    BY <1>1, <1>6, PointFacts DEF Abandon
  <2>2. \A type : Of(type)' = Of(type)
    BY <1>6, OfSilent DEF Abandon, Silent
  <2>3. stopped' = TRUE /\ pc[Accept] = "abandon"
    BY <1>6 DEF Abandon
  <2> QED
    BY <2>1, <2>2, <2>3 DEF EndInv, Reported
<1>7. CASE ConnectFailed \/ Connected
  BY <1>3, <1>7, PointFacts DEF ConnectFailed, Connected, sync
<1>8. ASSUME NEW d \in Forwarders, SpawnForwarder(d) PROVE EndInv'
  <2>1. /\ pc'[Accept] \in {"keep_app", "keep_device"} /\ pc'[d] = "loop"
        /\ \A t \in Threads \ {Accept, d} : pc'[t] = pc[t]
    BY <1>p, <1>8, ThreadFacts DEF SpawnForwarder, PcType
  <2>2. pc[d] = "none"
    BY <1>p, <1>8, ThreadFacts
       DEF SpawnForwarder, LifetimeInv, Handles, NotYet
  <2>3. UNCHANGED <<stopped, was_stopped, emitted>>
    BY <1>8 DEF SpawnForwarder, Silent, sync
  <2>4. \A t \in {Accept, d} : ~Reports(t) /\ ~Reports(t)'
    BY <2>1, <2>2, ThreadFacts DEF Reports
  <2>5. \A t \in Threads : Reports(t)' <=> Reports(t)
    BY <2>1, <2>3, <2>4, SameReports
  <2> QED
    BY <2>1, <2>3, <2>5, BystanderEnd, OfSilent, ThreadFacts
<1>9. ASSUME NEW d \in Forwarders, KeepForwarder(d) PROVE EndInv'
  BY <1>2, <1>9, PointFacts DEF KeepForwarder
<1> QED
  BY <1>4, <1>5, <1>6, <1>7, <1>8, <1>9 DEF AcceptThread

LEMMA ForwardEnd ==
  ASSUME TypeOK, LifetimeInv, EndInv, NEW d \in Forwarders, Forward(d)
  PROVE  EndInv'
<1>p. PcType /\ FlagsType /\ EventsType /\ DataType
  BY TypeParts
<1>1. ASSUME NEW p \in ForwardPoints, Goto(d, p)
      PROVE  /\ pc'[d] = p /\ pc'[Accept] = pc[Accept] /\ pc'[Owner] = pc[Owner]
             /\ \A t \in Threads \ {d} : pc'[t] = pc[t]
  BY <1>p, <1>1, GotoForward, ThreadFacts
<1>2. ASSUME NEW p \in ForwardPoints \ {"close", "report"}, Goto(d, p),
             pc[d] \notin {"close", "report"},
             UNCHANGED <<stopped, was_stopped>>
      PROVE  /\ \A t \in Threads : Reports(t)' <=> Reports(t)
             /\ pc'[Accept] = pc[Accept] /\ pc'[Owner] = pc[Owner]
  <2>1. ~Reports(d) /\ ~Reports(d)'
    BY <1>1, <1>2, ThreadFacts DEF Reports
  <2> QED
    BY <1>1, <1>2, <2>1, SameReports
<1>3. CASE CheckStopped(d) \/ ReadOrWriteFailed(d) \/ Read(d) \/ Write(d)
  <2>1. /\ \A t \in Threads : Reports(t)' <=> Reports(t)
        /\ pc'[Accept] = pc[Accept] /\ pc'[Owner] = pc[Owner]
    BY <1>2, <1>3, PointFacts DEF CheckStopped, ReadOrWriteFailed, Read, Write, sync
  <2>2. UNCHANGED <<stopped, emitted>>
    BY <1>3 DEF CheckStopped, ReadOrWriteFailed, Read, Write, sync, Silent
  <2> QED
    BY <2>1, <2>2, BystanderEnd, OfSilent
<1>4. CASE EmitRaw(d)
  <2>1. /\ \A t \in Threads : Reports(t)' <=> Reports(t)
        /\ pc'[Accept] = pc[Accept] /\ pc'[Owner] = pc[Owner] /\ UNCHANGED stopped
    BY <1>2, <1>4, PointFacts DEF EmitRaw, sync
  <2>2. RawBytes(d, chunk[d]) \in EventType /\ RawBytes(d, chunk[d]).type = "raw_bytes"
    BY <1>p DEF RawBytes, EventType, DataType
  <2>3. \A type \in NoticeTypes : Of(type)' = Of(type)
    BY <1>p, <1>4, <2>2, OfAppended, PointFacts DEF EmitRaw
  <2> QED
    BY <2>1, <2>3, BystanderEnd, PointFacts
<1>5. CASE ObserveLatency(d)
  <2>1. /\ \A t \in Threads : Reports(t)' <=> Reports(t)
        /\ pc'[Accept] = pc[Accept] /\ pc'[Owner] = pc[Owner] /\ UNCHANGED stopped
    BY <1>2, <1>5, PointFacts DEF ObserveLatency, sync
  <2>2. CASE UNCHANGED emitted
    BY <2>1, <2>2, BystanderEnd, OfSilent
  <2>3. CASE pending # <<>> /\ emitted' = Append(emitted, Latency(counter, Head(pending), chunk[d]))
    <3>1. Head(pending) \in Nat /\ chunk[d] \in Nat
      BY <1>p, <2>3 DEF DataType
    <3>2. /\ Latency(counter, Head(pending), chunk[d]) \in EventType
          /\ Latency(counter, Head(pending), chunk[d]).type = "latency"
      BY <1>p, <3>1 DEF Latency, EventType, EventsType
    <3>3. \A type \in NoticeTypes : Of(type)' = Of(type)
      BY <1>p, <2>3, <3>2, OfAppended, PointFacts
    <3> QED
      BY <2>1, <3>3, BystanderEnd, PointFacts
  <2> QED
    BY <1>5, <2>2, <2>3 DEF ObserveLatency, Silent
<1>6. CASE Leave(d)
  <2>1. /\ pc'[d] = "close" /\ pc'[Accept] = pc[Accept]
        /\ \A t \in Threads \ {d} : pc'[t] = pc[t]
    BY <1>1, <1>6, PointFacts DEF Leave
  <2>2. /\ was_stopped'[d] = stopped
        /\ \A t \in Threads \ {d} : was_stopped'[t] = was_stopped[t]
    BY <1>p, <1>6, ThreadFacts DEF Leave, FlagsType
  <2>3. ~Reports(d) /\ (Reports(d)' <=> ~stopped)
    BY <1>6, <2>1, <2>2, ThreadFacts DEF Leave, Reports
  <2>4. \A t \in Threads \ {d} : Reports(t)' <=> Reports(t)
    BY <2>1, <2>2, SameReports
  <2> QED
    BY <1>6, <2>1, <2>3, <2>4, ExchangeEnd DEF Leave, Silent
<1>7. CASE CloseSockets(d)
  <2>1. /\ pc'[d] = "report" /\ pc'[Accept] = pc[Accept] /\ pc'[Owner] = pc[Owner]
        /\ \A t \in Threads \ {d} : pc'[t] = pc[t]
    BY <1>1, <1>7, PointFacts DEF CloseSockets
  <2>2. UNCHANGED <<was_stopped, stopped, emitted>> /\ pc[d] = "close"
    BY <1>7 DEF CloseSockets, Silent
  <2>3. Reports(d)' <=> Reports(d)
    BY <2>1, <2>2, ThreadFacts DEF Reports
  <2>4. \A t \in Threads : Reports(t)' <=> Reports(t)
    BY <2>1, <2>2, <2>3, SameReports
  <2> QED
    BY <2>1, <2>2, <2>4, BystanderEnd, OfSilent
<1>8. CASE ReportEnd(d)
  <2>1. /\ pc'[d] = "done" /\ pc'[Accept] = pc[Accept] /\ pc'[Owner] = pc[Owner]
        /\ \A t \in Threads \ {d} : pc'[t] = pc[t]
    BY <1>1, <1>8, PointFacts DEF ReportEnd
  <2>2. \A t \in Threads \ {d} : Reports(t)' <=> Reports(t)
    BY <1>8, <2>1, SameReports DEF ReportEnd, sync
  <2>3. ~Reports(d)' /\ (Reports(d) <=> ~was_stopped[d])
    BY <1>8, <2>1, ThreadFacts DEF ReportEnd, Reports
  <2> QED
    BY <1>8, <2>1, <2>2, <2>3, ReportedEnd DEF ReportEnd, sync
<1> QED
  BY <1>3, <1>4, <1>5, <1>6, <1>7, <1>8 DEF Forward

LEMMA StepEnd == TypeOK /\ LifetimeInv /\ EndInv /\ [Next]_vars => EndInv'
<1> SUFFICES ASSUME TypeOK, LifetimeInv, EndInv, [Next]_vars PROVE EndInv'
  OBVIOUS
<1>1. CASE UNCHANGED vars
  <2>1. \A t \in Threads : Reports(t)' <=> Reports(t)
    BY <1>1, SameReports DEF vars, sync
  <2> QED
    BY <1>1, <2>1, BystanderEnd, OfSilent DEF vars, sync
<1>2. CASE Next
  BY <1>2, StartEnd, StopEnd, AcceptEnd, ForwardEnd DEF Next
<1> QED
  BY <1>1, <1>2

\* Once the session has ended, its end is reported or one thread is about to.
THEOREM OneReporter == Spec => []EndInv
<1>1. (TypeOK /\ LifetimeInv /\ EndInv) /\ [Next]_vars => (TypeOK /\ LifetimeInv /\ EndInv)'
  BY StepType, StepLifetime, StepEnd
<1> QED
  BY <1>1, InitType, InitLifetime, InitEnd, PTL DEF Spec

\* Of two forwarding threads and two calls of stop() one reports the end.
THEOREM EndReportedOnce == Spec => []ReportedAtMostOnce
<1>1. EndInv => ReportedAtMostOnce
  <2> SUFFICES ASSUME EndInv PROVE Cardinality(Of("proxy stopped")) <= 1
    BY DEF ReportedAtMostOnce
  <2>0. \A n : n \in {0, 1} => n <= 1
    BY SMT
  <2>1. CASE Of("proxy stopped") = {}
    <3>1. Cardinality({}) = 0
      BY FS_EmptySet
    <3>2. Cardinality(Of("proxy stopped")) = 0
      BY <2>1, <3>1, Zenon
    <3> QED
      BY <2>0, <3>2, Zenon
  <2>2. CASE Of("proxy stopped") # {}
    <3>1. PICK i : i \in Of("proxy stopped")
      BY <2>2
    <3>2. Of("proxy stopped") = {i}
      BY <3>1 DEF EndInv
    <3>3. Cardinality({i}) = 1
      BY FS_Singleton
    <3>4. Cardinality(Of("proxy stopped")) = 1
      BY <3>2, <3>3, Zenon
    <3> QED
      BY <2>0, <3>4, Zenon
  <2> QED
    BY <2>1, <2>2
<1> QED
  BY <1>1, OneReporter, PTL

\* A session that listened leaves an event that says how it ended, and only one
\* that says it stopped.
THEOREM EndReported == Spec => []EndIsReported
<1>1. LifetimeInv /\ EndInv => EndLeavesAnEvent
  <2> SUFFICES ASSUME LifetimeInv, EndInv, pc[Owner] = "destroyed", Of("listening") # {}
               PROVE  Of("proxy stopped") \cup Of("error") # {}
    BY DEF EndLeavesAnEvent
  <2>1. stopped
    BY DEF EndInv
  <2>2. \A t \in Threads : ~Reports(t)
    BY ThreadFacts
       DEF LifetimeInv, AcceptIsOver, Destroying, Idle, Reports, Joining, Spawned, Forwarders,
           Owner, Accept, AppToDevice, DeviceToApp
  <2> QED
    BY <2>1, <2>2 DEF EndInv, Reported
<1>2. ReportedAtMostOnce /\ EndLeavesAnEvent => EndIsReported
  BY DEF EndIsReported
<1> QED
  BY <1>1, <1>2, Lifetimes, OneReporter, EndReportedOnce, PTL

-----------------------------------------------------------------------------
(***************************************************************************)
(* What is forwarded and what is measured                                  *)
(***************************************************************************)
Kept == \A i \in DOMAIN emitted : i \in DOMAIN emitted' /\ emitted'[i] = emitted[i]

\* No event of those that count here is added.
Quiet ==
    /\ Kept /\ counter' \in Nat /\ counter <= counter'
    /\ \A type \in {"raw_bytes", "latency"} : Of(type)' = Of(type)

\* A thread goes on where nothing is asked of the step but that it is one.
Onward(d) ==
    \/ pc'[d] = pc[d]
    \/ pc[d] = "none" /\ pc'[d] = "loop"
    \/ pc[d] = "loop" /\ pc'[d] = "read"
    \/ pc'[d] \in {"leave", "close", "report", "done"}

LEMMA KeptSame ==
  ASSUME UNCHANGED emitted
  PROVE  Kept
  BY DEF Kept

LEMMA KeptAppended ==
  ASSUME EventsType, NEW e \in EventType, emitted' = Append(emitted, e)
  PROVE  /\ Kept /\ Len(emitted) \in Nat /\ emitted'[Len(emitted) + 1] = e
         /\ \A type : \A i \in Of(type) : i \in DOMAIN emitted /\ i < Len(emitted) + 1
         /\ Len(emitted) + 1 \in DOMAIN emitted'
<1>1. /\ DOMAIN emitted = 1..Len(emitted) /\ Len(emitted) \in Nat
      /\ DOMAIN emitted' = 1..(Len(emitted) + 1)
  BY DEF EventsType
<1>2. emitted'[Len(emitted) + 1] = e
  BY DEF EventsType
<1>3. \A i \in 1..Len(emitted) : emitted'[i] = emitted[i]
  BY DEF EventsType
<1> QED
  BY <1>1, <1>2, <1>3 DEF Of, Kept

\* A raw event of one direction is added to that direction's and to no other.
LEMMA RawAppended ==
  ASSUME EventsType, NEW e \in EventType, emitted' = Append(emitted, e), NEW d
  PROVE  Raw(d)' = IF e.type = "raw_bytes" /\ e.direction = d
                   THEN Raw(d) \cup {Len(emitted) + 1} ELSE Raw(d)
<1>1. Of("raw_bytes")' = IF e.type = "raw_bytes" THEN Of("raw_bytes") \cup {Len(emitted) + 1}
                         ELSE Of("raw_bytes")
  BY OfAppended
<1>2. \A i \in Of("raw_bytes") : emitted'[i] = emitted[i]
  BY KeptAppended DEF Kept
<1>3. emitted'[Len(emitted) + 1] = e
  BY KeptAppended
<1> QED
  BY <1>1, <1>2, <1>3 DEF Raw

LEMMA QuietNotice ==
  ASSUME EventsType, NEW kind \in NoticeTypes, EmitNotice(kind)
  PROVE  Quiet
<1>1. kind # "raw_bytes" /\ kind # "latency"
  BY PointFacts
<1>2. Notice(kind, counter) \in EventType
  BY DEF EventsType, EventType, Notice
<1>3. Kept
  BY <1>2, KeptAppended DEF EmitNotice
<1>4. counter' \in Nat /\ counter <= counter'
  BY DEF EmitNotice, EventsType
<1> QED
  BY <1>1, <1>3, <1>4, OfNotice DEF Quiet

LEMMA QuietSilent ==
  ASSUME EventsType, Silent
  PROVE  Quiet
<1>1. counter' \in Nat /\ counter <= counter'
  BY DEF Silent, EventsType
<1> QED
  BY <1>1, KeptSame, OfSilent DEF Quiet, Silent

\* What was recorded stays recorded, under the same number.
LEMMA RawKept ==
  ASSUME Kept, NEW d, Raw(d) \subseteq Raw(d)'
  PROVE  /\ \A i \in Raw(d) : emitted'[i] = emitted[i]
         /\ Recorded(d) \subseteq Recorded(d)'
         /\ \A n, j : RecordedBefore(d, n, j) => RecordedBefore(d, n, j)'
<1>1. \A i \in Raw(d) : emitted'[i] = emitted[i] /\ i \in Raw(d)'
  BY DEF Kept, Raw, Of
<1> QED
  BY <1>1 DEF Recorded, RecordedBefore

LEMMA RawSame ==
  ASSUME Kept, NEW d, Raw(d)' = Raw(d)
  PROVE  Recorded(d)' = Recorded(d)
  BY RawKept DEF Recorded

LEMMA QuietRaw ==
  ASSUME Quiet, NEW d
  PROVE  Raw(d)' = Raw(d) /\ Recorded(d)' = Recorded(d)
<1>1. Raw(d)' = Raw(d)
  BY DEF Quiet, Kept, Raw, Of
<1> QED
  BY <1>1, RawSame DEF Quiet

\* The numbers are numbers.
LEMMA RecordTyped ==
  ASSUME EventsType
  PROVE  /\ \A i \in Of("raw_bytes") : emitted[i].seq \in Nat
         /\ \A j \in Of("latency") : emitted[j].request \in Nat /\ emitted[j].response \in Nat
         /\ \A d : Recorded(d) \subseteq Nat
         /\ Requests \subseteq Nat /\ Responses \subseteq Nat
         /\ \A type : Of(type) \subseteq Nat
<1>1. \A i \in DOMAIN emitted : emitted[i] \in EventType /\ i \in Nat
  BY DEF EventsType
<1>2. \A e \in EventType : e.type = "raw_bytes" => e.seq \in Nat
  BY DEF EventType, NoticeTypes
<1>3. \A e \in EventType : e.type = "latency" => e.request \in Nat /\ e.response \in Nat
  BY DEF EventType, NoticeTypes
<1> QED
  BY <1>1, <1>2, <1>3 DEF Of, Raw, Recorded, Requests, Responses

\* Everything measured was recorded.
LEMMA MeasuredWasRecorded ==
  ASSUME LatencyPairsAreProper
  PROVE  Requests \subseteq Recorded(AppToDevice) /\ Responses \subseteq Recorded(DeviceToApp)
  BY DEF LatencyPairsAreProper, RecordedBefore, Requests, Responses, Recorded

LEMMA InitData == Init => DataInv
<1> SUFFICES ASSUME Init PROVE DataInv
  OBVIOUS
<1>1. \A type : Of(type) = {}
  BY DEF Init, Of
<1>2. \A d : Raw(d) = {} /\ Recorded(d) = {}
  BY <1>1 DEF Raw, Recorded
<1>3. Requests = {} /\ Responses = {}
  BY <1>1 DEF Requests, Responses
<1>4. \A d \in Forwarders : forwarded[d] = <<>> /\ pc[d] = "none"
  BY ThreadFacts DEF Init
<1>5. pending = <<>>
  BY DEF Init
<1>6. DOMAIN <<>> = {} /\ Range(<<>>) = {}
  BY DEF Range
<1>7. ForwardsWhatItRecords
  BY <1>2, <1>4, <1>6 DEF ForwardsWhatItRecords, NumbersGrow, Sent, NoGap
<1>8. LatencyPairsAreProper
  BY <1>1 DEF LatencyPairsAreProper, PairsInOrder
<1>9. NumbersAreGiven /\ Forwarding
  BY <1>2, <1>4 DEF NumbersAreGiven, Forwarding
<1>10. Measuring
  BY <1>3, <1>4, <1>5, <1>6, ThreadFacts DEF Measuring
<1> QED
  BY <1>7, <1>8, <1>9, <1>10 DEF DataInv

\* The pairs stay proper as long as none is added.
LEMMA PairsKept ==
  ASSUME LatencyPairsAreProper, Kept, Of("latency")' = Of("latency"),
         \A d \in Forwarders : Raw(d) \subseteq Raw(d)'
  PROVE  LatencyPairsAreProper' /\ Requests' = Requests /\ Responses' = Responses
<1>1. \A j \in Of("latency") : emitted'[j] = emitted[j]
  BY DEF Kept, Of
<1>2. PairsInOrder'
  BY <1>1 DEF LatencyPairsAreProper, PairsInOrder
<1>3. \A d \in Forwarders : \A n, j : RecordedBefore(d, n, j) => RecordedBefore(d, n, j)'
  BY RawKept
<1>4. ASSUME NEW j \in Of("latency")
      PROVE  /\ RecordedBefore(AppToDevice, emitted[j].request, j)'
             /\ RecordedBefore(DeviceToApp, emitted[j].response, j)'
  <2>1. PICK m, n : m = emitted[j].request /\ n = emitted[j].response
    OBVIOUS
  <2>2. RecordedBefore(AppToDevice, m, j) /\ RecordedBefore(DeviceToApp, n, j)
    BY <2>1 DEF LatencyPairsAreProper
  <2>3. RecordedBefore(AppToDevice, m, j)' /\ RecordedBefore(DeviceToApp, n, j)'
    BY <1>3, <2>2, ThreadFacts
  <2>4. emitted'[j].request = m /\ emitted'[j].response = n
    BY <1>1, <2>1
  <2> QED
    BY <2>3, <2>4 DEF RecordedBefore
<1> QED
  BY <1>1, <1>2, <1>4 DEF LatencyPairsAreProper, Requests, Responses

\* A step that neither records, measures nor forwards keeps all of it.
LEMMA QuietData ==
  ASSUME EventsType, DataType, DataInv, Quiet, UNCHANGED <<chunk, pending, forwarded>>,
         \A d \in Forwarders : Onward(d)
  PROVE  DataInv'
<1>1. \A d : Raw(d)' = Raw(d) /\ Recorded(d)' = Recorded(d)
  BY QuietRaw
<1>2. \A d : \A i \in Raw(d) : emitted'[i] = emitted[i]
  BY DEF Quiet, Kept, Raw, Of
<1>3. LatencyPairsAreProper' /\ Requests' = Requests /\ Responses' = Responses
  BY <1>1, PairsKept DEF DataInv, Quiet
<1>4. ForwardsWhatItRecords'
  BY <1>1, <1>2 DEF DataInv, ForwardsWhatItRecords, NumbersGrow, Sent, NoGap
<1>5. counter \in Nat /\ counter' \in Nat /\ counter <= counter' /\ \A d : Recorded(d) \subseteq Nat
  BY RecordTyped DEF EventsType, Quiet
<1>6. NumbersAreGiven'
  <2> SUFFICES ASSUME NEW d \in Forwarders
               PROVE  /\ \A n \in Recorded(d) : n < counter'
                      /\ pc'[d] = "emit" => chunk[d] < counter' /\ \A n \in Recorded(d) : n < chunk[d]
    BY <1>1 DEF NumbersAreGiven
  <2>0. \A n \in Recorded(d) : n \in Nat /\ n < counter
    BY <1>5 DEF DataInv, NumbersAreGiven
  <2>1. \A n \in Recorded(d) : n < counter'
    BY <1>5, <2>0
  <2>2. pc'[d] = "emit" => pc[d] = "emit"
    BY DEF Onward
  <2>3. chunk[d] \in Nat
    BY DEF DataType
  <2>4. chunk[d] < counter => chunk[d] < counter'
    BY <1>5, <2>3
  <2> QED
    BY <2>1, <2>2, <2>4 DEF DataInv, NumbersAreGiven
<1>7. Forwarding'
  BY <1>1 DEF DataInv, Forwarding, Sent, Onward
<1>8. Measuring'
  <2>1. \A d \in Forwarders : pc'[d] \in {"emit", "observe"} => pc[d] \in {"emit", "observe"}
    BY DEF Onward
  <2>2. Measuring /\ UNCHANGED <<chunk, pending>>
    BY DEF DataInv
  <2> QED
    BY <1>1, <1>3, <2>1, <2>2, ThreadFacts DEF Measuring
<1> QED
  BY <1>3, <1>4, <1>6, <1>7, <1>8 DEF DataInv

\* The owner and the accept thread neither record nor forward.
LEMMA OwnerData ==
  ASSUME TypeOK, DataInv, Start \/ Stop
  PROVE  DataInv'
<1>p. PcType /\ DataType /\ EventsType
  BY TypeParts
<1>1. UNCHANGED data
  BY DEF Start, StartFails, StartListening, SpawnAccept, Stop, StopCalled, CloseAll, Join, ReportStop
<1>2. Silent \/ EmitNotice("listening") \/ EmitNotice("proxy stopped")
  BY DEF Start, StartFails, StartListening, SpawnAccept, Stop, StopCalled, CloseAll, Join, ReportStop
<1>3. Quiet
  BY <1>p, <1>2, QuietSilent, QuietNotice, PointFacts
<1>4. \/ \E p \in {"destroy", "spawn", "close", AppToDevice, "report", "destroyed"}
                  \cup {JoinOrder[t] : t \in Spawned} : Goto(Owner, p)
      \/ pc' = [pc EXCEPT ![Owner] = "open", ![Accept] = "begin"]
  BY DEF Start, StartFails, StartListening, SpawnAccept, Stop, StopCalled, CloseAll, Join, ReportStop
<1>5. \A d \in Forwarders : pc'[d] = pc[d]
  BY <1>p, <1>4, ThreadFacts DEF Goto, PcType
<1> QED
  BY <1>p, <1>1, <1>3, <1>5, QuietData DEF Onward, data

LEMMA AcceptData ==
  ASSUME TypeOK, LifetimeInv, DataInv, AcceptThread
  PROVE  DataInv'
<1>p. PcType /\ DataType /\ EventsType
  BY TypeParts
<1> USE DEF BeginAccept, Accepted, AcceptFailed, ReportFailure, Abandon, ConnectFailed, Threw,
            Publish, Connected, SpawnForwarder, KeepForwarder
<1>1. UNCHANGED data
  BY DEF AcceptThread
<1>2. Silent \/ EmitNotice("error") \/ EmitNotice("proxy connected")
  BY DEF AcceptThread
<1>3. Quiet
  BY <1>p, <1>2, QuietSilent, QuietNotice, PointFacts
<1>4. ASSUME NEW d \in Forwarders, SpawnForwarder(d)
      PROVE  \A e \in Forwarders : Onward(e)
  <2>1. pc[d] = "none"
    BY <1>4, ThreadFacts DEF LifetimeInv, Handles, NotYet
  <2>2. pc'[d] = "loop" /\ \A e \in Forwarders \ {d} : pc'[e] = pc[e]
    BY <1>p, <1>4, ThreadFacts DEF PcType
  <2> QED
    BY <2>1, <2>2 DEF Onward
<1>5. CASE ~\E d \in Forwarders : SpawnForwarder(d)
  <2>1. \E p \in AcceptPoints : Goto(Accept, p)
    BY <1>5, PointFacts DEF AcceptThread
  <2>2. \A e \in Forwarders : pc'[e] = pc[e]
    BY <1>p, <2>1, GotoAccept, ThreadFacts
  <2> QED
    BY <1>p, <1>1, <1>3, <2>2, QuietData DEF Onward, data
<1>6. CASE \E d \in Forwarders : SpawnForwarder(d)
  BY <1>p, <1>1, <1>3, <1>4, <1>6, QuietData DEF data
<1> QED
  BY <1>5, <1>6

\* The steps of a forwarding thread that neither record nor forward.
LEMMA IdleForwardData ==
  ASSUME TypeOK, DataInv, NEW d \in Forwarders,
         CheckStopped(d) \/ ReadOrWriteFailed(d) \/ Leave(d) \/ CloseSockets(d) \/ ReportEnd(d)
  PROVE  DataInv'
<1>p. PcType /\ DataType /\ EventsType
  BY TypeParts
<1> USE DEF CheckStopped, ReadOrWriteFailed, Leave, CloseSockets, ReportEnd
<1>1. UNCHANGED data
  OBVIOUS
<1>2. Silent \/ EmitNotice("proxy stopped")
  OBVIOUS
<1>3. Quiet
  BY <1>p, <1>2, QuietSilent, QuietNotice, PointFacts
<1>4. \/ pc[d] = "loop" /\ Goto(d, "read")
      \/ \E p \in {"leave", "close", "report", "done"} : Goto(d, p)
  OBVIOUS
<1>5. \/ pc[d] = "loop" /\ pc'[d] = "read"
      \/ pc'[d] \in {"leave", "close", "report", "done"}
  BY <1>p, <1>4, GotoForward, PointFacts
<1>6. \A e \in Forwarders \ {d} : pc'[e] = pc[e]
  BY <1>p, <1>4, GotoForward, PointFacts, ThreadFacts
<1>7. \A e \in Forwarders : Onward(e)
  BY <1>5, <1>6 DEF Onward
<1> QED
  BY <1>p, <1>1, <1>3, <1>7, QuietData DEF data

LEMMA ReadData ==
  ASSUME TypeOK, DataInv, NEW d \in Forwarders, Read(d)
  PROVE  DataInv'
<1>p. PcType /\ DataType /\ EventsType
  BY TypeParts
<1>1. /\ pc[d] = "read" /\ pc'[d] = "emit" /\ chunk'[d] = counter
      /\ \A e \in Forwarders \ {d} : pc'[e] = pc[e] /\ chunk'[e] = chunk[e]
  BY <1>p, GotoForward, PointFacts, ThreadFacts DEF Read, DataType
<1>2. counter \in Nat /\ counter' = counter + 1 /\ UNCHANGED <<emitted, pending, forwarded>>
  BY <1>p DEF Read, EventsType
<1>3. /\ \A e : Raw(e)' = Raw(e) /\ Recorded(e)' = Recorded(e) /\ Recorded(e) \subseteq Nat
      /\ \A type : Of(type)' = Of(type)
  BY <1>p, <1>2, OfSilent, RecordTyped DEF Raw, Of, Recorded
<1>4. LatencyPairsAreProper' /\ Requests' = Requests /\ Responses' = Responses
  BY <1>2, <1>3, KeptSame, PairsKept DEF DataInv
<1>5. ForwardsWhatItRecords'
  BY <1>2, <1>3 DEF DataInv, ForwardsWhatItRecords, NumbersGrow, Sent, NoGap
<1>6. \A e \in Forwarders : \A n \in Recorded(e) : n < counter /\ n < counter + 1
  BY <1>2, <1>3 DEF DataInv, NumbersAreGiven
<1>7. NumbersAreGiven'
  <2>1. \A e \in Forwarders : chunk[e] \in Nat
    BY <1>p DEF DataType
  <2>2. \A e \in Forwarders \ {d} : pc[e] = "emit" =>
            chunk[e] < counter + 1 /\ \A n \in Recorded(e) : n < chunk[e]
    BY <1>2, <2>1 DEF DataInv, NumbersAreGiven
  <2>3. counter < counter + 1
    BY <1>2
  <2> QED
    BY <1>1, <1>2, <1>3, <1>6, <2>2, <2>3 DEF NumbersAreGiven
<1>8. Forwarding'
  BY <1>1, <1>2, <1>3 DEF DataInv, Forwarding, Sent
<1>9. Measuring'
  <2>1. \A n \in Requests \cup Range(pending) \cup Responses : n < counter
    BY <1>6, MeasuredWasRecorded, ThreadFacts DEF DataInv, Measuring
  <2>2. \A k, l \in DOMAIN pending : k < l => pending[k] < pending[l]
    BY DEF DataInv, Measuring
  <2>3. /\ Range(pending) \subseteq Recorded(AppToDevice)
        /\ \A m \in Requests, n \in Range(pending) : m < n
    BY DEF DataInv, Measuring
  <2>4. pc'[AppToDevice] \in {"emit", "observe"} =>
            \A n \in Requests \cup Range(pending) : n < chunk'[AppToDevice]
    BY <1>1, <2>1, ThreadFacts DEF DataInv, Measuring
  <2>5. pc'[DeviceToApp] \in {"emit", "observe"} => \A n \in Responses : n < chunk'[DeviceToApp]
    BY <1>1, <2>1, ThreadFacts DEF DataInv, Measuring
  <2> QED
    BY <1>2, <1>3, <1>4, <2>2, <2>3, <2>4, <2>5 DEF Measuring
<1> QED
  BY <1>4, <1>5, <1>7, <1>8, <1>9 DEF DataInv

LEMMA EmitData ==
  ASSUME TypeOK, DataInv, NEW d \in Forwarders, EmitRaw(d)
  PROVE  DataInv'
<1>p. PcType /\ DataType /\ EventsType
  BY TypeParts
<1>1. /\ pc[d] = "emit" /\ pc'[d] = "observe"
      /\ \A e \in Forwarders \ {d} : pc'[e] = pc[e]
  BY <1>p, GotoForward, PointFacts, ThreadFacts DEF EmitRaw
<1>2. UNCHANGED <<counter, chunk, pending, forwarded>>
  BY DEF EmitRaw, data
<1>e. PICK raw \in EventType : /\ raw = RawBytes(d, chunk[d]) /\ raw.type = "raw_bytes"
                               /\ raw.direction = d /\ raw.seq = chunk[d]
                               /\ emitted' = Append(emitted, raw)
  BY <1>p DEF EmitRaw, RawBytes, EventType, DataType
<1>3. /\ Raw(d)' = Raw(d) \cup {Len(emitted) + 1}
      /\ \A e \in Forwarders \ {d} : Raw(e)' = Raw(e)
  BY <1>p, <1>e, RawAppended
<1>4. Of("latency")' = Of("latency")
  BY <1>p, <1>e, OfAppended
<1>5. /\ Kept /\ Len(emitted) \in Nat /\ emitted'[Len(emitted) + 1] = raw
      /\ \A type : \A i \in Of(type) : i < Len(emitted) + 1
      /\ \A type : Of(type) \subseteq Nat
  BY <1>p, <1>e, KeptAppended, RecordTyped
<1>6. \A i \in Raw(d) : emitted'[i] = emitted[i]
  BY <1>5 DEF Kept, Raw, Of
<1>7. /\ Recorded(d)' = Recorded(d) \cup {chunk[d]}
      /\ \A e \in Forwarders \ {d} : Recorded(e)' = Recorded(e)
  <2>1. Recorded(d)' = Recorded(d) \cup {chunk[d]}
    <3>1. PICK at : at = Len(emitted) + 1
      OBVIOUS
    <3>2. Recorded(d)' = {emitted'[i].seq : i \in Raw(d) \cup {at}}
      BY <1>3, <3>1, Zenon DEF Recorded
    <3>3. emitted'[at].seq = chunk[d] /\ \A i \in Raw(d) : emitted'[i].seq = emitted[i].seq
      BY <1>e, <1>5, <1>6, <3>1, Zenon
    <3> QED
      BY <3>2, <3>3 DEF Recorded
  <2> QED
    BY <1>3, <1>5, <2>1, RawSame
<1>8. LatencyPairsAreProper' /\ Requests' = Requests /\ Responses' = Responses
  BY <1>3, <1>4, <1>5, PairsKept DEF DataInv
<1>9. /\ chunk[d] < counter /\ Recorded(d) \subseteq Sent(d) /\ Sent(d) \subseteq Recorded(d)
      /\ \A n \in Recorded(d) : n < chunk[d]
  BY <1>1 DEF DataInv, NumbersAreGiven, Forwarding, ForwardsWhatItRecords
<1>10. ForwardsWhatItRecords'
  <2>1. ASSUME NEW e \in Forwarders \ {d}
        PROVE  (NumbersGrow(e) /\ Sent(e) \subseteq Recorded(e) /\ NoGap(e))'
    <3>1. \A i \in Raw(e) : emitted'[i] = emitted[i]
      BY <1>5 DEF Kept, Raw, Of
    <3> QED
      BY <1>2, <1>3, <1>7, <3>1 DEF DataInv, ForwardsWhatItRecords, NumbersGrow, Sent, NoGap
  <2>2. \A i, j \in Raw(d)' : i < j => emitted'[i].seq < emitted'[j].seq
    <3>1. Raw(d) \subseteq Of("raw_bytes")
      BY DEF Raw
    <3>2. \A i, j \in Raw(d) : i < j => emitted'[i].seq < emitted'[j].seq
      BY <1>6 DEF DataInv, ForwardsWhatItRecords, NumbersGrow
    <3>3. \A i \in Raw(d) : emitted'[i].seq < chunk[d]
      <4>1. \A i \in Raw(d) : emitted[i].seq \in Recorded(d)
        BY DEF Recorded
      <4> QED
        BY <1>6, <1>9, <4>1
    <3>4. emitted'[Len(emitted) + 1].seq = chunk[d]
      BY <1>e, <1>5
    <3>5. \A i \in Raw(d) : i \in Nat /\ i < Len(emitted) + 1
      BY <1>5, <3>1
    <3> QED
      BY <1>3, <1>5, <3>2, <3>3, <3>4, <3>5
  <2>3. NumbersGrow(d)'
    BY <1>2, <2>2 DEF DataInv, ForwardsWhatItRecords, NumbersGrow
  <2>4. Sent(d)' = Sent(d)
    BY <1>2 DEF Sent
  <2>5. Recorded(d) \subseteq Nat /\ chunk[d] \in Nat
    BY <1>p, RecordTyped DEF DataType
  <2>6. NoGap(d)'
    <3> SUFFICES ASSUME NEW m \in Recorded(d) \cup {chunk[d]}, NEW n \in Sent(d), m < n
                 PROVE  m \in Sent(d)
      BY <1>7, <2>4 DEF NoGap
    <3>1. m # chunk[d]
      BY <1>9, <2>5
    <3> QED
      BY <1>9, <3>1
  <2> QED
    BY <1>7, <1>9, <2>1, <2>3, <2>4, <2>6 DEF ForwardsWhatItRecords
<1>11. NumbersAreGiven'
  BY <1>1, <1>2, <1>7, <1>9 DEF DataInv, NumbersAreGiven
<1>12. Forwarding'
  <2>1. \A e \in Forwarders : Sent(e)' = Sent(e)
    BY <1>2 DEF Sent
  <2> QED
    BY <1>1, <1>2, <1>7, <1>9, <2>1 DEF DataInv, Forwarding
<1>13. Measuring'
  <2>1. \A e \in Forwarders : Recorded(e) \subseteq Recorded(e)'
    BY <1>7
  <2>2. \A e \in Forwarders : pc'[e] \in {"emit", "observe"} => pc[e] \in {"emit", "observe"}
    BY <1>1
  <2>3. Measuring
    BY DEF DataInv
  <2> QED
    BY <1>2, <1>8, <2>1, <2>2, <2>3, ThreadFacts DEF Measuring
<1> QED
  BY <1>8, <1>10, <1>11, <1>12, <1>13 DEF DataInv

LEMMA AppendFacts ==
  ASSUME NEW s \in Seq(Nat), NEW n \in Nat
  PROVE  /\ Range(Append(s, n)) = Range(s) \cup {n}
         /\ (\A k, l \in DOMAIN s : k < l => s[k] < s[l]) /\ (\A m \in Range(s) : m < n) =>
                \A k, l \in DOMAIN Append(s, n) : k < l => Append(s, n)[k] < Append(s, n)[l]
<1>0. Append(s, n) \in Seq(Nat)
  OBVIOUS
<1>1. PICK t \in Seq(Nat) : t = Append(s, n)
  BY <1>0, Zenon
<1>2. /\ DOMAIN s = 1..Len(s) /\ Len(s) \in Nat /\ DOMAIN t = 1..(Len(s) + 1)
      /\ t[Len(s) + 1] = n /\ \A k \in 1..Len(s) : t[k] = s[k]
  BY <1>1
<1>3. Range(t) = Range(s) \cup {n}
  <2>1. PICK at : at = Len(s) + 1
    OBVIOUS
  <2>2. DOMAIN t = DOMAIN s \cup {at} /\ t[at] = n /\ \A k \in DOMAIN s : t[k] = s[k]
    BY <1>2, <2>1
  <2> QED
    BY <2>2 DEF Range
<1>4. ASSUME \A k, l \in DOMAIN s : k < l => s[k] < s[l], \A m \in Range(s) : m < n
      PROVE  \A k, l \in DOMAIN t : k < l => t[k] < t[l]
  <2>1. \A k \in 1..Len(s) : s[k] < n
    BY <1>2, <1>4 DEF Range
  <2> QED
    BY SMTT(20), <1>2, <1>4, <2>1
<1> QED
  BY <1>1, <1>3, <1>4

LEMMA TailFacts ==
  ASSUME NEW s \in Seq(Nat), s # <<>>, \A k, l \in DOMAIN s : k < l => s[k] < s[l]
  PROVE  /\ Head(s) \in Range(s) /\ Range(Tail(s)) \subseteq Range(s)
         /\ \A m \in Range(Tail(s)) : Head(s) < m
         /\ \A k, l \in DOMAIN Tail(s) : k < l => Tail(s)[k] < Tail(s)[l]
<1>0. Tail(s) \in Seq(Nat)
  OBVIOUS
<1>1. PICK t \in Seq(Nat) : t = Tail(s)
  BY <1>0, Zenon
<1>2. /\ DOMAIN s = 1..Len(s) /\ Len(s) \in Nat \ {0} /\ Head(s) = s[1]
      /\ DOMAIN t = 1..(Len(s) - 1) /\ \A k \in 1..(Len(s) - 1) : t[k] = s[k + 1]
  BY <1>1
<1>3. \A k \in DOMAIN t : k \in Nat /\ k + 1 \in DOMAIN s /\ 1 \in DOMAIN s /\ 1 < k + 1
  BY SMTT(20), <1>2
<1>4. \A k, l \in DOMAIN t : k < l => t[k] < t[l]
  <2>1. \A k, l \in 1..(Len(s) - 1) : k < l => k + 1 < l + 1
    BY <1>2
  <2> QED
    BY <1>2, <1>3, <2>1
<1>5. Head(s) \in Range(s) /\ Range(t) \subseteq Range(s)
  BY <1>2, <1>3 DEF Range
<1>6. \A k \in DOMAIN t : Head(s) < t[k]
  BY <1>2, <1>3
<1>7. \A m \in Range(t) : Head(s) < m
  BY <1>6 DEF Range
<1> QED
  BY <1>1, <1>4, <1>5, <1>7

LEMMA WriteData ==
  ASSUME TypeOK, DataInv, NEW d \in Forwarders, Write(d)
  PROVE  DataInv'
<1>p. PcType /\ DataType /\ EventsType
  BY TypeParts
<1>1. /\ pc[d] = "write" /\ pc'[d] = "loop"
      /\ \A e \in Forwarders \ {d} : pc'[e] = pc[e]
  BY <1>p, GotoForward, PointFacts, ThreadFacts DEF Write
<1>2. UNCHANGED <<counter, emitted, chunk, pending>>
  BY DEF Write, Silent
<1>3. /\ forwarded[d] \in Seq(Nat) /\ chunk[d] \in Nat
      /\ forwarded'[d] = Append(forwarded[d], chunk[d])
      /\ \A e \in Forwarders \ {d} : forwarded'[e] = forwarded[e]
  BY <1>p DEF Write, DataType
<1>4. /\ \A e : Raw(e)' = Raw(e) /\ Recorded(e)' = Recorded(e)
      /\ \A type : Of(type)' = Of(type)
  BY <1>2 DEF Raw, Of, Recorded
<1>5. LatencyPairsAreProper' /\ Requests' = Requests /\ Responses' = Responses
  BY <1>2, <1>4, KeptSame, PairsKept DEF DataInv
<1>6. /\ chunk[d] \in Recorded(d) /\ Recorded(d) \subseteq Sent(d) \cup {chunk[d]}
      /\ \A n \in Sent(d) : n < chunk[d]
      /\ NumbersGrow(d) /\ Sent(d) \subseteq Recorded(d)
  BY <1>1 DEF DataInv, Forwarding, ForwardsWhatItRecords
<1>7. /\ Sent(d)' = Sent(d) \cup {chunk[d]}
      /\ \A e \in Forwarders \ {d} : Sent(e)' = Sent(e)
  BY <1>3, AppendFacts DEF Sent
<1>8. ForwardsWhatItRecords'
  <2>1. ASSUME NEW e \in Forwarders \ {d}
        PROVE  (NumbersGrow(e) /\ Sent(e) \subseteq Recorded(e) /\ NoGap(e))'
    BY <1>2, <1>3, <1>4, <1>7 DEF DataInv, ForwardsWhatItRecords, NumbersGrow, NoGap
  <2>2. \A k, l \in DOMAIN forwarded[d] : k < l => forwarded[d][k] < forwarded[d][l]
    BY <1>6 DEF NumbersGrow
  <2>3. \A m \in Range(forwarded[d]) : m < chunk[d]
    BY <1>6 DEF Sent
  <2>4. \A k, l \in DOMAIN forwarded'[d] : k < l => forwarded'[d][k] < forwarded'[d][l]
    BY <1>3, <2>2, <2>3, AppendFacts
  <2>5. NumbersGrow(d)'
    BY <1>2, <1>4, <1>6, <2>4 DEF NumbersGrow
  <2>6. NoGap(d)' /\ Sent(d)' \subseteq Recorded(d)'
    BY <1>4, <1>6, <1>7 DEF NoGap
  <2> QED
    BY <2>1, <2>5, <2>6 DEF ForwardsWhatItRecords
<1>9. NumbersAreGiven'
  BY <1>1, <1>2, <1>4 DEF DataInv, NumbersAreGiven
<1>10. Forwarding'
  BY <1>1, <1>2, <1>4, <1>6, <1>7 DEF DataInv, Forwarding
<1>11. Measuring'
  <2>1. \A e \in Forwarders : pc'[e] \in {"emit", "observe"} => pc[e] \in {"emit", "observe"}
    BY <1>1
  <2>2. Measuring
    BY DEF DataInv
  <2> QED
    BY <1>2, <1>4, <1>5, <2>1, <2>2, ThreadFacts DEF Measuring
<1> QED
  BY <1>5, <1>8, <1>9, <1>10, <1>11 DEF DataInv

\* A request is queued, or there is nothing to be measured.
LEMMA QueueData ==
  ASSUME TypeOK, DataInv, NEW d \in Forwarders, ObserveLatency(d), Silent
  PROVE  DataInv'
<1>p. PcType /\ DataType /\ EventsType
  BY TypeParts
<1>1. /\ pc[d] = "observe" /\ pc'[d] = "write"
      /\ \A e \in Forwarders \ {d} : pc'[e] = pc[e]
  BY <1>p, GotoForward, PointFacts, ThreadFacts DEF ObserveLatency
<1>2. UNCHANGED <<counter, emitted, chunk, forwarded>>
  BY DEF ObserveLatency, Silent
<1>3. /\ \A e : Raw(e)' = Raw(e) /\ Recorded(e)' = Recorded(e)
      /\ \A type : Of(type)' = Of(type)
      /\ \A e \in Forwarders : Sent(e)' = Sent(e)
  BY <1>2 DEF Raw, Of, Recorded, Sent
<1>4. LatencyPairsAreProper' /\ Requests' = Requests /\ Responses' = Responses
  BY <1>2, <1>3, KeptSame, PairsKept DEF DataInv
<1>5. ForwardsWhatItRecords'
  BY <1>2, <1>3 DEF DataInv, ForwardsWhatItRecords, NumbersGrow, NoGap
<1>6. NumbersAreGiven'
  BY <1>1, <1>2, <1>3 DEF DataInv, NumbersAreGiven
<1>7. Forwarding'
  BY <1>1, <1>2, <1>3 DEF DataInv, Forwarding
<1>8. \A e \in Forwarders : pc'[e] \in {"emit", "observe"} => pc[e] \in {"emit", "observe"} /\ e # d
  BY <1>1
<1>9. Measuring /\ chunk[d] \in Recorded(d)
  BY <1>1 DEF DataInv, Forwarding
<1>10. CASE UNCHANGED pending
  <2>1. Measuring'
    BY <1>2, <1>3, <1>4, <1>8, <1>9, <1>10, ThreadFacts DEF Measuring
  <2> QED
    BY <1>4, <1>5, <1>6, <1>7, <2>1 DEF DataInv
<1>11. CASE d = AppToDevice /\ pending' = Append(pending, chunk[d])
  <2>1. pending \in Seq(Nat) /\ chunk[d] \in Nat
    BY <1>p DEF DataType
  <2>2. \A n \in Requests \cup Range(pending) : n < chunk[d]
    BY <1>1, <1>9, <1>11 DEF Measuring
  <2>3. Range(pending)' = Range(pending) \cup {chunk[d]}
    BY <1>11, <2>1, AppendFacts
  <2>4. \A k, l \in DOMAIN pending : k < l => pending[k] < pending[l]
    BY <1>9 DEF Measuring
  <2>5. \A k, l \in DOMAIN pending' : k < l => pending'[k] < pending'[l]
    BY <1>11, <2>1, <2>2, <2>4, AppendFacts
  <2>6. Range(pending)' \subseteq Recorded(AppToDevice)
    BY <1>9, <1>11, <2>3 DEF Measuring
  <2>7. \A m \in Requests, n \in Range(pending)' : m < n
    BY <1>9, <2>2, <2>3 DEF Measuring
  <2>8. Measuring'
    BY <1>2, <1>3, <1>4, <1>8, <1>9, <1>11, <2>5, <2>6, <2>7, ThreadFacts DEF Measuring
  <2> QED
    BY <1>4, <1>5, <1>6, <1>7, <2>8 DEF DataInv
<1>12. counter' # counter + 1
  BY <1>p, <1>2 DEF EventsType
<1> QED
  BY <1>10, <1>11, <1>12 DEF ObserveLatency

\* A response is paired with the oldest queued request.
LEMMA MeasureData ==
  ASSUME TypeOK, DataInv, ObserveLatency(DeviceToApp), pending # <<>>, pending' = Tail(pending),
         emitted' = Append(emitted, Latency(counter, Head(pending), chunk[DeviceToApp])),
         counter' = counter + 1
  PROVE  DataInv'
<1>p. PcType /\ DataType /\ EventsType
  BY TypeParts
<1> DEFINE d == DeviceToApp
<1>d. d \in Forwarders /\ d # AppToDevice
  BY ThreadFacts
<1>1. /\ pc[d] = "observe" /\ pc'[d] = "write"
      /\ \A e \in Forwarders \ {d} : pc'[e] = pc[e]
  BY <1>d, <1>p, GotoForward, PointFacts, ThreadFacts DEF ObserveLatency
<1>2. UNCHANGED <<chunk, forwarded>>
  BY DEF ObserveLatency
<1>t. pending \in Seq(Nat) /\ Head(pending) \in Nat /\ chunk[d] \in Nat /\ counter \in Nat
  BY <1>d, <1>p DEF DataType, EventsType
<1>e. PICK e \in EventType : /\ e = Latency(counter, Head(pending), chunk[d])
                             /\ e.type = "latency"
                             /\ e.request = Head(pending) /\ e.response = chunk[d]
                             /\ emitted' = Append(emitted, e)
  BY <1>t DEF Latency, EventType
<1>3. PICK at : at = Len(emitted) + 1
  OBVIOUS
<1>4. /\ Of("latency")' = Of("latency") \cup {at}
      /\ \A c : Raw(c)' = Raw(c)
  BY <1>p, <1>e, <1>3, OfAppended, RawAppended
<1>5. /\ Kept /\ at \in Nat /\ emitted'[at] = e
      /\ \A type : \A i \in Of(type) : i \in Nat /\ i < at /\ emitted'[i] = emitted[i]
  BY <1>p, <1>e, <1>3, KeptAppended, RecordTyped DEF Kept, Of
<1>6. /\ \A c : Recorded(c)' = Recorded(c)
      /\ \A c \in Forwarders : Sent(c)' = Sent(c)
  BY <1>2, <1>4, <1>5, RawSame DEF Sent
<1>7. /\ Requests' = Requests \cup {Head(pending)}
      /\ Responses' = Responses \cup {chunk[d]}
  <2>1. /\ Requests' = {emitted'[j].request : j \in Of("latency") \cup {at}}
        /\ Responses' = {emitted'[j].response : j \in Of("latency") \cup {at}}
    BY <1>4, Zenon DEF Requests, Responses
  <2>2. \A j \in Of("latency") : emitted'[j] = emitted[j]
    BY <1>5
  <2> QED
    BY ZenonT(30), <1>e, <1>5, <2>1, <2>2 DEF Requests, Responses
<1>8. /\ Head(pending) \in Range(pending) /\ Range(Tail(pending)) \subseteq Range(pending)
      /\ \A m \in Range(Tail(pending)) : Head(pending) < m
      /\ \A k, l \in DOMAIN Tail(pending) : k < l => Tail(pending)[k] < Tail(pending)[l]
  BY <1>t, TailFacts DEF DataInv, Measuring
<1>9. /\ \A n \in Requests : n < Head(pending)
      /\ \A n \in Responses : n < chunk[d]
      /\ Head(pending) \in Recorded(AppToDevice) /\ chunk[d] \in Recorded(d)
  BY <1>1, <1>8, <1>d DEF DataInv, Measuring, Forwarding
<1>10. PairsInOrder'
  <2>1. \A i, j \in Of("latency") : i < j => /\ emitted'[i].request < emitted'[j].request
                                             /\ emitted'[i].response < emitted'[j].response
    BY <1>5 DEF DataInv, LatencyPairsAreProper, PairsInOrder
  <2>2. \A i \in Of("latency") : emitted[i].request \in Requests /\ emitted[i].response \in Responses
    BY DEF Requests, Responses
  <2>3. \A i \in Of("latency") : /\ emitted'[i].request < emitted'[at].request
                                 /\ emitted'[i].response < emitted'[at].response
    BY <1>e, <1>5, <1>9, <2>2
  <2>4. \A i \in Of("latency") \cup {at} : ~(at < i)
    BY <1>5
  <2> QED
    BY <1>4, <2>1, <2>3, <2>4 DEF PairsInOrder
<1>11. LatencyPairsAreProper'
  <2>1. \A c \in Forwarders : \A n, j : RecordedBefore(c, n, j) => RecordedBefore(c, n, j)'
    BY <1>4, <1>5, RawKept
  <2>2. ASSUME NEW c \in Forwarders, NEW n \in Recorded(c)
        PROVE  RecordedBefore(c, n, at)'
    <3>1. PICK i \in Raw(c) : emitted[i].seq = n
      BY <2>2 DEF Recorded
    <3>2. i < at /\ emitted'[i].seq = n
      BY <1>5, <3>1 DEF Raw
    <3> QED
      BY <1>4, <3>1, <3>2 DEF RecordedBefore
  <2>3. /\ RecordedBefore(AppToDevice, emitted[at].request, at)'
        /\ RecordedBefore(DeviceToApp, emitted[at].response, at)'
    <3>1. emitted'[at].request \in Recorded(AppToDevice) /\ emitted'[at].response \in Recorded(d)
      BY <1>e, <1>5, <1>9
    <3>2. PICK m, n : m = emitted'[at].request /\ n = emitted'[at].response
      OBVIOUS
    <3>3. RecordedBefore(AppToDevice, m, at)' /\ RecordedBefore(DeviceToApp, n, at)'
      BY <2>2, <3>1, <3>2, ThreadFacts
    <3> QED
      BY <3>2, <3>3 DEF RecordedBefore
  <2>4. ASSUME NEW j \in Of("latency")
        PROVE  /\ RecordedBefore(AppToDevice, emitted[j].request, j)'
               /\ RecordedBefore(DeviceToApp, emitted[j].response, j)'
    <3>1. PICK m, n : m = emitted[j].request /\ n = emitted[j].response
      OBVIOUS
    <3>2. RecordedBefore(AppToDevice, m, j) /\ RecordedBefore(DeviceToApp, n, j)
      BY <3>1 DEF DataInv, LatencyPairsAreProper
    <3>3. RecordedBefore(AppToDevice, m, j)' /\ RecordedBefore(DeviceToApp, n, j)'
      BY <2>1, <3>2, ThreadFacts
    <3>4. emitted'[j].request = m /\ emitted'[j].response = n
      BY <1>5, <3>1
    <3> QED
      BY <3>3, <3>4 DEF RecordedBefore
  <2> QED
    BY <1>4, <1>10, <2>3, <2>4 DEF LatencyPairsAreProper
<1>12. ForwardsWhatItRecords'
  <2>1. \A c : \A i \in Raw(c) : emitted'[i] = emitted[i]
    BY <1>5 DEF Raw
  <2> QED
    BY ZenonT(30), <1>2, <1>4, <1>6, <2>1 DEF DataInv, ForwardsWhatItRecords, NumbersGrow, NoGap
<1>13. NumbersAreGiven'
  <2>1. \A c \in Forwarders : Recorded(c) \subseteq Nat /\ chunk[c] \in Nat
    BY <1>p, RecordTyped DEF DataType
  <2>2. \A c \in Forwarders : \A n \in Recorded(c) : n < counter + 1
    BY <1>t, <2>1 DEF DataInv, NumbersAreGiven
  <2>3. \A c \in Forwarders : pc'[c] = "emit" =>
            chunk[c] < counter + 1 /\ \A n \in Recorded(c) : n < chunk[c]
    BY SMTT(20), <1>1, <1>t, <2>1 DEF DataInv, NumbersAreGiven
  <2> QED
    BY <1>2, <1>6, <2>2, <2>3 DEF NumbersAreGiven
<1>14. Forwarding'
  BY <1>1, <1>2, <1>6 DEF DataInv, Forwarding
<1>15. Measuring'
  <2>1. /\ pc'[DeviceToApp] \notin {"emit", "observe"}
        /\ pc'[AppToDevice] = pc[AppToDevice] /\ chunk'[AppToDevice] = chunk[AppToDevice]
    BY <1>1, <1>2, <1>d, ThreadFacts
  <2>2. Range(pending)' \subseteq Recorded(AppToDevice)'
    BY <1>6, <1>8 DEF DataInv, Measuring
  <2>3. \A m \in Requests', n \in Range(pending)' : m < n
    BY <1>7, <1>8 DEF DataInv, Measuring
  <2>4. pc[AppToDevice] \in {"emit", "observe"} =>
            \A n \in Requests' \cup Range(pending)' : n < chunk[AppToDevice]
    BY <1>7, <1>8 DEF DataInv, Measuring
  <2> QED
    BY <1>8, <2>1, <2>2, <2>3, <2>4 DEF Measuring
<1> QED
  BY <1>11, <1>12, <1>13, <1>14, <1>15 DEF DataInv

LEMMA StepData == TypeOK /\ LifetimeInv /\ DataInv /\ [Next]_vars => DataInv'
<1> SUFFICES ASSUME TypeOK, LifetimeInv, DataInv, [Next]_vars PROVE DataInv'
  OBVIOUS
<1>p. DataType /\ EventsType
  BY TypeParts
<1>1. CASE UNCHANGED vars
  BY <1>p, <1>1, QuietSilent, QuietData DEF vars, data, Silent, Onward
<1>2. ASSUME NEW d \in Forwarders, ObserveLatency(d)
      PROVE  DataInv'
  <2>1. \/ Silent
        \/ /\ d # AppToDevice /\ pending # <<>> /\ pending' = Tail(pending)
           /\ emitted' = Append(emitted, Latency(counter, Head(pending), chunk[d]))
           /\ counter' = counter + 1
    BY <1>2, Zenon DEF ObserveLatency
  <2>2. d # AppToDevice => d = DeviceToApp
    BY ThreadFacts
  <2> QED
    BY <1>2, <2>1, <2>2, QueueData, MeasureData
<1>3. ASSUME NEW d \in Forwarders, Forward(d)
      PROVE  DataInv'
  BY <1>2, <1>3, IdleForwardData, ReadData, EmitData, WriteData DEF Forward
<1> QED
  BY <1>1, <1>3, OwnerData, AcceptData DEF Next

\* The shared numbering, the queue of requests and what each thread has in hand.
THEOREM DataIsInStep == Spec => []DataInv
<1>1. TypeOK /\ LifetimeInv /\ DataInv /\ [Next]_vars => (TypeOK /\ LifetimeInv /\ DataInv)'
  BY StepType, StepLifetime, StepData
<1> QED
  BY <1>1, InitType, InitLifetime, InitData, PTL DEF Spec

\* Each side is sent what the other sent, in order, without a gap and never
\* before it was recorded, however the two directions, failing writes and the
\* end of the session interleave.
THEOREM ForwardedAsRecorded == Spec => []ForwardsWhatItRecords
<1>1. DataInv => ForwardsWhatItRecords
  BY DEF DataInv
<1> QED
  BY <1>1, DataIsInStep, PTL

\* A latency event pairs a recorded request and a recorded response, each at
\* most once and in their order, although the threads number, record and
\* observe their chunks in different orders.
THEOREM PairsAreProper == Spec => []LatencyPairsAreProper
<1>1. DataInv => LatencyPairsAreProper
  BY DEF DataInv
<1> QED
  BY <1>1, DataIsInStep, PTL
=============================================================================
