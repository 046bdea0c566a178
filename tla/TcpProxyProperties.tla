------------------------- MODULE TcpProxyProperties -------------------------
(***************************************************************************)
(* What must be true of a proxy session and its latency events.            *)
(***************************************************************************)
EXTENDS TcpProxySession, SequencesExt, FiniteSets

OwnerPoints == {"new", "spawn", "open", "destroy", "close", "report", "destroyed"} \cup Spawned
AcceptPoints == {"none", "begin", "accepting", "connecting", "failed", "abandon", "connected",
                 "spawn_app", "keep_app", "spawn_device", "keep_device", "done"}
ForwardPoints == {"none", "loop", "read", "emit", "observe", "write", "leave", "close",
                  "report", "done"}
NoticeTypes == {"listening", "error", "proxy connected", "proxy stopped"}
EventType ==
    [type : NoticeTypes, seq : Nat]
    \cup [type : {"raw_bytes"}, direction : Forwarders, seq : Nat]
    \cup [type : {"latency"}, seq : Nat, request : Nat, response : Nat]

\* Every variable has its type.
TypeOK ==
    /\ pc \in [Threads -> OwnerPoints \cup AcceptPoints \cup ForwardPoints]
    /\ pc[Owner] \in OwnerPoints /\ pc[Accept] \in AcceptPoints
    /\ \A d \in Forwarders : pc[d] \in ForwardPoints
    /\ stopped \in BOOLEAN /\ destroying \in BOOLEAN
    /\ acceptor \in {"none", "open", "closed"} /\ sockets \in {"none", "open", "closed"}
    /\ handle \in [Spawned -> BOOLEAN] /\ was_stopped \in [Threads -> BOOLEAN]
    /\ counter \in Nat
    /\ reads \in [Forwarders -> Nat] /\ chunk \in [Forwarders -> Nat]
    /\ pending \in Seq(Nat)
    /\ emitted \in Seq(EventType)
    /\ forwarded \in [Forwarders -> Seq(Nat)]

Of(type) == {i \in DOMAIN emitted : emitted[i].type = type}

-----------------------------------------------------------------------------
(***************************************************************************)
(* The end of a session.                                                   *)
(***************************************************************************)
\* The destructor leaves no thread behind, not even one that was being
\* created while stop() was joining, and no socket that was opened meanwhile:
\* nothing calls on_event on behalf of a session that is gone, and no
\* std::thread is destroyed while it is joinable.
DestroyedIsSilent ==
    pc[Owner] = "destroyed" =>
        /\ \A t \in Spawned : ~handle[t] /\ pc[t] \in {"none", "done"}
        /\ acceptor # "open" /\ sockets # "open"

ReportedAtMostOnce == Cardinality(Of("proxy stopped")) <= 1

EndLeavesAnEvent ==
    (pc[Owner] = "destroyed" /\ Of("listening") # {}) =>
        Of("proxy stopped") \cup Of("error") # {}

\* Two forwarding threads and two calls of stop() race to the end, and one of
\* them reports it: a session that said it was listening does not disappear
\* without an event that tells why or that it stopped, and tells it only once.
EndIsReported == ReportedAtMostOnce /\ EndLeavesAnEvent

-----------------------------------------------------------------------------
(***************************************************************************)
(* The inductive invariant behind the end of a session.                    *)
(***************************************************************************)
Idle(t) == pc[t] \in {"none", "done"}

\* How far the owner is through stop().
Joining == Spawned \cup {"report"}

\* While start() runs there is nothing else.
Starting ==
    pc[Owner] \in {"new", "spawn"} =>
        /\ sockets = "none"
        /\ \A t \in Spawned : pc[t] = "none" /\ ~handle[t]
        /\ pc[Owner] = "new" => stopped /\ emitted = <<>>

\* The accept thread has not come to the point where it creates thread d.
NotYet(d) ==
    pc[Accept] \in {"none", "begin", "accepting", "connecting", "connected", "spawn_app"}
                   \cup (IF d = DeviceToApp THEN {"keep_app", "spawn_device"} ELSE {})

\* A thread that runs has its std::thread, unless the accept thread is just
\* about to assign it, and a forwarding thread does not run before it is created.
Handles ==
    /\ ~Idle(Accept) => handle[Accept]
    /\ \A d \in Forwarders : ~Idle(d) /\ ~handle[d] =>
           pc[Accept] = IF d = AppToDevice THEN "keep_app" ELSE "keep_device"
    /\ \A d \in Forwarders : NotYet(d) => pc[d] = "none"

\* The first stop() that gets through has joined the accept thread, after which
\* no thread and no socket is added.
AcceptIsOver ==
    (destroying \/ pc[Owner] \in {"report", "destroy", "destroyed"}) =>
        Idle(Accept) /\ ~handle[Accept]

\* What the destructor's stop() has dealt with, step by step.
Destroying ==
    /\ destroying => pc[Owner] \in {"close", "destroyed"} \cup Joining
    /\ pc[Owner] = "destroyed" => destroying
    /\ (destroying /\ pc[Owner] \in {"destroyed"} \cup Joining) =>
           acceptor # "open" /\ sockets # "open"
    /\ (destroying /\ pc[Owner] \in {DeviceToApp, Accept, "report", "destroyed"}) =>
           Idle(AppToDevice) /\ ~handle[AppToDevice]
    /\ (destroying /\ pc[Owner] \in {Accept, "report", "destroyed"}) =>
           Idle(DeviceToApp) /\ ~handle[DeviceToApp]

LifetimeInv == Starting /\ Handles /\ AcceptIsOver /\ Destroying

\* A thread that ended the session and has not reported it yet.
Reports(t) ==
    /\ ~was_stopped[t]
    /\ IF t = Owner THEN pc[t] \in {"close"} \cup Joining
       ELSE t \in Forwarders /\ pc[t] \in {"close", "report"}

Reported == Of("proxy stopped") # {}

\* The end is reported or somebody is about to report it, but only one.
EndInv ==
    /\ ~stopped => ~Reported /\ \A t \in Threads : ~Reports(t)
    /\ \A t \in Threads : Reports(t) => ~Reported
    /\ \A t, u \in Threads : Reports(t) /\ Reports(u) => t = u
    /\ \A i, j \in Of("proxy stopped") : i = j
    /\ (Of("listening") # {} /\ (stopped \/ pc[Accept] = "abandon")) =>
           Reported \/ Of("error") # {} \/ \E t \in Threads : Reports(t)
    /\ pc[Owner] \in {"close", "destroyed"} \cup Joining => stopped

\* stop() returns.  "stop_capture: stops the active capture session and
\* returns to idle" (docs/ipc-protocol.md:132) and "Every command ...
\* receives exactly one result message" (docs/ipc-protocol.md:142).
StopReturns == pc[Owner] = "close" ~> pc[Owner] \in {"destroy", "destroyed"}

\* Once one side is gone, the other does not go on alone.
SidesEndTogether ==
    \A d \in Forwarders : pc[d] = "done" ~> \A e \in Forwarders : pc[e] \in {"none", "done"}

-----------------------------------------------------------------------------
(***************************************************************************)
(* Forwarding and latency.                                                 *)
(***************************************************************************)
Raw(d) == {i \in Of("raw_bytes") : emitted[i].direction = d}
Recorded(d) == {emitted[i].seq : i \in Raw(d)}
Sent(d) == Range(forwarded[d])

\* The numbers of one direction grow, in the events and in what is forwarded.
NumbersGrow(d) ==
    /\ \A i, j \in Raw(d) : i < j => emitted[i].seq < emitted[j].seq
    /\ \A k, l \in DOMAIN forwarded[d] : k < l => forwarded[d][k] < forwarded[d][l]

NoGap(d) == \A m \in Recorded(d), n \in Sent(d) : m < n => m \in Sent(d)

\* What one side is sent is what the other side sent, in order and with no
\* gap, and none of it is sent before it has been recorded.
ForwardsWhatItRecords ==
    \A d \in Forwarders : NumbersGrow(d) /\ Sent(d) \subseteq Recorded(d) /\ NoGap(d)

PairsInOrder ==
    \A i, j \in Of("latency") : i < j =>
        /\ emitted[i].request < emitted[j].request
        /\ emitted[i].response < emitted[j].response

RecordedBefore(d, n, j) == \E i \in Raw(d) : i < j /\ emitted[i].seq = n

\* A request is measured at most once and a response measures at most one
\* request; both were recorded before the measurement, in the directions the
\* names say; requests are measured in their order.
LatencyPairsAreProper ==
    /\ PairsInOrder
    /\ \A j \in Of("latency") : /\ RecordedBefore(AppToDevice, emitted[j].request, j)
                                /\ RecordedBefore(DeviceToApp, emitted[j].response, j)

-----------------------------------------------------------------------------
(***************************************************************************)
(* The inductive invariant behind forwarding and latency.                  *)
(***************************************************************************)
\* No number is used before the allocator gives it out, and a thread emits
\* its chunk later than it records any other.
NumbersAreGiven ==
    \A d \in Forwarders :
        /\ \A n \in Recorded(d) : n < counter
        /\ pc[d] = "emit" => chunk[d] < counter /\ \A n \in Recorded(d) : n < chunk[d]

\* Until a write fails, a thread has forwarded all it recorded but the chunk
\* at hand.
Forwarding ==
    \A d \in Forwarders :
        /\ pc[d] \in {"none", "loop", "read", "emit"} => Recorded(d) \subseteq Sent(d)
        /\ pc[d] \in {"observe", "write"} =>
               /\ chunk[d] \in Recorded(d) /\ Recorded(d) \subseteq Sent(d) \cup {chunk[d]}
               /\ \A n \in Sent(d) : n < chunk[d]

Requests == {emitted[j].request : j \in Of("latency")}
Responses == {emitted[j].response : j \in Of("latency")}

\* The queue holds recorded requests in their order, later ones than were
\* measured; a chunk not yet observed is later than those that were.
Measuring ==
    /\ \A k, l \in DOMAIN pending : k < l => pending[k] < pending[l]
    /\ Range(pending) \subseteq Recorded(AppToDevice)
    /\ \A m \in Requests, n \in Range(pending) : m < n
    /\ pc[AppToDevice] \in {"emit", "observe"} =>
           \A n \in Requests \cup Range(pending) : n < chunk[AppToDevice]
    /\ pc[DeviceToApp] \in {"emit", "observe"} => \A n \in Responses : n < chunk[DeviceToApp]

DataInv ==
    ForwardsWhatItRecords /\ LatencyPairsAreProper /\ NumbersAreGiven /\ Forwarding /\ Measuring
=============================================================================
