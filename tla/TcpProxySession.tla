--------------------------- MODULE TcpProxySession ---------------------------
(***************************************************************************)
(* TcpProxyCaptureSession and the latency tracker it feeds.  Four threads:  *)
(* the owner, which starts the session, stops it and destroys it; the       *)
(* accept thread, which waits for one application, connects to the device   *)
(* and starts the two forwarding threads; and those two.                    *)
(*                                                                         *)
(* app_socket and device_socket are set and closed together under           *)
(* socket_mutex and are one variable here.  An event is numbered when it is *)
(* made and stands in emitted in the order on_event was called.  Bytes that *)
(* one read returns are one chunk, named by the number of its event.        *)
(***************************************************************************)
EXTENDS Naturals, Sequences

CONSTANTS
    CloseWakesAccept, \* closing the acceptor ends an accept() another thread is in
    LatencyEnabled,
    MaxReads          \* bound: chunks read in each direction

ASSUME EnvironmentAssumption == CloseWakesAccept \in BOOLEAN /\ LatencyEnabled \in BOOLEAN
ASSUME MaxReadsAssumption == MaxReads \in Nat

Owner == "owner"
Accept == "accept"
AppToDevice == "app_to_device"
DeviceToApp == "device_to_app"
Forwarders == {AppToDevice, DeviceToApp}
Spawned == Forwarders \cup {Accept}     \* the threads the session creates
Threads == Spawned \cup {Owner}

VARIABLES
    pc,
    stopped,         \* stopped_
    acceptor,        \* "none", "open" or "closed"
    sockets,         \* the same for impl_->app_socket and impl_->device_socket
    handle,          \* the std::thread of each spawned thread is joinable
    was_stopped,     \* what a thread's stopped_.exchange(true) returned
    destroying,      \* stop() has been called by the destructor
    counter,         \* the shared sequence allocator
    reads,           \* chunks read in each direction
    chunk,           \* number of the raw event a forwarding thread is busy with
    pending,         \* LatencyTracker::pending_
    emitted,         \* events handed to on_event
    forwarded        \* chunks written to the other side

sync == <<stopped, acceptor, sockets, handle, was_stopped, destroying>>
data == <<reads, chunk, pending, forwarded>>
vars == <<pc, sync, data, counter, emitted>>

Init ==
    /\ pc = [t \in Threads |-> IF t = Owner THEN "new" ELSE "none"]
    /\ stopped = TRUE
    /\ acceptor = "none"
    /\ sockets = "none"
    /\ handle = [t \in Spawned |-> FALSE]
    /\ was_stopped = [t \in Threads |-> FALSE]
    /\ destroying = FALSE
    /\ counter = 1
    /\ reads = [d \in Forwarders |-> 0]
    /\ chunk = [d \in Forwarders |-> 0]
    /\ pending = <<>>
    /\ emitted = <<>>
    /\ forwarded = [d \in Forwarders |-> <<>>]

Goto(t, point) == pc' = [pc EXCEPT ![t] = point]

Notice(type, seq) == [type |-> type, seq |-> seq]
RawBytes(d, seq) == [type |-> "raw_bytes", direction |-> d, seq |-> seq]
\* Mutant: the request is not filled in.
Latency_Unpaired(seq, request, response) ==
    [type |-> "latency", seq |-> seq, response |-> response]

Latency(seq, request, response) ==
    [type |-> "latency", seq |-> seq, request |-> request, response |-> response]

\* make_event and emit in one, for the events nothing else depends on.
EmitNotice(type) ==
    /\ emitted' = Append(emitted, Notice(type, counter))
    /\ counter' = counter + 1

Silent == UNCHANGED <<emitted, counter>>

Shut(s) == IF s = "open" THEN "closed" ELSE s

-----------------------------------------------------------------------------
(***************************************************************************)
(* start()                                                                 *)
(***************************************************************************)
\* A setting is refused, or the listener cannot be opened, bound or made to
\* listen: start() throws with stopped_ still set.
StartFails ==
    /\ pc[Owner] = "new"
    /\ acceptor' \in {"none", "open"}
    /\ Goto(Owner, "destroy")
    /\ Silent /\ UNCHANGED <<stopped, sockets, handle, was_stopped, destroying, data>>

StartListening ==
    /\ pc[Owner] = "new"
    /\ acceptor' = "open"
    /\ stopped' = FALSE
    /\ EmitNotice("listening")
    /\ Goto(Owner, "spawn")
    /\ UNCHANGED <<sockets, handle, was_stopped, destroying, data>>

\* std::thread throws when the system has no thread to give.
SpawnAccept ==
    /\ pc[Owner] = "spawn"
    /\ \/ /\ handle' = [handle EXCEPT ![Accept] = TRUE]
          /\ pc' = [pc EXCEPT ![Owner] = "open", ![Accept] = "begin"]
       \/ Goto(Owner, "destroy") /\ UNCHANGED handle
    /\ Silent /\ UNCHANGED <<stopped, acceptor, sockets, was_stopped, destroying, data>>

-----------------------------------------------------------------------------
(***************************************************************************)
(* stop(), which the destructor calls again                                *)
(***************************************************************************)
StopCalled ==
    /\ pc[Owner] \in {"open", "destroy"}
    /\ was_stopped' = [was_stopped EXCEPT ![Owner] = stopped]
    /\ stopped' = TRUE
    /\ destroying' = (pc[Owner] = "destroy")
    /\ Goto(Owner, "close")
    /\ Silent /\ UNCHANGED <<acceptor, sockets, handle, data>>

\* Mutant: only the listener is closed.
CloseAll_ListenerOnly ==
    /\ pc[Owner] = "close"
    /\ acceptor' = Shut(acceptor)
    /\ Goto(Owner, AppToDevice)
    /\ Silent /\ UNCHANGED <<stopped, sockets, handle, was_stopped, destroying, data>>

CloseAll ==
    /\ pc[Owner] = "close"
    /\ acceptor' = Shut(acceptor)
    /\ sockets' = Shut(sockets)
    /\ Goto(Owner, AppToDevice)
    /\ Silent /\ UNCHANGED <<stopped, handle, was_stopped, destroying, data>>

\* The joins, in their order; the owner's pc names the thread to be joined.
JoinOrder == [app_to_device |-> DeviceToApp, device_to_app |-> Accept, accept |-> "report"]

\* A thread whose std::thread has not been assigned yet is not joinable and
\* is not waited for, even if it runs already.
Join(t) ==
    /\ pc[Owner] = t
    /\ handle[t] => pc[t] = "done"
    /\ handle' = [handle EXCEPT ![t] = FALSE]
    /\ Goto(Owner, JoinOrder[t])
    /\ Silent /\ UNCHANGED <<stopped, acceptor, sockets, was_stopped, destroying, data>>

\* Mutant: the destructor relies on the stop() before it.
ReportStop_Once ==
    /\ pc[Owner] = "report"
    /\ IF was_stopped[Owner] THEN Silent ELSE EmitNotice("proxy stopped")
    /\ Goto(Owner, "destroyed")
    /\ UNCHANGED <<sync, data>>

ReportStop ==
    /\ pc[Owner] = "report"
    /\ IF was_stopped[Owner] THEN Silent ELSE EmitNotice("proxy stopped")
    /\ Goto(Owner, IF destroying THEN "destroyed" ELSE "destroy")
    /\ UNCHANGED <<sync, data>>

-----------------------------------------------------------------------------
(***************************************************************************)
(* The accept thread                                                       *)
(***************************************************************************)
BeginAccept ==
    /\ pc[Accept] = "begin"
    /\ Goto(Accept, IF acceptor = "closed" THEN "failed" ELSE "accepting")
    /\ Silent /\ UNCHANGED <<sync, data>>

\* An application connects; a listener that is closed while accept() is in
\* progress may go on accepting.
Accepted ==
    /\ pc[Accept] = "accepting"
    /\ acceptor = "open" \/ ~CloseWakesAccept
    /\ Goto(Accept, "connecting")
    /\ Silent /\ UNCHANGED <<sync, data>>

AcceptFailed ==
    /\ pc[Accept] = "accepting"
    /\ acceptor = "closed" => CloseWakesAccept
    /\ Goto(Accept, "failed")
    /\ Silent /\ UNCHANGED <<sync, data>>

\* accept() failed, or something threw: the error is of interest only if
\* nobody asked for the end.
ReportFailure ==
    /\ pc[Accept] = "failed"
    /\ IF stopped THEN Silent ELSE EmitNotice("error")
    /\ Goto(Accept, "abandon")
    /\ UNCHANGED <<sync, data>>

Abandon ==
    /\ pc[Accept] = "abandon"
    /\ stopped' = TRUE
    /\ Goto(Accept, "done")
    /\ Silent /\ UNCHANGED <<acceptor, sockets, handle, was_stopped, destroying, data>>

\* The device cannot be resolved or reached.
ConnectFailed ==
    /\ pc[Accept] = "connecting"
    /\ EmitNotice("error")
    /\ Goto(Accept, "abandon")
    /\ UNCHANGED <<sync, data>>

\* remote_endpoint() throws when the application has gone, std::thread when
\* there is no thread to be had.
Threw ==
    /\ pc[Accept] \in {"connecting", "spawn_app", "spawn_device"}
    /\ Goto(Accept, "failed")
    /\ Silent /\ UNCHANGED <<sync, data>>

Publish ==
    /\ pc[Accept] = "connecting"
    /\ sockets' = "open"
    /\ Goto(Accept, "connected")
    /\ Silent /\ UNCHANGED <<stopped, acceptor, handle, was_stopped, destroying, data>>

Connected ==
    /\ pc[Accept] = "connected"
    /\ EmitNotice("proxy connected")
    /\ Goto(Accept, "spawn_app")
    /\ UNCHANGED <<sync, data>>

\* The new thread may run before its std::thread is assigned to the member.
SpawnForwarder(d) ==
    /\ pc[Accept] = IF d = AppToDevice THEN "spawn_app" ELSE "spawn_device"
    /\ pc' = [pc EXCEPT ![d] = "loop",
                        ![Accept] = IF d = AppToDevice THEN "keep_app" ELSE "keep_device"]
    /\ Silent /\ UNCHANGED <<sync, data>>

KeepForwarder(d) ==
    /\ pc[Accept] = IF d = AppToDevice THEN "keep_app" ELSE "keep_device"
    /\ handle' = [handle EXCEPT ![d] = TRUE]
    /\ Goto(Accept, IF d = AppToDevice THEN "spawn_device" ELSE "done")
    /\ Silent /\ UNCHANGED <<stopped, acceptor, sockets, was_stopped, destroying, data>>

-----------------------------------------------------------------------------
(***************************************************************************)
(* A forwarding thread: while not stopped, read, emit, observe, write.     *)
(***************************************************************************)
CheckStopped(d) ==
    /\ pc[d] = "loop"
    /\ Goto(d, IF stopped THEN "leave" ELSE "read")
    /\ Silent /\ UNCHANGED <<sync, data>>

\* read_some returns bytes and the raw event is made.
Read(d) ==
    /\ pc[d] = "read" /\ reads[d] < MaxReads
    /\ reads' = [reads EXCEPT ![d] = @ + 1]
    /\ chunk' = [chunk EXCEPT ![d] = counter]
    /\ counter' = counter + 1
    /\ Goto(d, "emit")
    /\ UNCHANGED <<sync, pending, forwarded, emitted>>

\* The peer closed, or a socket was closed here.
ReadOrWriteFailed(d) ==
    /\ pc[d] \in {"read", "write"}
    /\ Goto(d, "leave")
    /\ Silent /\ UNCHANGED <<sync, data>>

EmitRaw(d) ==
    /\ pc[d] = "emit"
    /\ emitted' = Append(emitted, RawBytes(d, chunk[d]))
    /\ Goto(d, "observe")
    /\ UNCHANGED <<sync, data, counter>>

\* Mutant: the paired request is not taken off the queue.
ObserveLatency_KeepsRequest(d) ==
    /\ pc[d] = "observe"
    /\ IF LatencyEnabled /\ d = AppToDevice
       THEN pending' = Append(pending, chunk[d]) /\ Silent
       ELSE IF LatencyEnabled /\ pending # <<>>
            THEN /\ emitted' = Append(emitted, Latency(counter, Head(pending), chunk[d]))
                 /\ counter' = counter + 1
                 /\ UNCHANGED pending
            ELSE UNCHANGED pending /\ Silent
    /\ Goto(d, "write")
    /\ UNCHANGED <<sync, reads, chunk, forwarded>>

\* LatencyTracker::observe under latency_mutex: a request is queued, a
\* response is paired with the oldest queued request.
ObserveLatency(d) ==
    /\ pc[d] = "observe"
    /\ IF LatencyEnabled /\ d = AppToDevice
       THEN pending' = Append(pending, chunk[d]) /\ Silent
       ELSE IF LatencyEnabled /\ pending # <<>>
            THEN /\ pending' = Tail(pending)
                 /\ emitted' = Append(emitted, Latency(counter, Head(pending), chunk[d]))
                 /\ counter' = counter + 1
            ELSE UNCHANGED pending /\ Silent
    /\ Goto(d, "write")
    /\ UNCHANGED <<sync, reads, chunk, forwarded>>

\* Mutant: a failed write does not end the loop.
Write_GoesOn(d) ==
    /\ pc[d] = "write" /\ sockets = "open"
    /\ \/ forwarded' = [forwarded EXCEPT ![d] = Append(@, chunk[d])]
       \/ UNCHANGED forwarded
    /\ Goto(d, "loop")
    /\ Silent /\ UNCHANGED <<sync, reads, chunk, pending>>

Write(d) ==
    /\ pc[d] = "write" /\ sockets = "open"
    /\ forwarded' = [forwarded EXCEPT ![d] = Append(@, chunk[d])]
    /\ Goto(d, "loop")
    /\ Silent /\ UNCHANGED <<sync, reads, chunk, pending>>

\* Mutant: stopped_ is read after it has been set.
Leave_SetsFirst(d) ==
    /\ pc[d] = "leave"
    /\ was_stopped' = [was_stopped EXCEPT ![d] = TRUE]
    /\ stopped' = TRUE
    /\ Goto(d, "close")
    /\ Silent /\ UNCHANGED <<acceptor, sockets, handle, destroying, data>>

Leave(d) ==
    /\ pc[d] = "leave"
    /\ was_stopped' = [was_stopped EXCEPT ![d] = stopped]
    /\ stopped' = TRUE
    /\ Goto(d, "close")
    /\ Silent /\ UNCHANGED <<acceptor, sockets, handle, destroying, data>>

\* Mutant: a thread that ends leaves the sockets open.
CloseSockets_Leaves(d) ==
    /\ pc[d] = "close"
    /\ Goto(d, "report")
    /\ Silent /\ UNCHANGED <<sync, data>>

CloseSockets(d) ==
    /\ pc[d] = "close"
    /\ sockets' = Shut(sockets)
    /\ Goto(d, "report")
    /\ Silent /\ UNCHANGED <<stopped, acceptor, handle, was_stopped, destroying, data>>

ReportEnd(d) ==
    /\ pc[d] = "report"
    /\ IF was_stopped[d] THEN Silent ELSE EmitNotice("proxy stopped")
    /\ Goto(d, "done")
    /\ UNCHANGED <<sync, data>>

-----------------------------------------------------------------------------
Start == StartFails \/ StartListening \/ SpawnAccept

Stop ==
    StopCalled \/ CloseAll \/ ReportStop \/ \E t \in Spawned : Join(t)

AcceptThread ==
    BeginAccept \/ Accepted \/ AcceptFailed \/ ReportFailure \/ Abandon \/ ConnectFailed
    \/ Threw \/ Publish \/ Connected \/ \E d \in Forwarders : SpawnForwarder(d) \/ KeepForwarder(d)

Forward(d) ==
    CheckStopped(d) \/ Read(d) \/ ReadOrWriteFailed(d) \/ EmitRaw(d) \/ ObserveLatency(d)
    \/ Write(d) \/ Leave(d) \/ CloseSockets(d) \/ ReportEnd(d)

Next == Start \/ Stop \/ AcceptThread \/ \E d \in Forwarders : Forward(d)

Spec == Init /\ [][Next]_vars

(***************************************************************************)
(* Every step that does not wait for the outside happens, joins included.  *)
(* Resolving and connecting end in one way or another.  Nobody need        *)
(* connect, send or read; but once the sockets are closed, a read or write *)
(* fails, and so does an accept() where closing wakes it.  Nothing obliges *)
(* the owner to call stop(), only to go through with it.                   *)
(***************************************************************************)
Busy(t) == pc[t] \notin {"accepting", "read", "write"}

Fairness ==
    /\ WF_vars(Start) /\ WF_vars(pc[Owner] # "open" /\ Stop)
    /\ WF_vars(Busy(Accept) /\ AcceptThread)
    /\ WF_vars(acceptor = "closed" /\ AcceptFailed)
    /\ \A d \in Forwarders : /\ WF_vars(Busy(d) /\ Forward(d))
                             /\ WF_vars(sockets = "closed" /\ ReadOrWriteFailed(d))

FairSpec == Spec /\ Fairness
=============================================================================
