--------------------------- MODULE SenderProperties ---------------------------
(* What a run in a direct mode must and may never do. *)
EXTENDS SenderSession, FiniteSets

Told(kinds) == {i \in DOMAIN events : events[i].kind \in kinds}

-----------------------------------------------------------------------------
(***************************************************************************)
(* Lifetimes                                                               *)
(***************************************************************************)
\* stop() of a TCP server session that had ended by itself, or whose start had
\* failed, has left the transport alone: its destructor will stop it.
NeverStopped == run.mode = Server /\ destroying /\ transport = "open"

\* A callback of the transport uses on_event_, stopped_ and the pipeline
\* without a lock.  They outlive it, also where stop() returns early because
\* the session ended by itself and its transport was never stopped.  So does
\* the state that a TCP server's callbacks lock, wherever stop() has stopped the
\* transport; where it has not, ~Impl destroys that state before the transport
\* (tcp_server_capture_session.cpp:14), and the property promises nothing of it.
CallbackFindsItsSession ==
    /\ pc[Io] # "idle" => {"session", "pipeline", "server"} \subseteq alive
    /\ pc[Io] = "locking" /\ ~NeverStopped => "state" \in alive

\* "a handler that captures a session by reference can never fire after that
\* session is gone" (apps/packet-probe-cli/run_common.hpp:43).
HandlerFindsItsSession ==
    \A h \in Handlers : pc[h] \in {"send", "sending", "emit"} => "session" \in alive

-----------------------------------------------------------------------------
(***************************************************************************)
(* What the log of a run says                                              *)
(***************************************************************************)
\* A TCP server captures one client at a time: what it records as received
\* came from the client it last reported as connected and has not reported
\* as lost, whatever other clients connect, send and leave meanwhile.
BytesBelongToActiveClient ==
    run.mode = Server =>
        \A i \in Told({"rx"}) :
            \E j \in Told({"connected"}) :
                /\ j < i /\ events[j].peer = events[i].peer
                /\ \A k \in Told({"connected", "disconnected", "error"}) : ~(j < k /\ k < i)

\* A capture fed by a pipe goes on after the pipe's end; when it ends without
\* a signal and without an error of its own, the log says what ended it.
RunReportsItsEnd ==
    (pc[Main] = "end" /\ exit_code = 0 /\ ~run.file /\ ~run.interactive /\ ~stop_requested) =>
        Told(Ends) # {}

-----------------------------------------------------------------------------
(***************************************************************************)
(* Ending                                                                  *)
(***************************************************************************)
\* A handler that has outlived its session, holds a transport that is gone or
\* looks at a client that is gone; a callback whose session's state is gone.
Undefined ==
    \/ \E h \in Handlers :
          \/ pc[h] \in {"send", "sending", "emit"} /\ "session" \notin alive
          \/ pc[h] = "sending" /\ transport = "gone"
          \/ pc[h] = "send" /\ run.mode = Server /\ "state" \notin alive
    \/ pc[Io] = "locking" /\ "state" \notin alive

\* Once the session has ended or a signal has come, the run ends, unless it
\* is waiting for a line of input.
RunEnds ==
    (stop_requested \/ (stopped /\ transport # "none")) /\ pc[Main] # "reading"
        ~> pc[Main] = "end" \/ Undefined
=============================================================================
