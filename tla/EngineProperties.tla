-------------------------- MODULE EngineProperties --------------------------
(***************************************************************************)
(* What must be true of the engine process.                                *)
(***************************************************************************)
EXTENDS EngineController, FiniteSets

\* Every variable has its type.
TypeOK ==
    /\ phase \in Phases
    /\ handler \in BOOLEAN
    /\ mutex \in Threads \cup {Free}
    /\ pc \in [Threads -> Points]
    /\ cmd \in [Clients -> Command]
    /\ received \in [Clients -> Nat] /\ dispatched \in [Clients -> Nat]
    /\ capturing \in BOOLEAN
    /\ config \in Configs \cup {NoConfig}
    /\ session \in Nat /\ pipeline \in Nat /\ recorder \in Nat /\ runs \in Nat
    /\ transport \in Nat
    /\ session_stopped \in BOOLEAN
    /\ events_seen \in Nat
    /\ callback \in [Emitters -> [at : {"none", "record", "broadcast"}, run : Nat, n : Nat]]
    /\ log \in Seq(LogLine)
    /\ wire \in Seq(Message)

-----------------------------------------------------------------------------
(***************************************************************************)
(* Lifetimes: on_event captures `this` and reads pipeline_ unlocked, and   *)
(* the sink holds a bare pointer to the recorder.  A callback in progress  *)
(* must find both alive and both of its own capture.                       *)
(***************************************************************************)
CallbackFindsItsCapture ==
    \A e \in Emitters : callback[e].at # "none" =>
        /\ pipeline = callback[e].run
        /\ recorder = callback[e].run

\* When no handler is at work and nothing is being captured, every part of
\* the last capture is gone, a start that failed halfway included.
IdleIsQuiescent ==
    (mutex = Free /\ ~capturing) =>
        /\ session = Null /\ pipeline = Null /\ recorder = Null
        /\ transport = Null
        /\ \A e \in Emitters : callback[e].at = "none"

\* A capture in progress with no handler at work owns all of its parts.
CapturingIsComplete ==
    (mutex = Free /\ capturing) => session = runs /\ pipeline = runs /\ recorder = runs

\* The configuration is replaced only between captures: no callback, no
\* transport and no half-built session can see it change.
ConfigFixedDuringCapture ==
    [][config' # config =>
         /\ ~capturing /\ session = Null /\ transport = Null
         /\ \A e \in Emitters : callback[e].at = "none"]_vars

-----------------------------------------------------------------------------
(***************************************************************************)
(* The inductive invariant behind the lifetime properties: who may be      *)
(* inside mutex_, what exists of a capture at each step of building it and *)
(* tearing it down, and when a callback may be in progress.                *)
(***************************************************************************)
Silent == \A e \in Emitters : callback[e].at = "none"

Built == pipeline = runs /\ recorder = runs

Gone == session = Null /\ pipeline = Null /\ recorder = Null

LockDiscipline ==
    /\ \A t \in Threads : pc[t] \in Steps <=> mutex = t
    /\ pc[Main] \in StopSteps \cup {"idle", "clear_handler"}
    /\ \A c \in Clients : pc[c] # "clear_handler"

CallbackDiscipline ==
    /\ transport \in {Null, runs}
    /\ \A e \in Emitters : callback[e].at # "none" => callback[e].run = runs
    /\ \A t \in Threads : callback[t].at # "none" =>
           pc[t] \in {"sending", "await_start", "destroy_session"}

Resting ==
    (\A t \in Threads : pc[t] \notin StartSteps \cup StopSteps) =>
        IF capturing THEN session = runs /\ Built ELSE Gone /\ transport = Null /\ Silent

\* What there is of a capture while thread t builds it.
BuildingAt(t) ==
    /\ pc[t] \in StartSteps => ~capturing /\ session = Null
    /\ pc[t] = "make_recorder" => Gone /\ transport = Null /\ Silent
    /\ pc[t] = "build_pipeline" =>
           pipeline = Null /\ recorder = runs /\ transport = Null /\ Silent
    /\ pc[t] = "start_transport" => Built /\ transport = Null /\ Silent
    /\ pc[t] = "await_start" => Built
    /\ pc[t] = "unwind" => Built /\ transport = Null
    /\ pc[t] = "rollback" => transport = Null /\ Silent

\* What there is of a capture while thread t tears it down.
StoppingAt(t) ==
    /\ pc[t] \in StopSteps => capturing
    /\ pc[t] \in {"stop_session", "join_session", "destroy_session"} => session = runs /\ Built
    /\ pc[t] = "join_session" => transport = Null
    /\ pc[t] \in {"reset_pipeline", "reset_recorder"} =>
           session = Null /\ recorder = runs /\ transport = Null /\ Silent
    /\ pc[t] = "reset_pipeline" => pipeline = runs
    /\ pc[t] = "reset_recorder" => pipeline = Null

Ending ==
    /\ pc[Main] = "clear_handler" => ~capturing
    /\ \A c \in Clients : pc[c] = "sending" => capturing
    /\ pc[Main] # "idle" => phase \in {"shutdown", "destroy"}
    /\ phase \in {"destroyed", "exited"} => mutex = Free /\ ~capturing /\ ~handler

EngineInv ==
    /\ LockDiscipline /\ CallbackDiscipline /\ Resting
    /\ \A t \in Threads : BuildingAt(t) /\ StoppingAt(t)
    /\ Ending

-----------------------------------------------------------------------------
(***************************************************************************)
(* What the viewers see.                                                   *)
(***************************************************************************)
IsStatus(m) == m.kind = "status"

IsEvent(m) == m.kind = "event"

\* m is the last status broadcast, or what a viewer assumes before the first.
LastStatusIs(m) ==
    \/ m = Status("idle", NoConfig) /\ \A i \in DOMAIN wire : ~IsStatus(wire[i])
    \/ \E i \in DOMAIN wire :
          /\ wire[i] = m /\ IsStatus(m)
          /\ \A j \in DOMAIN wire : j > i => ~IsStatus(wire[j])

EngineStateNow == IF capturing THEN "capturing" ELSE "idle"

\* Whoever follows the status broadcasts knows the engine's state and
\* configuration whenever no handler is at work, until shutdown() ends a
\* capture without announcing it.
StatusIsCurrent ==
    (mutex = Free /\ phase \in {"boot", "running", "shutdown"}) =>
        LastStatusIs(Status(EngineStateNow, config))

Replies(c) == {i \in DOMAIN wire : IsReplyTo(c, wire[i])}

\* A handler that has not replied yet.
Pending(c) == pc[c] \in {"called", "sending"} \cup StartSteps \cup StopSteps

\* A command that reached the controller is answered exactly once, whichever
\* branch, early return or exception its handler leaves by.
OneResultPerCommand ==
    \A c \in Clients :
        Cardinality(Replies(c))
            = dispatched[c] - (IF Pending(c) /\ cmd[c].op # "noise" THEN 1 ELSE 0)

\* "Every command (including send, in engine mode) receives exactly one
\* result message" (docs/ipc-protocol.md:142).  A viewer that reaches the
\* socket before install() or after shutdown() gets none.
EveryCommandIsAnswered ==
    \A c \in Clients : pc[c] = "idle" => Cardinality(Replies(c)) = received[c]

-----------------------------------------------------------------------------
(***************************************************************************)
(* The log file.                                                           *)
(***************************************************************************)
IsMetadata(l) == l.kind = "metadata"

\* Captures do not run into each other: once a viewer has been told that the
\* engine is idle no late event of that capture arrives, and every event line of
\* the log belongs to the capture whose metadata line precedes it.
CapturesAreSeparate ==
    /\ \A i, j, k \in DOMAIN wire :
          (/\ i < j /\ j < k
           /\ IsEvent(wire[i]) /\ IsEvent(wire[k])
           /\ IsStatus(wire[j]) /\ wire[j].engine_state = "idle")
          => wire[i].run < wire[k].run
    /\ \A j \in DOMAIN log : ~IsMetadata(log[j]) =>
          \E i \in 1..(j - 1) :
              /\ IsMetadata(log[i]) /\ log[i].run = log[j].run
              /\ \A k \in (i + 1)..j : ~IsMetadata(log[k])

\* An event a viewer has seen is in the log of a logged capture: the file is
\* never behind the socket.  It says which events, not in which order: what two
\* callback threads record and then broadcast may cross in between.
LoggedBeforeSeen ==
    \A i \in DOMAIN wire : IsEvent(wire[i]) =>
        \/ \E j \in DOMAIN log : log[j] = wire[i]
        \/ ~\E j \in DOMAIN log : IsMetadata(log[j]) /\ log[j].run = wire[i].run

-----------------------------------------------------------------------------
(***************************************************************************)
(* The end of the process.                                                 *)
(***************************************************************************)
\* Whatever the last handler calls did, the destructor's own shutdown leaves
\* nothing running when the controller's members are destroyed.
DestroyedIsQuiescent ==
    (phase \in {"destroyed", "exited"}) =>
        /\ ~capturing /\ session = Null /\ transport = Null /\ ~handler
        /\ \A e \in Emitters : callback[e].at = "none"

-----------------------------------------------------------------------------
(***************************************************************************)
(* Progress.                                                               *)
(***************************************************************************)
\* A command that reached the controller is finished with, unless the
\* controller is destroyed under it; and joining the session's threads ends, so
\* a requested shutdown is completed.
HandlersFinish ==
    /\ \A c \in Clients : pc[c] = "called" ~> (pc[c] = "idle" \/ phase = "destroyed")
    /\ phase = "shutdown" ~> phase \in {"destroyed", "exited"}

-----------------------------------------------------------------------------
(***************************************************************************)
(* The engine implements EngineProtocol: each command takes effect at its  *)
(* result, a start_capture under way counts as "starting".                 *)
(***************************************************************************)
Starting == \E c \in Clients : pc[c] \in StartSteps

Owed == \E c \in Clients : pc[c] = "status"

ProtocolState ==
    IF capturing THEN "capturing" ELSE IF Starting THEN "starting" ELSE "idle"

Protocol == INSTANCE EngineProtocol WITH
    state <- ProtocolState,
    settings <- config,
    owed <- Owed,
    round <- runs,
    stream <- wire

ImplementsProtocol == Protocol!Spec

-----------------------------------------------------------------------------
(***************************************************************************)
(* The inductive invariant behind what the viewers see and what the file   *)
(* holds: each conjunct is one more fact about the past of wire or log.    *)
(***************************************************************************)
\* The last status is out of date only while another one is due, or once
\* shutdown() is past ending the capture.
Announced ==
    (~Owed /\ pc[Main] # "clear_handler" /\ phase \in {"boot", "running", "shutdown"}) =>
        LastStatusIs(Status(EngineStateNow, config))

\* Replies are accounted for, and no line that is noise is being worked on.
Accounted ==
    /\ OneResultPerCommand
    /\ \A c \in Clients : pc[c] \in Steps => cmd[c].op # "noise"

\* Nobody has seen an event of a capture to come, nor, after an idle
\* status, one of the capture that it ended.
WireInOrder ==
    /\ ProtocolState # "idle" => runs # Null
    /\ \A i \in DOMAIN wire : IsEvent(wire[i]) => wire[i].run <= runs
    /\ \A i, j \in DOMAIN wire :
          (i < j /\ IsEvent(wire[i]) /\ IsStatus(wire[j]) /\ wire[j].engine_state = "idle"
           /\ ProtocolState # "idle") => wire[i].run < runs
    /\ \A i, j, k \in DOMAIN wire :
          (/\ i < j /\ j < k
           /\ IsEvent(wire[i]) /\ IsEvent(wire[k])
           /\ IsStatus(wire[j]) /\ wire[j].engine_state = "idle")
          => wire[i].run < wire[k].run

\* The last metadata line of the log names run.
LogIsOpenFor(run) ==
    \E i \in DOMAIN log :
        /\ log[i] = Metadata(run)
        /\ \A k \in DOMAIN log : k > i => ~IsMetadata(log[k])

\* What has been said or written of a run before its recorder is made.
NothingYet(run) ==
    /\ \A i \in DOMAIN wire : IsEvent(wire[i]) => wire[i].run < run
    /\ \A i \in DOMAIN log : IsMetadata(log[i]) => log[i].run < run

LogInOrder ==
    /\ recorder # Null =>
          IF config \in Logged THEN LogIsOpenFor(recorder)
          ELSE \A i \in DOMAIN log : IsMetadata(log[i]) => log[i].run # recorder
    /\ \A i \in DOMAIN log : IsMetadata(log[i]) => log[i].run <= runs
    /\ \A c \in Clients : pc[c] = "make_recorder" => NothingYet(runs)
    /\ \A e \in Emitters : (callback[e].at = "broadcast" /\ config \in Logged) =>
          \E j \in DOMAIN log : log[j] = Event(callback[e].run, callback[e].n)
    /\ LoggedBeforeSeen
    /\ \A j \in DOMAIN log : ~IsMetadata(log[j]) =>
          \E i \in 1..(j - 1) :
              /\ IsMetadata(log[i]) /\ log[i].run = log[j].run
              /\ \A k \in (i + 1)..j : ~IsMetadata(log[k])

HistoryInv == Announced /\ Accounted /\ WireInOrder /\ LogInOrder
=============================================================================
