--------------------------- MODULE EngineProtocol ---------------------------
(***************************************************************************)
(* What engine mode promises its viewers, without threads, locks or        *)
(* objects: every command takes effect in one step, commands exclude each  *)
(* other, a successful configure, start_capture or stop_capture is         *)
(* followed by a status message before the next command takes effect, and  *)
(* captured events reach the viewers only while a session is being started *)
(* or is running.  EngineController is shown to implement it.              *)
(***************************************************************************)
EXTENDS EngineMessages

VARIABLES
    state,      \* "idle", "starting" (a start_capture is under way), "capturing"
    settings,   \* the configuration that is kept across captures
    owed,       \* a status message must be the next control message
    round,      \* captures begun so far
    stream      \* everything the viewers have been sent, in order

vars == <<state, settings, owed, round, stream>>

Init ==
    /\ state = "idle"
    /\ settings = NoConfig
    /\ owed = FALSE
    /\ round = 0
    /\ stream = <<>>

Say(m) == stream' = Append(stream, m)

Ready == ~owed /\ state # "starting"

Configure(c, cfg) ==
    /\ Ready /\ state = "idle"
    /\ settings' = cfg
    /\ owed' = TRUE
    /\ Say(Result(c, "configure", TRUE))
    /\ UNCHANGED <<state, round>>

BeginStart ==
    /\ Ready /\ state = "idle" /\ settings # NoConfig
    /\ state' = "starting"
    /\ round' = round + 1
    /\ UNCHANGED <<settings, owed, stream>>

Started(c) ==
    /\ state = "starting"
    /\ state' = "capturing"
    /\ owed' = TRUE
    /\ Say(Result(c, "start_capture", TRUE))
    /\ UNCHANGED <<settings, round>>

StartFailed(c) ==
    /\ state = "starting"
    /\ state' = "idle"
    /\ Say(Result(c, "start_capture", FALSE))
    /\ UNCHANGED <<settings, owed, round>>

Stopped(c) ==
    /\ Ready /\ state = "capturing"
    /\ state' = "idle"
    /\ owed' = TRUE
    /\ Say(Result(c, "stop_capture", TRUE))
    /\ UNCHANGED <<settings, round>>

\* A command that changes nothing and says why not.
Refuse(c, op) ==
    /\ Ready
    /\ \/ op \in {"configure", "send"}
       \/ op = "start_capture" /\ (state = "capturing" \/ settings = NoConfig)
       \/ op = "stop_capture" /\ state = "idle"
    /\ Say(Result(c, op, FALSE))
    /\ UNCHANGED <<state, settings, owed, round>>

GetStatus(c) ==
    /\ Ready
    /\ Say(Report(c, state, settings))
    /\ UNCHANGED <<state, settings, owed, round>>

Sent(c) ==
    /\ Ready /\ state = "capturing"
    /\ Say(Result(c, "send", TRUE))
    /\ UNCHANGED <<state, settings, owed, round>>

\* Commands that do not look at the capture state are answered at any time.
Answer(c, op, ok) ==
    /\ op = "unknown" => ~ok
    /\ Say(Result(c, op, ok))
    /\ UNCHANGED <<state, settings, owed, round>>

Announce ==
    /\ owed
    /\ owed' = FALSE
    /\ Say(Status(state, settings))
    /\ UNCHANGED <<state, settings, round>>

\* An event of the current capture, and only of that one.
Emit ==
    /\ state # "idle"
    /\ \E i \in DOMAIN stream' :
          /\ stream'[i] \in EventMessage
          /\ stream'[i].run = round
          /\ stream' = Append(stream, stream'[i])
    /\ UNCHANGED <<state, settings, owed, round>>

\* The process is told to stop: the capture ends and nothing is announced.
Halt ==
    /\ Ready /\ state = "capturing"
    /\ state' = "idle"
    /\ UNCHANGED <<settings, owed, round, stream>>

Next ==
    \/ \E c \in Clients :
          \/ \E cfg \in Configs : Configure(c, cfg)
          \/ Started(c) \/ StartFailed(c) \/ Stopped(c) \/ GetStatus(c) \/ Sent(c)
          \/ \E op \in LockedOps : Refuse(c, op)
          \/ \E op \in UnlockedOps, ok \in BOOLEAN : Answer(c, op, ok)
    \/ BeginStart \/ Announce \/ Emit \/ Halt

Spec == Init /\ [][Next]_vars
=============================================================================
