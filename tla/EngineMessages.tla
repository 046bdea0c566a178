--------------------------- MODULE EngineMessages ---------------------------
(***************************************************************************)
(* The vocabulary of the engine control protocol: the commands a viewer    *)
(* sends over the IPC socket and the lines the engine hands to the socket  *)
(* server.  Payloads, serial framing and host names are abstracted to the  *)
(* distinctions the engine's control flow makes.                           *)
(***************************************************************************)
EXTENDS Naturals, Sequences

CONSTANTS
    Clients,    \* IPC clients (viewers), each served by its own handler call
    Configs,    \* the capture configurations that pass validation
    NoConfig    \* has_config_ = false

ASSUME NoConfigAssumption == NoConfig \notin Configs

(***************************************************************************)
(* Commands.  "Malformed" stands for an argument the handler refuses: a    *)
(* missing or non-object "config", one that engine_config_from_json or     *)
(* validate_options throws on, a missing or non-hexadecimal payload_hex.   *)
(* "noise" is a line that handle_command drops before it has found a       *)
(* command in it; "unknown" is a command with an unrecognised name.        *)
(***************************************************************************)
LockedOps == {"configure", "start_capture", "stop_capture", "get_status", "send"}

UnlockedOps == {"list_serial_ports", "unknown"}

Arguments == Configs \cup {"WellFormed", "Malformed"}

Command == [op : {"configure"}, arg : Configs \cup {"Malformed"}]
           \cup [op : {"send"}, arg : {"WellFormed", "Malformed"}]
           \cup [op : (LockedOps \ {"configure", "send"}) \cup UnlockedOps \cup {"noise"},
                 arg : {"WellFormed"}]

EngineState == {"idle", "capturing"}

(***************************************************************************)
(* Messages, in the order in which they are handed to the socket server.   *)
(***************************************************************************)
Result(c, op, ok) == [kind |-> "result", to |-> c, op |-> op, ok |-> ok]

Report(c, st, cfg) ==
    [kind |-> "report", to |-> c, engine_state |-> st, config |-> cfg]

\* Mutant: the two fields are swapped.
Status_Swapped(st, cfg) == [kind |-> "status", engine_state |-> cfg, config |-> st]

Status(st, cfg) == [kind |-> "status", engine_state |-> st, config |-> cfg]

Event(run, n) == [kind |-> "event", run |-> run, n |-> n]

EventMessage == [kind : {"event"}, run : Nat, n : Nat]

Message ==
    [kind : {"result"}, to : Clients, op : LockedOps \cup UnlockedOps, ok : BOOLEAN]
    \cup [kind : {"report"}, to : Clients, engine_state : EngineState,
          config : Configs \cup {NoConfig}]
    \cup [kind : {"status"}, engine_state : EngineState, config : Configs \cup {NoConfig}]
    \cup EventMessage

IsReplyTo(c, m) == m.kind \in {"result", "report"} /\ m.to = c
=============================================================================
