------------------------------- MODULE UserInput -------------------------------
(***************************************************************************)
(* A user at work, one piece after the other: typing a command line, which *)
(* the program reads argument by argument; filling in the capture form;    *)
(* writing a config; typing bytes in hex.                                  *)
(***************************************************************************)
EXTENDS CaptureForm, FiniteSets, SequencesExt, TLC

CONSTANT Tasks   \* what is entered: [kind, start, choices, limit]

VARIABLES task,
          entered,    \* arguments, form, members of a config, or characters
          parser      \* of the arguments

vars == <<task, entered, parser>>

Parse(args) == FoldLeft(ReadArgument, StartParser, args)

Init ==
    /\ task \in Tasks
    /\ entered = task.start
    /\ parser = IF task.kind = "argv" THEN Parse(task.start) ELSE StartParser

GiveArgument ==
    /\ task.kind = "argv" /\ Len(entered) < task.limit /\ ~parser.threw
    /\ \E t \in task.choices :
          /\ entered' = Append(entered, t)
          /\ parser' = ReadArgument(parser, t)
    /\ UNCHANGED task

FillField ==
    /\ task.kind = "form"
    /\ \E field \in DOMAIN task.choices : \E t \in task.choices[field] :
          entered' = [entered EXCEPT ![field] = t]
    /\ UNCHANGED <<task, parser>>

WriteMember ==
    /\ task.kind = "config" /\ Cardinality(DOMAIN entered) < task.limit
    /\ \E key \in DOMAIN task.choices \ DOMAIN entered : \E v \in task.choices[key] :
          entered' = entered @@ (key :> v)
    /\ UNCHANGED <<task, parser>>

TypeCharacter ==
    /\ task.kind = "hex" /\ Len(entered) < task.limit
    /\ \E ch \in task.choices : entered' = Append(entered, ch)
    /\ UNCHANGED <<task, parser>>

Next == GiveArgument \/ FillField \/ WriteMember \/ TypeCharacter

Spec == Init /\ [][Next]_vars
=============================================================================
