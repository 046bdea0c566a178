------------------------------- MODULE EventLog -------------------------------
(***************************************************************************)
(* The JSONL log file as the recorder writes it and the viewer reads it.   *)
(*                                                                         *)
(* The file is a sequence of writes, each of one line and in one form:     *)
(* "whole", all of its text and the newline; "open", the text without the  *)
(* newline; "torn", some of the text.  Only appending is possible, so what *)
(* is written after an open or a torn write is glued to it.                *)
(***************************************************************************)
EXTENDS Naturals, Sequences, FiniteSets

Metadata(run) == [kind |-> "metadata", run |-> run]

Event(run, seq, parent) == [kind |-> "event", run |-> run, seq |-> seq, parent |-> parent]

Written(line, form) == [line |-> line, form |-> form]

\* What a write that is interrupted or fails can leave behind.
Interrupted(file, line) ==
    {file} \cup {Append(file, Written(line, form)) : form \in {"open", "torn"}}

-----------------------------------------------------------------------------
\* Write i is the first, or the last, of its line in the file.
StartsLine(file, i) == i = 1 \/ file[i - 1].form = "whole"
EndsLine(file, i) == i = Len(file) \/ file[i].form = "whole"

\* A line is JSON if it is all of one write and nothing else.
Parses(file, i) == StartsLine(file, i) /\ EndsLine(file, i) /\ file[i].form # "torn"

\* The elements of s at the places I, in their order.
ElementsAt(s, I) ==
    LET place(k) == CHOOSE i \in I : Cardinality({j \in I : j <= i}) = k
    IN  [k \in 1..Cardinality(I) |-> s[place(k)]]

EventPlaces(file) == {i \in DOMAIN file : file[i].line.kind = "event" /\ Parses(file, i)}

LoadedEvents(file) ==
    LET writes == ElementsAt(file, EventPlaces(file))
    IN  [k \in DOMAIN writes |-> writes[k].line]
=============================================================================
