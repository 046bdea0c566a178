------------------------------ MODULE PacketTable ------------------------------
(***************************************************************************)
(* PacketTableModel: the last MAX_EVENTS events, each under the name its   *)
(* first column shows: its own number, or its parent's and its place among *)
(* the parent's children.                                                  *)
(***************************************************************************)
EXTENDS Naturals, Sequences, Bags, SequencesExt

CONSTANT MAX_EVENTS

ASSUME MaxEventsAssumption == MAX_EVENTS \in Nat \ {0}

NoParent == 0

Cleared == [rows |-> <<>>, parent_child_counts |-> EmptyBag]

\* parent_child_counts once e has been counted, and the name e gets.
Counted(counts, e) == IF e.parent = NoParent THEN counts ELSE counts (+) SetToBag({e.parent})

DisplaySeq(counts, e) ==
    IF e.parent = NoParent THEN <<e.seq>>
    ELSE <<e.parent, Counted(counts, e)[e.parent]>>

Row(counts, e) == [event |-> e, name |-> DisplaySeq(counts, e)]

\* Mutant: the children of a parent that has left the table are forgotten.
AppendEvent_CountsRows(t, e) ==
    LET rows == IF Len(t.rows) >= MAX_EVENTS THEN Tail(t.rows) ELSE t.rows
        counts == IF Len(t.rows) >= MAX_EVENTS /\ t.rows[1].event.parent # NoParent
                  THEN t.parent_child_counts (-) SetToBag({t.rows[1].event.parent})
                  ELSE t.parent_child_counts
    IN  [rows |-> Append(rows, Row(counts, e)), parent_child_counts |-> Counted(counts, e)]

AppendEvent(t, e) ==
    LET rows == IF Len(t.rows) >= MAX_EVENTS THEN Tail(t.rows) ELSE t.rows
    IN  [rows |-> Append(rows, Row(t.parent_child_counts, e)),
         parent_child_counts |-> Counted(t.parent_child_counts, e)]

AppendEvents(t, events) == FoldLeft(AppendEvent, t, events)

LastEvents(events) ==
    IF Len(events) > MAX_EVENTS
    THEN SubSeq(events, Len(events) - MAX_EVENTS + 1, Len(events))
    ELSE events

\* Mutant: the first of too many events are kept.
SetEvents_First(events) ==
    AppendEvents(Cleared, IF Len(events) > MAX_EVENTS THEN SubSeq(events, 1, MAX_EVENTS) ELSE events)

SetEvents(events) == AppendEvents(Cleared, LastEvents(events))
=============================================================================
