------------------------ MODULE EventDeliveryProperties ------------------------
(***************************************************************************)
(* What must be true of the log file and of the viewer's table.            *)
(***************************************************************************)
EXTENDS EventDelivery, FiniteSets, SequencesExt

Loaded(r) ==
    LET events == LoadedEvents(file)
    IN  ElementsAt(events, {k \in DOMAIN events : events[k].run = r})

\* What can be read back of a capture is how it began: nothing is missing in
\* between, and nothing that record() has written is lost to a torn line of an
\* earlier process, of a failed write or of a crash.
LogHoldsPrefixes ==
    \A r \in Runs : IsPrefix(Loaded(r), attempted[r]) /\ Len(Loaded(r)) >= safe[r]

Events(rows) == [i \in DOMAIN rows |-> rows[i].event]

\* What the window has, keeps back or has yet to be told of.
Held == Events(ui.table.rows) \o ui.pending_events \o Queued

Live == ui.connected /\ ~ui.offline

\* An event that has reached the viewer is in the log, unless writing it failed
\* first: the file is never behind the window, across crashes too.
SeenIsLogged ==
    ~ui.offline =>
        \A e \in Range(Held \o wire) : e.run \notin failed => e \in Range(LoadedEvents(file))

\* An attached viewer's table goes on, without gap, repetition or change of
\* order, to what it keeps back while paused and to what is under way; it loses
\* from its front only, and to the end of a connection only from its back.
TableIsASegment ==
    Live =>
        /\ \E i \in 0..Len(sent) : \E j \in i..Len(sent) :
              /\ Held \o wire = SubSeq(sent, i + 1, j)
              /\ linked => j = Len(sent)
        /\ ui.event_count = Len(shown) + Len(ui.pending_events)

\* Until the user attaches again, the table shows nothing but the log that was
\* opened, to its last line, and the events of the connection it ended that were
\* already posted; it shows them all unless the user has cleared it, or the log
\* was opened before that connection's `connected` had been handled: this one,
\* which run() emits even after stop(), clears the table, so that the log is gone
\* and only what was posted behind it is left.
OfflineShowsTheLog ==
    log.asked =>
        /\ IsSuffix(Held, opened)
        /\ ui.offline /\ ~log.cleared => shown \o ui.pending_events \o Queued = opened
        /\ ~ui.offline => log.late

Children(p, n) == {i \in 1..n : shown[i].parent = p}

\* A derived event is named by its place among all the children its parent has
\* had in the table, those that have left it included, so that the rows of one
\* process can be told apart by their names; a row leaves only when there are
\* MAX_EVENTS newer ones.
RowsAreTellable ==
    LET rows == ui.table.rows
        gone == Len(shown) - Len(rows)
    IN  /\ gone = 0 \/ Len(rows) = MAX_EVENTS
        /\ \A i \in DOMAIN rows : LET e == rows[i].event IN
              /\ e = shown[gone + i]
              /\ e.parent # NoParent =>
                    rows[i].name = <<e.parent, Cardinality(Children(e.parent, gone + i))>>
        /\ Live => \A i, j \in DOMAIN rows : i # j => rows[i].name # rows[j].name
=============================================================================
