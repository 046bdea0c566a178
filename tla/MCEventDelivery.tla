---------------------------- MODULE MCEventDelivery ----------------------------
(* The instance of EventDelivery for TLC. *)
EXTENDS EventDeliveryProperties

Bound(l, c, e, a, o, d) ==
    [lives |-> l, captures |-> c, events |-> e, attaches |-> a, opens |-> o,
     disk_fills |-> d]

\* What can happen to the file, in crashes and failed writes; to a table of
\* more events than it holds; to two connections, the engine restarted between
\* them; and to a table and a file together.
DeliveryWorkloads ==
    {Bound(2, 2, 2, 0, FALSE, TRUE), Bound(2, 3, 1, 0, FALSE, TRUE),
     Bound(1, 1, 3, 1, TRUE, FALSE), Bound(2, 2, 1, 2, TRUE, FALSE),
     Bound(1, 2, 1, 1, TRUE, TRUE)}
=============================================================================
