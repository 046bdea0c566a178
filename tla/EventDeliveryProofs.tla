--------------------------- MODULE EventDeliveryProofs ---------------------------
(***************************************************************************)
(* What the log file holds and what the viewer's table shows, for any      *)
(* number of processes, captures, events and connections.                  *)
(***************************************************************************)
EXTENDS EventDeliveryProperties, Integers, FiniteSetTheorems, SequenceTheorems,
        TLAPS

EventLine == [kind : {"event"}, run : Nat \ {0}, seq : Nat \ {0}, parent : Nat]
MetadataLine == [kind : {"metadata"}, run : Nat \ {0}]
Line == EventLine \cup MetadataLine
FileWrite == [line : Line, form : {"whole", "open", "torn"}]
Signal == [kind : {"connected", "disconnected"}] \cup [kind : {"event"}, event : EventLine]
Counts == UNION {[S -> Nat] : S \in SUBSET Nat}
Table == [rows : Seq([event : EventLine, name : Seq(Nat)]), parent_child_counts : Counts]
Views == [asked : BOOLEAN, late : BOOLEAN, cleared : BOOLEAN]
Ui == [connected : BOOLEAN, is_paused : BOOLEAN, pending_events : Seq(EventLine),
       table : Table, event_count : Nat, offline : BOOLEAN]

EngineTyped ==
    /\ bound \in Workload
    /\ running \in BOOLEAN /\ counter \in Nat \ {0}
    /\ socket \in {"absent", "stale", "bound"}

RecorderTyped ==
    /\ captures \in 0..bound.captures
    /\ run \in {NoRun, captures}
    /\ stream \in [open : BOOLEAN, failed : BOOLEAN, held : Seq(Line)]
    /\ call \in [at : {"none"}] \cup [at : {"record", "broadcast"}, line : Line]
    /\ file \in Seq(FileWrite)
    /\ attempted \in [Runs -> Seq(EventLine)]
    /\ safe \in [Runs -> Nat]
    /\ failed \subseteq Runs

ViewerTyped ==
    /\ worker \in {"none", "starting", "linked", "live", "stopping", "closing"}
    /\ linked \in BOOLEAN
    /\ wire \in Seq(EventLine) /\ sent \in Seq(EventLine)
    /\ queue \in Seq(Signal)
    /\ ui \in Ui /\ log \in Views
    /\ opened \in Seq(EventLine) /\ shown \in Seq(EventLine)

DeliveryTyped == EngineTyped /\ RecorderTyped /\ ViewerTyped

-----------------------------------------------------------------------------
(* The line the sink is busy with, and the stream *)
CallIsOfTheRun ==
    /\ socket = "bound" => running
    /\ run # NoRun => running
    /\ call.at # "none" =>
          /\ run # NoRun
          /\ call.line.kind = "event" =>
                /\ Len(attempted[run]) > 0
                /\ call.line = attempted[run][Len(attempted[run])]
                /\ call.line.run = run
    /\ call.at = "record" /\ call.line.kind = "metadata" =>
          attempted[run] = <<>>
    /\ call.at = "broadcast" => call.line.kind = "event"

\* What the recorder of the capture in progress has written and has yet to write.
EventCalled == call.at = "record" /\ call.line.kind = "event"
MetadataCalled == call.at = "record" /\ call.line.kind = "metadata"

StreamInv ==
    run # NoRun =>
        /\ ~stream.failed =>
              /\ stream.held = <<>>
              /\ Len(attempted[run]) = safe[run] + (IF EventCalled THEN 1 ELSE 0)
        /\ stream.failed =>
              /\ run \in failed
              /\ \A i \in DOMAIN stream.held :
                    stream.held[i].kind = "event" =>
                        /\ safe[run] < Len(attempted[run])
                        /\ stream.held[i] = attempted[run][safe[run] + 1]

EventOf(line, r) == line.kind = "event" /\ line.run = r

\* In the file f the s safe events of those in a are the writes b + 1 to b + s, after a
\* whole one; another of the capture can only be the next, and only the last of those writes can be whole.
LogOf(f, r, a, s, b) ==
    /\ b + s <= Len(f) /\ s <= Len(a)
    /\ s > 0 => b > 0 /\ f[b].form = "whole"
    /\ \A k \in 1..s : f[b + k] = Written(a[k], "whole")
    /\ \A i \in DOMAIN f : EventOf(f[i].line, r) /\ i \notin (b + 1)..(b + s) =>
          i > b + s /\ s < Len(a) /\ f[i].line = a[s + 1]
    /\ \A i, j \in DOMAIN f :
          EventOf(f[i].line, r) /\ i > b + s /\ EventOf(f[j].line, r) /\ i < j => f[i].form # "whole"

InProgress(r, b) ==
    /\ stream.failed => \A i \in DOMAIN file : EventOf(file[i].line, r) /\ i > b + safe[r] => file[i].form # "whole"
    /\ ~stream.failed /\ MetadataCalled => safe[r] = 0 /\ \A i \in DOMAIN file : ~EventOf(file[i].line, r)
    /\ ~stream.failed /\ ~MetadataCalled =>
          /\ b + safe[r] = Len(file) /\ Len(file) > 0 /\ file[Len(file)].form = "whole"

OwnEvents == \A r \in Runs : \A k \in 1..Len(attempted[r]) : attempted[r][k].run = r

NotBegun ==
    \A r \in Runs : r > captures =>
        /\ attempted[r] = <<>> /\ safe[r] = 0
        /\ \A i \in DOMAIN file : ~EventOf(file[i].line, r)

IsLogged(r) == \E b \in 0..Len(file) : LogOf(file, r, attempted[r], safe[r], b) /\ (r = run => InProgress(r, b))

LogInv == \A r \in Runs : IsLogged(r)

Logged(e) ==
    e.run \notin failed => e.run \in Runs /\ \E k \in 1..safe[e.run] : e = attempted[e.run][k]

LoggedInv ==
    /\ call.at = "broadcast" => Logged(call.line)
    /\ \A e \in Range(wire) : Logged(e)
    /\ \A e \in Range(EventsIn(queue)) : Logged(e)
    /\ ~ui.offline => \A e \in Range(shown) \cup Range(ui.pending_events) : Logged(e)

-----------------------------------------------------------------------------
None(kind) == \A i \in DOMAIN queue : queue[i].kind # kind

ControlInv ==
    /\ linked => running /\ worker \in {"linked", "live"}
    /\ worker = "starting" => queue = <<>> /\ ~ui.connected
    /\ worker \in {"linked", "stopping"} => None("connected") /\ None("disconnected") /\ ~ui.connected
    /\ worker \in {"live", "closing"} => None("disconnected")
    /\ worker = "none" =>
          IF queue = <<>> THEN ~ui.connected ELSE queue[Len(queue)].kind = "disconnected"
    /\ ~ui.is_paused => ui.pending_events = <<>>

SentInv ==
    /\ \A i, j \in DOMAIN sent : i < j => sent[i].seq < sent[j].seq
    /\ linked => \A i \in DOMAIN sent : sent[i].seq < counter
    /\ call.at # "none" /\ call.line.kind = "event" =>
          /\ call.line.seq < counter
          /\ linked => \A i \in DOMAIN sent : sent[i].seq < call.line.seq

\* s ends with q; q is a segment of s.
Ends(q, s) == \E a \in Seq(EventLine) : s = a \o q
Segment(q, s) == \E a, b \in Seq(EventLine) : s = (a \o q) \o b

\* What the window has been given and keeps back, and what it has been or will be told of; of
\* that, what is of this connection.
Kept == shown \o ui.pending_events
Told == Kept \o EventsIn(queue)
Seen == IF Live THEN Told ELSE EventsIn(queue)

SegmentInv == IF linked THEN Ends(Seen \o wire, sent) ELSE Segment(Seen \o wire, sent)
CountInv == ~ui.offline => ui.event_count = Len(shown) + Len(ui.pending_events)

\* The same as Ends(q, r), by the places.
EndsWith(r, q) == Len(q) <= Len(r) /\ \A i \in 1..Len(q) : q[i] = r[Len(r) - Len(q) + i]

\* The connection that opening a log has ended is ending or has ended, and only if it was late is
\* its `connected` still to come or has cleared the log.
OfflineInv ==
    log.asked =>
        /\ worker \in {"none", "stopping", "closing"}
        /\ Ends(Told, opened)
        /\ ui.offline /\ ~log.cleared => Told = opened
        /\ ~ui.offline => log.late
        /\ ~log.late => worker # "stopping" /\ None("connected")

ChildrenOf(s, p, n) == {i \in 1..n : s[i].parent = p}

Named(e, s, n) == IF e.parent = NoParent THEN <<e.seq>> ELSE <<e.parent, Cardinality(ChildrenOf(s, e.parent, n))>>

Shows(t, s) ==
    /\ Len(t.rows) = IF Len(s) > MAX_EVENTS THEN MAX_EVENTS ELSE Len(s)
    /\ \A i \in 1..Len(t.rows) : LET n == Len(s) - Len(t.rows) + i IN
          t.rows[i] = [event |-> s[n], name |-> Named(s[n], s, n)]
    /\ NoParent \notin DOMAIN t.parent_child_counts
    /\ \A p \in DOMAIN t.parent_child_counts : t.parent_child_counts[p] = Cardinality(ChildrenOf(s, p, Len(s)))
    /\ \A i \in 1..Len(s) : s[i].parent # NoParent => s[i].parent \in DOMAIN t.parent_child_counts

TableInv == Shows(ui.table, shown)

DeliveryInv ==
    /\ DeliveryTyped
    /\ CallIsOfTheRun /\ StreamInv /\ OwnEvents /\ NotBegun /\ LogInv /\ LoggedInv
    /\ ControlInv /\ SentInv /\ SegmentInv /\ CountInv /\ OfflineInv /\ TableInv

-----------------------------------------------------------------------------
(***************************************************************************)
(* The elements of a sequence at some places.                              *)
(***************************************************************************)
\* g lists the n places of I in order.
Enumerates(g, n, I) ==
    /\ g \in [1..n -> I]
    /\ \A k, m \in 1..n : k < m => g[k] < g[m]
    /\ \A i \in I : \E k \in 1..n : g[k] = i

\* A listing with n places is of a set of n.
LEMMA ListedCount ==
    ASSUME NEW n \in Nat, NEW I \in SUBSET Nat, NEW g, Enumerates(g, n, I)
    PROVE  IsFiniteSet(I) /\ Cardinality(I) = n
<1>1. g \in Bijection(1..n, I)
  <2>1. \A k, m \in 1..n : g[k] = g[m] => k = m
    <3>. TAKE k, m \in 1..n
    <3>1. g[k] \in Nat /\ g[m] \in Nat
      BY DEF Enumerates
    <3>. QED BY <3>1 DEF Enumerates
  <2>. QED BY <2>1 DEF Enumerates, Bijection, Injection, Surjection, IsInjective
<1>2. ExistsBijection(1..n, I)
  BY <1>1 DEF ExistsBijection
<1>. QED BY <1>2, FS_CountingElements, FS_NatBijection

\* A finite set of numbers can be listed.
LEMMA Listing ==
    ASSUME NEW N \in Nat, NEW I \in SUBSET (1..N)
    PROVE  /\ Cardinality(I) \in Nat
           /\ \E g : Enumerates(g, Cardinality(I), I)
<1>. DEFINE n == Cardinality(I)
            upto(i) == {j \in I : j <= i}
            rank == [i \in I |-> Cardinality(upto(i))]
<1>1. IsFiniteSet(I) /\ n \in Nat
  <2>1. IsFiniteSet(1..N)
    BY FS_Interval
  <2>2. IsFiniteSet(I)
    BY <2>1, FS_Subset
  <2>. QED BY <2>2, FS_CardinalityType
<1>2. \A i \in I : IsFiniteSet(upto(i)) /\ Cardinality(upto(i)) \in 1..n
  <2>. TAKE i \in I
  <2>1. upto(i) \in SUBSET I /\ i \in upto(i)
    OBVIOUS
  <2>2. IsFiniteSet(upto(i)) /\ Cardinality(upto(i)) \in Nat /\ Cardinality(upto(i)) <= n
    BY <1>1, <2>1, FS_Subset, FS_CardinalityType
  <2>3. Cardinality(upto(i)) # 0
    BY <2>1, <2>2, FS_EmptySet
  <2>. QED BY <1>1, <2>2, <2>3
<1>3. \A i, j \in I : i < j => rank[i] < rank[j]
  <2>. SUFFICES ASSUME NEW i \in I, NEW j \in I, i < j PROVE Cardinality(upto(i)) < Cardinality(upto(j))
    OBVIOUS
  <2>0. i \in Nat /\ j \in Nat
    OBVIOUS
  <2>1. upto(i) \in SUBSET upto(j) /\ j \in upto(j) /\ j \notin upto(i)
    <3>1. \A m \in I : m \in Nat
      OBVIOUS
    <3>2. \A m \in I : m <= i => m <= j
      BY <2>0, <3>1
    <3>3. j <= j /\ ~(j <= i)
      BY <2>0
    <3>. QED BY <3>2, <3>3, Zenon
  <2>2. Cardinality(upto(i)) <= Cardinality(upto(j)) /\ Cardinality(upto(i)) # Cardinality(upto(j))
    BY <1>2, <2>1, FS_Subset
  <2>. QED BY <1>2, <2>2
<1>4. rank \in [I -> 1..n] /\ \A i, j \in I : rank[i] = rank[j] => i = j
  BY <1>1, <1>2, <1>3
<1>. HIDE DEF rank
<1>5. rank \in Injection(I, 1..n)
  BY <1>4 DEF Injection, IsInjective
<1>6. IsFiniteSet(1..n) /\ Cardinality(1..n) = n
  BY <1>1, FS_Interval
<1>7. rank \in Surjection(I, 1..n)
  BY <1>1, <1>5, <1>6, FS_Injection
<1>8. \A k \in 1..n : \E i \in I : rank[i] = k
  BY <1>7 DEF Surjection
<1>. DEFINE g == [k \in 1..n |-> CHOOSE i \in I : rank[i] = k]
<1>9. \A k \in 1..n : g[k] \in I /\ rank[g[k]] = k
  BY <1>8
<1>. HIDE DEF n
<1>10. Enumerates(g, n, I)
  <2>1. g \in [1..n -> I]
    BY <1>9
  <2>. HIDE DEF g
  <2>2. ASSUME NEW k \in 1..n, NEW m \in 1..n, k < m PROVE g[k] < g[m]
    <3>1. g[k] \in I /\ g[m] \in I /\ rank[g[k]] = k /\ rank[g[m]] = m
      BY <1>9
    <3>2. g[m] < g[k] => rank[g[m]] < rank[g[k]]
      BY <1>3, <3>1
    <3>3. g[m] # g[k]
      BY <2>2, <3>1
    <3>4. \A i \in I : i \in Nat
      OBVIOUS
    <3>5. g[k] \in Nat /\ g[m] \in Nat
      BY <3>1, <3>4, Zenon
    <3>6. k \in Nat /\ m \in Nat
      OBVIOUS
    <3>. QED BY <2>2, <3>1, <3>2, <3>3, <3>5, <3>6
  <2>3. \A i \in I : \E k \in 1..n : g[k] = i
    <3>. TAKE i \in I
    <3>1. rank[i] \in 1..n /\ g[rank[i]] \in I /\ rank[g[rank[i]]] = rank[i]
      BY <1>4, <1>9
    <3>. QED BY <1>4, <3>1
  <2>. QED BY <2>1, <2>2, <2>3 DEF Enumerates
<1>. QED BY <1>1, <1>10 DEF n

\* Its elements are those at the places a listing gives.
Picks(q, s, g, n) == DOMAIN q = 1..n /\ \A k \in 1..n : q[k] = s[g[k]]

LEMMA ElementsListed ==
    ASSUME NEW n \in Nat, NEW I \in SUBSET Nat, NEW g, Enumerates(g, n, I), NEW s
    PROVE  Picks(ElementsAt(s, I), s, g, n)
<1>. DEFINE upto(i) == {j \in I : j <= i}
            place(k) == CHOOSE i \in I : Cardinality(upto(i)) = k
<1>1. Cardinality(I) = n
  BY ListedCount
<1>2. \A m \in 1..n : Cardinality(upto(g[m])) = m
  <2>. TAKE m \in 1..n
  <2>1. g[m] \in Nat /\ m \in Nat
    <3>1. g \in [1..n -> I]
      BY DEF Enumerates
    <3>2. g[m] \in I
      BY <3>1
    <3>3. \A i \in I : i \in Nat
      OBVIOUS
    <3>4. g[m] \in Nat
      BY <3>2, <3>3, Zenon
    <3>5. m \in Nat
      OBVIOUS
    <3>. QED BY <3>4, <3>5
  <2>. DEFINE h == [k \in 1..m |-> g[k]]
  <2>2. \A k \in 1..m : k \in 1..n /\ h[k] = g[k] /\ g[k] \in I
    BY DEF Enumerates
  <2>3. \A k \in 1..m : h[k] \in upto(g[m])
    <3>. TAKE k \in 1..m
    <3>1. k \in 1..n /\ g[k] \in Nat /\ (k < m => g[k] < g[m])
      BY <2>2 DEF Enumerates
    <3>2. k = m \/ k < m
      OBVIOUS
    <3>. QED BY <2>1, <2>2, <3>1, <3>2
  <2>4. \A i \in upto(g[m]) : \E k \in 1..m : h[k] = i
    <3>. TAKE i \in upto(g[m])
    <3>1. PICK k \in 1..n : g[k] = i
      BY DEF Enumerates
    <3>2. ~(m < k)
      BY <2>1, <3>1 DEF Enumerates
    <3>. QED BY <2>1, <2>2, <3>1, <3>2
  <2>5. \A k, l \in 1..m : k < l => h[k] < h[l]
    BY <2>2 DEF Enumerates
  <2>6. h \in [1..m -> upto(g[m])]
    BY <2>3
  <2>. HIDE DEF h
  <2>7. Enumerates(h, m, upto(g[m]))
    BY <2>4, <2>5, <2>6 DEF Enumerates
  <2>8. upto(g[m]) \in SUBSET Nat
    OBVIOUS
  <2>. QED BY <2>1, <2>7, <2>8, ListedCount
<1>3. \A m \in 1..n : place(m) = g[m]
  <2>. TAKE m \in 1..n
  <2>1. g[m] \in I /\ Cardinality(upto(g[m])) = m
    BY <1>2 DEF Enumerates
  <2>2. \A i \in I : Cardinality(upto(i)) = m => i = g[m]
    <3>. TAKE i \in I
    <3>1. PICK k \in 1..n : g[k] = i
      BY DEF Enumerates
    <3>. QED BY <1>2, <3>1
  <2>. HIDE DEF upto
  <2>. QED BY <2>1, <2>2
<1>4. ElementsAt(s, I) = [k \in 1..n |-> s[place(k)]]
  BY <1>1 DEF ElementsAt
<1>. HIDE DEF place
<1>. QED BY <1>3, <1>4 DEF Picks

-----------------------------------------------------------------------------
(***************************************************************************)
(* The events among the signals of a queue.                                *)
(***************************************************************************)
LEMMA Elements ==
    ASSUME NEW S, NEW q \in Seq(S)
    PROVE  Len(q) \in Nat /\ DOMAIN q = 1..Len(q) /\ \A i \in 1..Len(q) : q[i] \in S
BY LenProperties, ElementOfSeq

LEMMA FunctionIsSeq ==
    ASSUME NEW S, NEW n \in Nat, NEW f \in [1..n -> S]
    PROVE  f \in Seq(S) /\ Len(f) = n
<1>1. f \in Seq(S)
  BY SeqDef
<1>2. DOMAIN f = 1..Len(f) /\ Len(f) \in Nat
  BY <1>1, LenProperties
<1>. QED BY <1>1, <1>2

LEMMA SignalKinds ==
    ASSUME NEW x \in Signal
    PROVE  /\ x.kind \in {"connected", "disconnected", "event"}
           /\ x.kind = "event" => x.event \in EventLine
BY DEF Signal

EventSignals(q) == {i \in DOMAIN q : q[i].kind = "event"}

LEMMA EventsListed ==
    ASSUME NEW q \in Seq(Signal), NEW n \in Nat, NEW g, Enumerates(g, n, EventSignals(q))
    PROVE  /\ EventsIn(q) \in Seq(EventLine) /\ Len(EventsIn(q)) = n
           /\ EventsIn(q) = [k \in 1..n |-> q[g[k]].event]
<1>. DEFINE I == EventSignals(q)
            taken == ElementsAt(q, I)
<1>1. I \in SUBSET (1..Len(q)) /\ \A i \in I : i \in Nat /\ q[i] \in Signal /\ q[i].kind = "event"
  BY Elements DEF EventSignals
<1>2. DOMAIN taken = 1..n /\ \A k \in 1..n : taken[k] = q[g[k]]
  <2>1. I \in SUBSET Nat /\ Enumerates(g, n, I)
    BY <1>1
  <2>. HIDE DEF I
  <2>4. Picks(ElementsAt(q, I), q, g, n)
    BY <2>1, ElementsListed
  <2>2. DOMAIN ElementsAt(q, I) = 1..n
    BY <2>4, Zenon DEF Picks
  <2>3. \A k \in 1..n : ElementsAt(q, I)[k] = q[g[k]]
    BY <2>4, Zenon DEF Picks
  <2>. QED BY <2>2, <2>3, Zenon
<1>3. EventsIn(q) = [k \in DOMAIN taken |-> taken[k].event]
  BY Zenon DEF EventsIn, EventSignals
<1>. HIDE DEF taken
<1>4. EventsIn(q) = [k \in 1..n |-> q[g[k]].event]
  BY <1>2, <1>3
<1>5. \A k \in 1..n : q[g[k]].event \in EventLine
  <2>. TAKE k \in 1..n
  <2>1. g[k] \in I
    BY DEF Enumerates
  <2>. QED BY <1>1, <2>1, SignalKinds
<1>6. EventsIn(q) \in [1..n -> EventLine]
  BY <1>4, <1>5
<1>. QED BY <1>4, <1>6, FunctionIsSeq

\* The events of a queue have a listing of their places.
LEMMA QueueListing ==
    ASSUME NEW q \in Seq(Signal)
    PROVE  /\ EventsIn(q) \in Seq(EventLine)
           /\ \E g : /\ Enumerates(g, Len(EventsIn(q)), EventSignals(q))
                     /\ EventsIn(q) = [k \in 1..Len(EventsIn(q)) |-> q[g[k]].event]
<1>. DEFINE I == EventSignals(q)
<1>1. I \in SUBSET (1..Len(q)) /\ Len(q) \in Nat
  BY Elements DEF EventSignals
<1>. HIDE DEF I
<1>2. PICK g : Cardinality(I) \in Nat /\ Enumerates(g, Cardinality(I), I)
  BY <1>1, Listing
<1>3. /\ EventsIn(q) \in Seq(EventLine) /\ Len(EventsIn(q)) = Cardinality(I)
      /\ EventsIn(q) = [k \in 1..Cardinality(I) |-> q[g[k]].event]
  BY <1>2, EventsListed DEF I
<1>. QED BY <1>2, <1>3, Zenon DEF I

LEMMA QueueEmpty == EventsIn(<<>>) = <<>>
<1>1. <<>> \in Seq(Signal) /\ EventSignals(<<>>) = {}
  BY DEF EventSignals
<1>. DEFINE g == [k \in 1..0 |-> 0]
<1>2. Enumerates(g, 0, EventSignals(<<>>))
  BY <1>1 DEF Enumerates
<1>. HIDE DEF g
<1>3. EventsIn(<<>>) \in Seq(EventLine) /\ Len(EventsIn(<<>>)) = 0
  BY <1>1, <1>2, EventsListed
<1>. QED BY <1>3, EmptySeq

\* Posting a signal adds its event at the end, if it has one.
LEMMA QueuePosted ==
    ASSUME NEW q \in Seq(Signal), NEW x \in Signal
    PROVE  EventsIn(Append(q, x)) =
              IF x.kind = "event" THEN Append(EventsIn(q), x.event) ELSE EventsIn(q)
<1>. DEFINE p == Append(q, x)
            n == Len(EventsIn(q))
<1>1. PICK g : /\ Enumerates(g, n, EventSignals(q))
               /\ EventsIn(q) = [k \in 1..n |-> q[g[k]].event]
  BY QueueListing
<1>2. EventsIn(q) \in Seq(EventLine) /\ n \in Nat /\ Len(q) \in Nat
  BY QueueListing, LenProperties
<1>3. /\ p \in Seq(Signal) /\ Len(p) = Len(q) + 1 /\ p[Len(q) + 1] = x
      /\ \A i \in 1..Len(q) : p[i] = q[i]
  BY AppendProperties
<1>4. DOMAIN p = 1..(Len(q) + 1) /\ DOMAIN q = 1..Len(q)
  BY <1>3, Elements
<1>5. \A i \in EventSignals(q) : i \in 1..Len(q)
  BY <1>4 DEF EventSignals
<1>6. \A k \in 1..n : g[k] \in 1..Len(q) /\ g[k] \in EventSignals(q)
  <2>1. g \in [1..n -> EventSignals(q)]
    BY <1>1 DEF Enumerates
  <2>. QED BY <1>5, <2>1
<1>. HIDE DEF p, n
<1>7. CASE x.kind = "event"
  <2>. DEFINE h == [k \in 1..(n + 1) |-> IF k = n + 1 THEN Len(q) + 1 ELSE g[k]]
  <2>1. \A i : i \in EventSignals(p) <=> i \in EventSignals(q) \/ i = Len(q) + 1
    <3>1. \A i \in 1..(Len(q) + 1) : i \in 1..Len(q) \/ i = Len(q) + 1
      BY <1>2
    <3>2. \A i \in 1..Len(q) : i \in 1..(Len(q) + 1)
      BY <1>2
    <3>3. Len(q) + 1 \in 1..(Len(q) + 1)
      BY <1>2
    <3>. QED BY <1>3, <1>4, <1>7, <3>1, <3>2, <3>3 DEF EventSignals
  <2>2. h \in [1..(n + 1) -> EventSignals(p)]
    BY <1>2, <1>6, <2>1
  <2>3. /\ \A k \in 1..n : h[k] = g[k] /\ k \in 1..(n + 1)
        /\ h[n + 1] = Len(q) + 1 /\ n + 1 \in 1..(n + 1)
        /\ \A k \in 1..(n + 1) : k \in 1..n \/ k = n + 1
    BY <1>2
  <2>. HIDE DEF h
  <2>4. \A k, m \in 1..(n + 1) : k < m => h[k] < h[m]
    <3>. SUFFICES ASSUME NEW k \in 1..(n + 1), NEW m \in 1..(n + 1), k < m PROVE h[k] < h[m]
      OBVIOUS
    <3>1. k \in 1..n
      BY <1>2
    <3>2. CASE m = n + 1
      BY <1>2, <1>6, <2>3, <3>1, <3>2
    <3>3. CASE m \in 1..n
      BY <1>1, <2>3, <3>1, <3>3 DEF Enumerates
    <3>. QED BY <2>3, <3>2, <3>3
  <2>5. \A i \in EventSignals(p) : \E k \in 1..(n + 1) : h[k] = i
    BY <1>1, <2>1, <2>3 DEF Enumerates
  <2>6. Enumerates(h, n + 1, EventSignals(p))
    BY <2>2, <2>4, <2>5 DEF Enumerates
  <2>7. /\ EventsIn(p) \in Seq(EventLine) /\ Len(EventsIn(p)) = n + 1
        /\ EventsIn(p) = [k \in 1..(n + 1) |-> p[h[k]].event]
    BY <1>2, <1>3, <2>6, EventsListed
  <2>8. /\ \A k \in 1..n : EventsIn(p)[k] = EventsIn(q)[k]
        /\ EventsIn(p)[n + 1] = x.event
    BY <1>1, <1>3, <1>6, <2>3, <2>7
  <2>9. /\ Append(EventsIn(q), x.event) \in Seq(EventLine)
        /\ Len(Append(EventsIn(q), x.event)) = n + 1
        /\ \A k \in 1..n : Append(EventsIn(q), x.event)[k] = EventsIn(q)[k]
        /\ Append(EventsIn(q), x.event)[n + 1] = x.event
    BY <1>2, <1>7, SignalKinds, AppendProperties DEF n
  <2>10. \A k \in 1..(n + 1) : EventsIn(p)[k] = Append(EventsIn(q), x.event)[k]
    BY <2>3, <2>8, <2>9
  <2>11. EventsIn(p) = Append(EventsIn(q), x.event)
    BY <2>7, <2>9, <2>10, SeqEqual
  <2>. QED BY <1>7, <2>11 DEF p
<1>8. CASE x.kind # "event"
  <2>1. EventSignals(p) = EventSignals(q)
    <3>1. \A i \in 1..(Len(q) + 1) : i \in 1..Len(q) \/ i = Len(q) + 1
      BY <1>2
    <3>2. \A i \in 1..Len(q) : i \in 1..(Len(q) + 1)
      BY <1>2
    <3>. QED BY <1>3, <1>4, <1>8, <3>1, <3>2 DEF EventSignals
  <2>2. EventsIn(p) = [k \in 1..n |-> p[g[k]].event]
    BY <1>1, <1>2, <1>3, <2>1, EventsListed
  <2>3. EventsIn(p) = EventsIn(q)
    BY <1>1, <1>3, <1>6, <2>2
  <2>. QED BY <1>8, <2>3 DEF p
<1>. QED BY <1>7, <1>8

\* Taking the first signal takes its event, if it has one.
LEMMA QueueTaken ==
    ASSUME NEW q \in Seq(Signal), q # <<>>
    PROVE  /\ Head(q) \in Signal /\ Tail(q) \in Seq(Signal)
           /\ Head(q).kind = "event" =>
                 EventsIn(q) = <<Head(q).event>> \o EventsIn(Tail(q))
           /\ Head(q).kind # "event" => EventsIn(q) = EventsIn(Tail(q))
<1>. DEFINE p == Tail(q)
            x == Head(q)
            n == Len(EventsIn(p))
<1>1. /\ x \in Signal /\ p \in Seq(Signal) /\ Len(p) = Len(q) - 1 /\ Len(q) \in Nat /\ Len(q) > 0
      /\ x = q[1] /\ \A i \in 1..Len(p) : p[i] = q[i + 1]
  <2>1. x \in Signal /\ p \in Seq(Signal) /\ Len(p) = Len(q) - 1 /\ \A i \in 1..Len(p) : p[i] = q[i + 1]
    BY HeadTailProperties
  <2>2. Len(q) \in Nat /\ Len(q) > 0
    BY EmptySeq, LenProperties
  <2>. QED BY <2>1, <2>2
<1>. HIDE DEF p, x
<1>2. PICK g : /\ Enumerates(g, n, EventSignals(p))
               /\ EventsIn(p) = [k \in 1..n |-> p[g[k]].event]
  BY <1>1, QueueListing
<1>3. EventsIn(p) \in Seq(EventLine) /\ n \in Nat
  BY <1>1, QueueListing, LenProperties
<1>4. DOMAIN p = 1..Len(p) /\ DOMAIN q = 1..Len(q) /\ Len(p) \in Nat
  BY <1>1, Elements
<1>5. \A k \in 1..n : g[k] \in 1..Len(p) /\ g[k] \in EventSignals(p)
  <2>1. g \in [1..n -> EventSignals(p)]
    BY <1>2 DEF Enumerates
  <2>. QED BY <1>4, <2>1 DEF EventSignals
<1>. HIDE DEF n
<1>6. /\ \A i \in EventSignals(p) : i + 1 \in EventSignals(q)
      /\ \A i \in EventSignals(q) : i = 1 \/ (i - 1 \in EventSignals(p) /\ i - 1 \in Nat /\ i \in Nat)
  <2>1. \A i \in 1..Len(p) : i + 1 \in 1..Len(q)
    BY <1>1, <1>4
  <2>2. \A i \in 1..Len(q) : i = 1 \/ (i - 1 \in 1..Len(p) /\ (i - 1) + 1 = i /\ i - 1 \in Nat /\ i \in Nat)
    BY <1>1, <1>4
  <2>3. \A i \in EventSignals(p) : i + 1 \in EventSignals(q)
    BY <1>1, <1>4, <2>1 DEF EventSignals
  <2>4. \A i \in EventSignals(q) : i = 1 \/ (i - 1 \in EventSignals(p) /\ i - 1 \in Nat /\ i \in Nat)
    <3>. SUFFICES ASSUME NEW i \in EventSignals(q), i # 1 PROVE i - 1 \in EventSignals(p) /\ i - 1 \in Nat /\ i \in Nat
      OBVIOUS
    <3>1. i \in 1..Len(q) /\ q[i].kind = "event"
      BY <1>4 DEF EventSignals
    <3>2. i - 1 \in 1..Len(p) /\ (i - 1) + 1 = i /\ i - 1 \in Nat /\ i \in Nat
      BY <2>2, <3>1
    <3>3. p[i - 1] = q[i]
      BY <1>1, <3>2
    <3>. QED BY <1>4, <3>1, <3>2, <3>3 DEF EventSignals
  <2>. QED BY <2>3, <2>4
<1>7. ASSUME x.kind = "event" PROVE EventsIn(q) = <<x.event>> \o EventsIn(p)
  <2>. DEFINE h == [k \in 1..(n + 1) |-> IF k = 1 THEN 1 ELSE g[k - 1] + 1]
  <2>1. 1 \in EventSignals(q)
    BY <1>1, <1>4, <1>7 DEF EventSignals
  <2>2. \A k \in 1..(n + 1) : k = 1 \/ (k - 1 \in 1..n /\ k \in Nat)
    BY <1>3
  <2>3. h \in [1..(n + 1) -> EventSignals(q)]
    BY <1>5, <1>6, <2>1, <2>2
  <2>4. /\ \A k \in 1..n : h[k + 1] = g[k] + 1 /\ k + 1 \in 1..(n + 1)
        /\ h[1] = 1 /\ 1 \in 1..(n + 1)
    BY <1>3
  <2>5. \A k \in 1..(n + 1) : k # 1 => h[k] = g[k - 1] + 1
    BY <1>3
  <2>. HIDE DEF h
  <2>6. \A k, m \in 1..(n + 1) : k < m => h[k] < h[m]
    <3>. SUFFICES ASSUME NEW k \in 1..(n + 1), NEW m \in 1..(n + 1), k < m PROVE h[k] < h[m]
      OBVIOUS
    <3>1. m - 1 \in 1..n /\ h[m] = g[m - 1] + 1 /\ g[m - 1] \in Nat /\ g[m - 1] > 0
      BY <1>3, <1>4, <1>5, <2>2, <2>5
    <3>2. CASE k = 1
      BY <2>4, <3>1, <3>2
    <3>3. CASE k # 1
      <4>1. k - 1 \in 1..n /\ h[k] = g[k - 1] + 1 /\ g[k - 1] \in Nat /\ k - 1 < m - 1
        BY <1>3, <1>4, <1>5, <2>2, <2>5, <3>3
      <4>2. g[k - 1] < g[m - 1]
        BY <1>2, <3>1, <4>1 DEF Enumerates
      <4>. QED BY <3>1, <4>1, <4>2
    <3>. QED BY <3>2, <3>3
  <2>7. \A i \in EventSignals(q) : \E k \in 1..(n + 1) : h[k] = i
    <3>. TAKE i \in EventSignals(q)
    <3>1. CASE i = 1
      BY <2>4, <3>1
    <3>2. CASE i # 1
      <4>1. i - 1 \in EventSignals(p) /\ i \in Nat
        BY <1>6, <3>2
      <4>2. PICK k \in 1..n : g[k] = i - 1
        BY <1>2, <4>1 DEF Enumerates
      <4>3. h[k + 1] = i /\ k + 1 \in 1..(n + 1)
        BY <2>4, <4>1, <4>2
      <4>. QED BY <4>3
    <3>. QED BY <3>1, <3>2
  <2>8. Enumerates(h, n + 1, EventSignals(q))
    BY <2>3, <2>6, <2>7 DEF Enumerates
  <2>9. /\ EventsIn(q) \in Seq(EventLine) /\ Len(EventsIn(q)) = n + 1
        /\ EventsIn(q) = [k \in 1..(n + 1) |-> q[h[k]].event]
    BY <1>3, <2>8, EventsListed
  <2>10. <<x.event>> \in Seq(EventLine) /\ Len(<<x.event>>) = 1 /\ <<x.event>>[1] = x.event
    BY <1>1, <1>7, SignalKinds
  <2>. DEFINE all == <<x.event>> \o EventsIn(p)
  <2>11. /\ all \in Seq(EventLine) /\ Len(all) = n + 1
         /\ \A k \in 1..(n + 1) : all[k] = IF k <= 1 THEN <<x.event>>[k] ELSE EventsIn(p)[k - 1]
    <3>1. /\ all \in Seq(EventLine) /\ Len(all) = 1 + n
          /\ \A k \in 1..(1 + n) : all[k] = IF k <= 1 THEN <<x.event>>[k] ELSE EventsIn(p)[k - 1]
      BY <1>3, <2>10, ConcatProperties DEF n
    <3>. HIDE DEF all
    <3>2. 1 + n = n + 1
      BY <1>3
    <3>. QED BY <3>1, <3>2
  <2>. HIDE DEF all
  <2>12. ASSUME NEW k \in 1..(n + 1) PROVE EventsIn(q)[k] = all[k]
    <3>1. CASE k = 1
      <4>1. EventsIn(q)[k] = q[1].event
        BY <2>4, <2>9, <3>1
      <4>2. all[k] = x.event
        BY <2>10, <2>11, <3>1
      <4>. QED BY <1>1, <4>1, <4>2
    <3>2. CASE k # 1
      <4>1. k - 1 \in 1..n /\ ~(k <= 1)
        BY <2>2, <3>2
      <4>2. EventsIn(q)[k] = q[g[k - 1] + 1].event
        BY <2>5, <2>9, <3>2
      <4>3. EventsIn(p)[k - 1] = p[g[k - 1]].event
        BY <1>2, <4>1
      <4>4. p[g[k - 1]] = q[g[k - 1] + 1]
        BY <1>1, <1>5, <4>1
      <4>. QED BY <2>11, <4>1, <4>2, <4>3, <4>4
    <3>. QED BY <3>1, <3>2
  <2>. QED BY <2>9, <2>11, <2>12, SeqEqual DEF all
<1>8. ASSUME x.kind # "event" PROVE EventsIn(q) = EventsIn(p)
  <2>. DEFINE h == [k \in 1..n |-> g[k] + 1]
  <2>1. 1 \notin EventSignals(q)
    BY <1>1, <1>4, <1>8 DEF EventSignals
  <2>2. h \in [1..n -> EventSignals(q)]
    BY <1>5, <1>6
  <2>3. \A k \in 1..n : h[k] = g[k] + 1
    OBVIOUS
  <2>. HIDE DEF h
  <2>4. \A k, m \in 1..n : k < m => h[k] < h[m]
    <3>. SUFFICES ASSUME NEW k \in 1..n, NEW m \in 1..n, k < m PROVE h[k] < h[m]
      OBVIOUS
    <3>1. g[k] \in Nat /\ g[m] \in Nat
      BY <1>4, <1>5
    <3>2. g[k] < g[m]
      BY <1>2 DEF Enumerates
    <3>. QED BY <2>3, <3>1, <3>2
  <2>5. \A i \in EventSignals(q) : \E k \in 1..n : h[k] = i
    <3>. TAKE i \in EventSignals(q)
    <3>1. i - 1 \in EventSignals(p) /\ i \in Nat
      BY <1>6, <2>1
    <3>2. PICK k \in 1..n : g[k] = i - 1
      BY <1>2, <3>1 DEF Enumerates
    <3>. QED BY <2>3, <3>1, <3>2
  <2>6. Enumerates(h, n, EventSignals(q))
    BY <2>2, <2>4, <2>5 DEF Enumerates
  <2>7. EventsIn(q) = [k \in 1..n |-> q[h[k]].event]
    BY <1>3, <2>6, EventsListed
  <2>8. \A k \in 1..n : q[h[k]].event = p[g[k]].event
    BY <1>1, <1>5, <2>3
  <2>. QED BY <1>2, <2>7, <2>8
<1>. QED BY <1>1, <1>7, <1>8 DEF p, x

-----------------------------------------------------------------------------
(***************************************************************************)
(* Segments and suffixes of sequences.                                     *)
(***************************************************************************)
LEMMA Joined ==
    ASSUME NEW S, NEW p \in Seq(S), NEW q \in Seq(S)
    PROVE  /\ p \o q \in Seq(S) /\ Len(p \o q) = Len(p) + Len(q)
           /\ Len(p) \in Nat /\ Len(q) \in Nat
           /\ \A i \in 1..Len(p) : (p \o q)[i] = p[i]
           /\ \A i \in 1..Len(q) : (p \o q)[Len(p) + i] = q[i]
<1>1. /\ p \o q \in Seq(S) /\ Len(p \o q) = Len(p) + Len(q)
      /\ \A i \in 1..(Len(p) + Len(q)) : (p \o q)[i] = IF i <= Len(p) THEN p[i] ELSE q[i - Len(p)]
  BY ConcatProperties
<1>2. Len(p) \in Nat /\ Len(q) \in Nat
  BY LenProperties
<1>. DEFINE r == p \o q
<1>. HIDE DEF r
<1>3. /\ \A i \in 1..Len(p) : i \in 1..(Len(p) + Len(q)) /\ i <= Len(p)
      /\ \A i \in 1..Len(q) : Len(p) + i \in 1..(Len(p) + Len(q)) /\ ~(Len(p) + i <= Len(p)) /\ (Len(p) + i) - Len(p) = i
  BY <1>2
<1>4. \A i \in 1..(Len(p) + Len(q)) : r[i] = IF i <= Len(p) THEN p[i] ELSE q[i - Len(p)]
  BY <1>1 DEF r
<1>5. \A i \in 1..Len(q) : r[Len(p) + i] = q[i]
  BY <1>3, <1>4
<1>6. \A i \in 1..Len(p) : r[i] = p[i]
  BY <1>3, <1>4
<1>. QED BY <1>1, <1>2, <1>5, <1>6 DEF r

\* Every place of a sequence put together is in one of its parts.
LEMMA Parts ==
    ASSUME NEW m \in Nat, NEW n \in Nat, NEW i \in 1..(m + n)
    PROVE  i \in 1..m \/ \E k \in 1..n : i = m + k
<1>1. CASE i <= m
  BY <1>1
<1>2. CASE ~(i <= m)
  <2>1. i - m \in 1..n /\ i = m + (i - m)
    BY <1>2
  <2>. QED BY <2>1
<1>. QED BY <1>1, <1>2

LEMMA JoinedRange ==
    ASSUME NEW S, NEW p \in Seq(S), NEW q \in Seq(S)
    PROVE  Range(p \o q) = Range(p) \cup Range(q)
BY RangeConcatenation

LEMMA InRange ==
    ASSUME NEW S, NEW q \in Seq(S), NEW x
    PROVE  x \in Range(q) <=> \E i \in 1..Len(q) : q[i] = x
BY RangeEquality, Zenon

LEMMA Appended ==
    ASSUME NEW S, NEW q \in Seq(S), NEW x \in S
    PROVE  /\ Append(q, x) \in Seq(S) /\ Len(Append(q, x)) = Len(q) + 1 /\ Len(q) \in Nat
           /\ \A i \in 1..Len(q) : Append(q, x)[i] = q[i]
           /\ Append(q, x)[Len(q) + 1] = x
           /\ Range(Append(q, x)) = Range(q) \cup {x}
<1>1. /\ Append(q, x) \in Seq(S) /\ Len(Append(q, x)) = Len(q) + 1
      /\ \A i \in 1..Len(q) : Append(q, x)[i] = q[i]
      /\ Append(q, x)[Len(q) + 1] = x /\ Append(q, x) = q \o <<x>>
  BY AppendProperties, AppendIsConcat
<1>2. <<x>> \in Seq(S) /\ Len(<<x>>) = 1 /\ <<x>>[1] = x
  OBVIOUS
<1>3. Range(<<x>>) = {x}
  <2>1. Range(<<x>>) = {<<x>>[i] : i \in 1..Len(<<x>>)}
    BY <1>2, RangeEquality
  <2>. QED BY <1>2, <2>1
<1>4. Range(Append(q, x)) = Range(q) \cup {x}
  <2>1. Range(q \o <<x>>) = Range(q) \cup Range(<<x>>)
    BY <1>2, JoinedRange
  <2>. QED BY <1>1, <1>3, <2>1, Zenon
<1>. QED BY <1>1, <1>4, LenProperties

LEMMA EmptyRange == Range(<<>>) = {}
BY DEF Range

LEMMA HeadAndTail ==
    ASSUME NEW S, NEW q \in Seq(S), q # <<>>
    PROVE  /\ Head(q) \in S /\ Tail(q) \in Seq(S) /\ Len(q) \in Nat /\ Len(q) > 0
           /\ Len(Tail(q)) = Len(q) - 1 /\ q[1] = Head(q)
           /\ \A i \in 1..Len(Tail(q)) : Tail(q)[i] = q[i + 1]
           /\ q = <<Head(q)>> \o Tail(q)
           /\ Range(q) = {Head(q)} \cup Range(Tail(q))
<1>1. /\ Head(q) \in S /\ Tail(q) \in Seq(S)
      /\ Len(Tail(q)) = Len(q) - 1 /\ \A i \in 1..Len(Tail(q)) : Tail(q)[i] = q[i + 1]
  BY HeadTailProperties
<1>2. Len(q) \in Nat /\ Len(q) > 0 /\ q[1] = Head(q)
  BY EmptySeq, LenProperties
<1>. DEFINE x == Head(q)
            t == Tail(q)
            r == <<x>> \o t
<1>3. <<x>> \in Seq(S) /\ Len(<<x>>) = 1 /\ <<x>>[1] = x
  BY <1>1
<1>4. /\ r \in Seq(S) /\ Len(r) = 1 + Len(t)
      /\ \A i \in 1..1 : r[i] = <<x>>[i]
      /\ \A i \in 1..Len(t) : r[1 + i] = t[i]
  BY <1>1, <1>3, Joined
<1>5. Range(r) = Range(<<x>>) \cup Range(t)
  BY <1>1, <1>3, JoinedRange
<1>6. Range(<<x>>) = {x}
  <2>1. Range(<<x>>) = {<<x>>[i] : i \in 1..Len(<<x>>)}
    BY <1>3, RangeEquality
  <2>. QED BY <1>3, <2>1
<1>. HIDE DEF x, t, r
<1>7. Len(t) \in Nat /\ Len(r) = Len(q)
  BY <1>1, <1>2, <1>4 DEF t
<1>8. ASSUME NEW i \in 1..Len(r) PROVE r[i] = q[i]
  <2>1. CASE i = 1
    BY <1>2, <1>3, <1>4, <2>1 DEF x
  <2>2. CASE i # 1
    <3>1. i - 1 \in 1..Len(t) /\ 1 + (i - 1) = i /\ (i - 1) + 1 = i
      BY <1>2, <1>4, <1>7, <2>2
    <3>2. r[i] = t[i - 1] /\ t[i - 1] = q[i]
      BY <1>1, <1>4, <3>1 DEF t
    <3>. QED BY <3>2
  <2>. QED BY <2>1, <2>2
<1>9. r = q
  BY <1>4, <1>7, <1>8, SeqEqual
<1>. QED BY <1>1, <1>2, <1>5, <1>6, <1>9 DEF x, t, r

\* The front of a sequence.
LEMMA FrontPart ==
    ASSUME NEW S, NEW q \in Seq(S), NEW n \in 0..Len(q)
    PROVE  /\ SubSeq(q, 1, n) \in Seq(S) /\ Len(SubSeq(q, 1, n)) = n
           /\ \A i \in 1..n : SubSeq(q, 1, n)[i] = q[i]
           /\ Range(SubSeq(q, 1, n)) \subseteq Range(q)
<1>0. Len(q) \in Nat
  BY LenProperties
<1>1. Len(q) \in Nat /\ n \in Nat /\ n \in Int /\ n <= Len(q) /\ \A i \in 1..n : i \in 1..Len(q)
  BY <1>0
<1>. DEFINE p == SubSeq(q, 1, n)
<1>2. \A i \in 1..n : q[i] \in S
  BY <1>1, ElementOfSeq
<1>3. /\ p \in Seq(S) /\ Len(p) = IF 1 <= n THEN n - 1 + 1 ELSE 0
      /\ \A i \in 1..(n - 1 + 1) : p[i] = q[1 + i - 1]
  BY <1>1, <1>2, SubSeqProperties
<1>. HIDE DEF p
<1>4. Len(p) = n
  BY <1>1, <1>3
<1>5. ASSUME NEW i \in 1..n PROVE p[i] = q[i]
  <2>1. i \in 1..(n - 1 + 1) /\ 1 + i - 1 = i
    BY <1>1
  <2>. QED BY <1>3, <2>1
<1>6. Range(p) \subseteq Range(q)
  <2>. SUFFICES ASSUME NEW x \in Range(p) PROVE x \in Range(q)
    OBVIOUS
  <2>1. PICK i \in 1..Len(p) : p[i] = x
    BY <1>3, InRange
  <2>2. i \in 1..Len(q) /\ q[i] = x
    BY <1>1, <1>4, <1>5, <2>1
  <2>. QED BY <2>2, InRange
<1>. QED BY <1>3, <1>4, <1>5, <1>6 DEF p

-----------------------------------------------------------------------------
LEMMA OneEvent == \A e \in EventLine : <<e>> \in Seq(EventLine) /\ Len(<<e>>) = 1 /\ Range(<<e>>) = {e}
<1>. TAKE e \in EventLine
<1>1. <<>> \in Seq(EventLine) /\ <<e>> = Append(<<>>, e)
  OBVIOUS
<1>2. Append(<<>>, e) \in Seq(EventLine) /\ Range(Append(<<>>, e)) = Range(<<>>) \cup {e}
  <2>1. PICK q \in Seq(EventLine) : q = <<>>
    BY <1>1
  <2>2. Append(q, e) \in Seq(EventLine) /\ Range(Append(q, e)) = Range(q) \cup {e}
    BY Appended
  <2>. QED BY <2>1, <2>2, Zenon
<1>3. Len(<<e>>) = 1
  OBVIOUS
<1>4. Range(<<>>) \cup {e} = {e}
  BY EmptyRange
<1>. QED BY <1>1, <1>2, <1>3, <1>4, Zenon

LEMMA JoinedEmpty == \A p \in Seq(EventLine) : p \o <<>> = p /\ <<>> \o p = p
BY ConcatEmptySeq

LEMMA JoinedThree ==
    \A p, q, r \in Seq(EventLine) : (p \o q) \o r = p \o (q \o r)
BY ConcatAssociative

Regroups(p, q, r) == (p \o q) \o r = p \o (q \o r)

LEMMA Regrouped == \A p, q, r \in Seq(EventLine) : Regroups(p, q, r)
BY JoinedThree, Zenon DEF Regroups

LEMMA JoinedTyped == \A p, q \in Seq(EventLine) : p \o q \in Seq(EventLine)
BY Joined

\* Another at the end, and one that is taken from the front of what follows.
LEMMA JoinedAppend ==
    ASSUME NEW p \in Seq(EventLine), NEW q \in Seq(EventLine), NEW e \in EventLine
    PROVE  /\ p \o Append(q, e) = Append(p \o q, e)
           /\ Append(p, e) \o q = p \o (<<e>> \o q)
<1>1. PICK u \in Seq(EventLine) : u = <<e>>
  BY OneEvent
<1>2. \A r \in Seq(EventLine) : Append(r, e) = r \o u
  BY <1>1, AppendIsConcat
<1>3. p \o q \in Seq(EventLine)
  BY Joined
<1>4. (p \o q) \o u = p \o (q \o u) /\ (p \o u) \o q = p \o (u \o q)
  BY JoinedThree, Zenon
<1>. QED BY <1>1, <1>2, <1>3, <1>4

\* An end, or a segment, without its front; a segment without its back; an end with what comes next.
LEMMA EndBack ==
    ASSUME NEW p \in Seq(EventLine), NEW q \in Seq(EventLine), NEW s, Ends(p \o q, s)
    PROVE  Ends(q, s)
<1>1. PICK a \in Seq(EventLine) : s = a \o (p \o q)
  BY DEF Ends
<1>2. a \o (p \o q) = (a \o p) \o q /\ a \o p \in Seq(EventLine)
  <2>1. Regroups(a, p, q)
    BY Regrouped
  <2>2. a \o p \in Seq(EventLine)
    BY JoinedTyped, Zenon
  <2>. QED BY <2>1, <2>2, Zenon DEF Regroups
<1>. QED BY <1>1, <1>2 DEF Ends

LEMMA SegmentBack ==
    ASSUME NEW p \in Seq(EventLine), NEW q \in Seq(EventLine), NEW s, Segment(p \o q, s)
    PROVE  Segment(q, s)
<1>1. PICK a \in Seq(EventLine), b \in Seq(EventLine) : s = (a \o (p \o q)) \o b
  BY DEF Segment
<1>2. a \o (p \o q) = (a \o p) \o q /\ a \o p \in Seq(EventLine)
  <2>1. Regroups(a, p, q)
    BY Regrouped
  <2>2. a \o p \in Seq(EventLine)
    BY JoinedTyped, Zenon
  <2>. QED BY <2>1, <2>2, Zenon DEF Regroups
<1>3. s = ((a \o p) \o q) \o b
  BY <1>1, <1>2, Zenon
<1>. QED BY <1>2, <1>3, Zenon DEF Segment

LEMMA SegmentFront ==
    ASSUME NEW p \in Seq(EventLine), NEW q \in Seq(EventLine), NEW s, Segment(q \o p, s)
    PROVE  Segment(q, s)
<1>1. PICK a \in Seq(EventLine), b \in Seq(EventLine) : s = (a \o (q \o p)) \o b
  BY DEF Segment
<1>2. a \o q \in Seq(EventLine) /\ p \o b \in Seq(EventLine)
  BY JoinedTyped, Zenon
<1>3. Regroups(a, q, p) /\ Regroups(a \o q, p, b)
  BY <1>2, Regrouped
<1>4. s = (a \o q) \o (p \o b)
  BY <1>1, <1>3, Zenon DEF Regroups
<1>. QED BY <1>2, <1>4, Zenon DEF Segment

LEMMA EndIsSegment ==
    ASSUME NEW q \in Seq(EventLine), NEW s, Ends(q, s)
    PROVE  Segment(q, s)
<1>1. PICK a \in Seq(EventLine) : s = a \o q
  BY DEF Ends
<1>2. a \o q \in Seq(EventLine)
  BY JoinedTyped
<1>3. s = (a \o q) \o <<>> /\ <<>> \in Seq(EventLine)
  BY <1>1, <1>2, JoinedEmpty
<1>. QED BY <1>3 DEF Segment

LEMMA EndGrown ==
    ASSUME NEW q \in Seq(EventLine), NEW s, NEW e \in EventLine, Ends(q, s)
    PROVE  Ends(Append(q, e), Append(s, e))
<1>1. PICK a \in Seq(EventLine) : s = a \o q
  BY DEF Ends
<1>2. a \o Append(q, e) = Append(a \o q, e)
  BY JoinedAppend
<1>. QED BY <1>1, <1>2 DEF Ends

\* q is what s has after its first i.
After(q, s, i) == i + Len(q) <= Len(s) /\ \A k \in 1..Len(q) : q[k] = s[i + k]

LEMMA PartIs ==
    ASSUME NEW q \in Seq(EventLine), NEW s \in Seq(EventLine), NEW i \in Nat, After(q, s, i)
    PROVE  i + Len(q) \in i..Len(s) /\ i \in 0..Len(s) /\ q = SubSeq(s, i + 1, i + Len(q))
<1>1. Len(q) \in Nat /\ Len(s) \in Nat
  BY LenProperties
<1>2. i + Len(q) <= Len(s) /\ \A k \in 1..Len(q) : q[k] = s[i + k]
  BY DEF After
<1>. DEFINE j == i + Len(q)
            m == i + 1
            t == SubSeq(s, m, j)
<1>3. j \in i..Len(s) /\ i \in 0..Len(s) /\ j \in Int /\ m \in Int /\ \A k \in m..j : k \in 1..Len(s)
  BY <1>1, <1>2
<1>. HIDE DEF j, m
<1>4. \A k \in m..j : s[k] \in EventLine
  BY <1>3, ElementOfSeq
<1>5. /\ t \in Seq(EventLine) /\ Len(t) = IF m <= j THEN j - m + 1 ELSE 0
      /\ \A k \in 1..(j - m + 1) : t[k] = s[m + k - 1]
  BY <1>3, <1>4, SubSeqProperties
<1>. HIDE DEF t
<1>6. Len(t) = Len(q) /\ \A k \in 1..Len(q) : k \in 1..(j - m + 1) /\ m + k - 1 = i + k
  <2>1. j - m + 1 = Len(q) /\ (m <= j <=> Len(q) > 0)
    BY <1>1 DEF j, m
  <2>2. \A k \in 1..Len(q) : m + k - 1 = i + k
    BY <1>1 DEF m
  <2>3. Len(t) = Len(q)
    BY <1>1, <1>5, <2>1
  <2>. QED BY <2>1, <2>2, <2>3
<1>7. \A k \in 1..Len(q) : q[k] = t[k]
  BY <1>2, <1>5, <1>6
<1>8. q = t
  BY <1>5, <1>6, <1>7, SeqEqual
<1>. QED BY <1>3, <1>8 DEF j, m, t

\* The definitions as the property states them.
LEMMA SegmentIs ==
    ASSUME NEW q \in Seq(EventLine), NEW s \in Seq(EventLine), Segment(q, s)
    PROVE  \E i \in 0..Len(s) : \E j \in i..Len(s) : q = SubSeq(s, i + 1, j)
<1>1. PICK a \in Seq(EventLine), b \in Seq(EventLine) : s = (a \o q) \o b
  BY DEF Segment
<1>2. /\ a \o q \in Seq(EventLine) /\ Len(a \o q) = Len(a) + Len(q) /\ Len(a) \in Nat /\ Len(q) \in Nat
      /\ \A k \in 1..Len(q) : (a \o q)[Len(a) + k] = q[k]
  BY Joined
<1>. PICK t \in Seq(EventLine) : t = a \o q
  BY <1>2
<1>3. Len(s) = Len(t) + Len(b) /\ Len(b) \in Nat /\ \A k \in 1..Len(t) : s[k] = t[k]
  BY <1>1, Joined
<1>4. ASSUME NEW k \in 1..Len(q) PROVE q[k] = s[Len(a) + k]
  <2>1. Len(a) + k \in 1..Len(t)
    BY <1>2
  <2>. QED BY <1>2, <1>3, <2>1
<1>5. Len(a) + Len(q) <= Len(s)
  BY <1>2, <1>3
<1>. PICK i \in Nat : i = Len(a)
  BY <1>2
<1>6. After(q, s, i)
  BY <1>4, <1>5 DEF After
<1>. QED BY <1>6, PartIs

LEMMA EndIs ==
    ASSUME NEW q \in Seq(EventLine), NEW s \in Seq(EventLine), Ends(q, s)
    PROVE  /\ EndsWith(s, q)
           /\ \E i \in 0..Len(s) : Len(s) \in i..Len(s) /\ q = SubSeq(s, i + 1, Len(s))
<1>1. PICK a \in Seq(EventLine) : s = a \o q
  BY DEF Ends
<1>2. /\ Len(s) = Len(a) + Len(q) /\ Len(a) \in Nat /\ Len(q) \in Nat
      /\ \A k \in 1..Len(q) : s[Len(a) + k] = q[k]
  BY <1>1, Joined
<1>. PICK i \in Nat : i = Len(a)
  BY <1>2
<1>3. i + Len(q) = Len(s) /\ \A k \in 1..Len(q) : q[k] = s[i + k]
  BY <1>2
<1>6. After(q, s, i)
  BY <1>2, <1>3 DEF After
<1>4. i + Len(q) \in i..Len(s) /\ i \in 0..Len(s) /\ q = SubSeq(s, i + 1, i + Len(q))
  BY <1>6, PartIs
<1>5. EndsWith(s, q)
  <2>1. Len(q) <= Len(s) /\ Len(s) - Len(q) = i
    BY <1>2, <1>3
  <2>. QED BY <1>3, <2>1 DEF EndsWith
<1>. QED BY <1>3, <1>4, <1>5

-----------------------------------------------------------------------------
(***************************************************************************)
(* The table: what it shows of the events it has been given.               *)
(***************************************************************************)
LEMMA ChildrenCounted ==
    ASSUME NEW s, NEW p, NEW n \in Nat
    PROVE  IsFiniteSet(ChildrenOf(s, p, n)) /\ Cardinality(ChildrenOf(s, p, n)) \in Nat
<1>1. IsFiniteSet(1..n)
  BY FS_Interval
<1>2. ChildrenOf(s, p, n) \in SUBSET (1..n)
  BY DEF ChildrenOf
<1>. QED BY <1>1, <1>2, FS_Subset, FS_CardinalityType

\* The children among the first n events are the same in any longer sequence.
LEMMA SameChildren ==
    ASSUME NEW s, NEW t, NEW p, NEW n \in Nat, \A i \in 1..n : t[i] = s[i]
    PROVE  ChildrenOf(t, p, n) = ChildrenOf(s, p, n)
BY DEF ChildrenOf

LEMMA OneMoreChild ==
    ASSUME NEW s, NEW p, NEW n \in Nat
    PROVE  Cardinality(ChildrenOf(s, p, n + 1)) =
              IF s[n + 1].parent = p THEN Cardinality(ChildrenOf(s, p, n)) + 1
              ELSE Cardinality(ChildrenOf(s, p, n))
<1>0. n + 1 \notin ChildrenOf(s, p, n)
  BY DEF ChildrenOf
<1>1. IsFiniteSet(ChildrenOf(s, p, n)) /\ n + 1 \notin ChildrenOf(s, p, n)
  BY <1>0, ChildrenCounted
<1>2. \A i : i \in 1..(n + 1) <=> i \in 1..n \/ i = n + 1
  OBVIOUS
<1>3. CASE s[n + 1].parent = p
  <2>1. ChildrenOf(s, p, n + 1) = ChildrenOf(s, p, n) \cup {n + 1}
    BY <1>2, <1>3 DEF ChildrenOf
  <2>. QED BY <1>1, <1>3, <2>1, FS_AddElement
<1>4. CASE s[n + 1].parent # p
  <2>1. ChildrenOf(s, p, n + 1) = ChildrenOf(s, p, n)
    BY <1>2, <1>4 DEF ChildrenOf
  <2>. QED BY <1>4, <2>1
<1>. QED BY <1>3, <1>4

LEMMA NoChildren ==
    ASSUME NEW s, NEW p, NEW n \in Nat, \A i \in 1..n : s[i].parent # p
    PROVE  Cardinality(ChildrenOf(s, p, n)) = 0
BY FS_EmptySet DEF ChildrenOf

\* Counting a child, with no entry for the parent standing for none.
LEMMA CountedIs ==
    ASSUME NEW c \in Counts, NEW e \in EventLine
    PROVE  /\ Counted(c, e) \in Counts
           /\ e.parent = NoParent => Counted(c, e) = c
           /\ e.parent # NoParent =>
                 /\ DOMAIN Counted(c, e) = DOMAIN c \cup {e.parent}
                 /\ \A p \in DOMAIN c : p # e.parent => Counted(c, e)[p] = c[p]
                 /\ Counted(c, e)[e.parent] = IF e.parent \in DOMAIN c THEN c[e.parent] + 1 ELSE 1
<1>1. PICK D \in SUBSET Nat : c \in [D -> Nat]
  BY DEF Counts
<1>2. e.parent \in Nat
  BY DEF EventLine
<1>3. CASE e.parent = NoParent
  BY <1>3 DEF Counted
<1>4. CASE e.parent # NoParent
  <2>. DEFINE d == c (+) SetToBag({e.parent})
  <2>1. Counted(c, e) = d
    BY <1>4 DEF Counted
  <2>2. /\ DOMAIN d = DOMAIN c \cup {e.parent}
        /\ d = [p \in DOMAIN d |-> d[p]]
        /\ \A p \in DOMAIN c \cup {e.parent} :
              d[p] = IF p = e.parent THEN IF p \in DOMAIN c THEN c[p] + 1 ELSE 1 ELSE c[p]
    BY <1>1, <1>2 DEF SetToBag, (+)
  <2>. HIDE DEF d
  <2>3. /\ \A p \in DOMAIN c : p # e.parent => d[p] = c[p]
        /\ d[e.parent] = IF e.parent \in DOMAIN c THEN c[e.parent] + 1 ELSE 1
    BY <2>2
  <2>4. \A p \in DOMAIN d : d[p] \in Nat
    BY <1>1, <2>2
  <2>5. DOMAIN d \in SUBSET Nat
    BY <1>1, <1>2, <2>2
  <2>6. d \in [DOMAIN d -> Nat]
    BY <2>2, <2>4
  <2>7. d \in Counts
    BY <2>5, <2>6 DEF Counts
  <2>. QED BY <1>4, <2>1, <2>2, <2>3, <2>7
<1>. QED BY <1>3, <1>4

TableRow == [event : EventLine, name : Seq(Nat)]

LEMMA TableParts ==
    ASSUME NEW t \in Table
    PROVE  /\ t.rows \in Seq(TableRow) /\ t.parent_child_counts \in Counts
           /\ Len(t.rows) \in Nat /\ DOMAIN t.rows = 1..Len(t.rows)
BY LenProperties DEF Table, TableRow

LEMMA EmptyTable == Cleared \in Table /\ Shows(Cleared, <<>>)
<1>1. EmptyBag \in [{} -> Nat]
  BY DEF EmptyBag, SetToBag
<1>2. EmptyBag \in Counts /\ DOMAIN EmptyBag = {}
  BY <1>1 DEF Counts
<1>3. Cleared \in Table
  BY <1>2 DEF Cleared, Table
<1>4. Cleared.rows = <<>> /\ Cleared.parent_child_counts = EmptyBag
  BY DEF Cleared
<1>5. Len(<<>>) = 0 /\ ~(0 > MAX_EVENTS) /\ 1..0 = {}
  BY MaxEventsAssumption
<1>6. Shows(Cleared, <<>>)
  BY <1>2, <1>4, <1>5 DEF Shows
<1>. QED BY <1>3, <1>6

\* append_event keeps what the table shows in step with what it is given.
LEMMA OneMoreRow ==
    ASSUME NEW t \in Table, NEW s \in Seq(EventLine), Shows(t, s), NEW e \in EventLine
    PROVE  AppendEvent(t, e) \in Table /\ Shows(AppendEvent(t, e), Append(s, e))
<1>. DEFINE c == t.parent_child_counts
            d == Counted(c, e)
            N == Len(s)
            r == Append(s, e)
            new == [event |-> e, name |-> DisplaySeq(c, e)]
            old == IF Len(t.rows) >= MAX_EVENTS THEN Tail(t.rows) ELSE t.rows
            rows == Append(old, new)
            u == AppendEvent(t, e)
<1>1. MAX_EVENTS \in Nat /\ MAX_EVENTS > 0
  BY MaxEventsAssumption
<1>2. t.rows \in Seq(TableRow) /\ c \in Counts /\ Len(t.rows) \in Nat
  BY TableParts
<1>3. /\ r \in Seq(EventLine) /\ Len(r) = N + 1 /\ N \in Nat
      /\ \A i \in 1..N : r[i] = s[i]
      /\ r[N + 1] = e
  BY Appended
<1>4. e.parent \in Nat /\ e.seq \in Nat
  BY DEF EventLine
<1>5. Len(t.rows) = IF N > MAX_EVENTS THEN MAX_EVENTS ELSE N
  BY DEF Shows
<1>6. \A i \in 1..N : s[i].parent # NoParent => s[i].parent \in DOMAIN c
  BY DEF Shows
<1>7. \A p \in DOMAIN c : c[p] = Cardinality(ChildrenOf(s, p, N))
  BY DEF Shows
<1>8. \A i \in 1..Len(t.rows) :
        t.rows[i] = [event |-> s[N - Len(t.rows) + i],
                     name |-> Named(s[N - Len(t.rows) + i], s, N - Len(t.rows) + i)]
  BY DEF Shows
<1>9. u.rows = rows /\ u.parent_child_counts = d /\ u = [rows |-> rows, parent_child_counts |-> d]
  BY Zenon DEF AppendEvent, Row
<1>10. /\ d \in Counts
       /\ e.parent = NoParent => d = c
       /\ e.parent # NoParent =>
             /\ DOMAIN d = DOMAIN c \cup {e.parent}
             /\ \A p \in DOMAIN c : p # e.parent => d[p] = c[p]
             /\ d[e.parent] = IF e.parent \in DOMAIN c THEN c[e.parent] + 1 ELSE 1
  BY <1>2, CountedIs
<1>. HIDE DEF c, d, N, r, u
<1>11. \A p : Cardinality(ChildrenOf(r, p, N)) = Cardinality(ChildrenOf(s, p, N))
  BY <1>3, SameChildren
<1>12. \A p : Cardinality(ChildrenOf(r, p, N + 1)) =
                IF e.parent = p THEN Cardinality(ChildrenOf(s, p, N)) + 1
                ELSE Cardinality(ChildrenOf(s, p, N))
  <2>1. \A p : Cardinality(ChildrenOf(r, p, N + 1)) =
                IF r[N + 1].parent = p THEN Cardinality(ChildrenOf(r, p, N)) + 1
                ELSE Cardinality(ChildrenOf(r, p, N))
    BY <1>3, OneMoreChild
  <2>. QED BY <1>3, <1>11, <2>1
<1>13. \A p \in DOMAIN d : d[p] = Cardinality(ChildrenOf(r, p, N + 1))
  <2>1. CASE e.parent = NoParent
    <3>1. NoParent \notin DOMAIN c
      BY DEF Shows, c
    <3>. QED BY <1>7, <1>10, <1>12, <2>1, <3>1
  <2>2. CASE e.parent # NoParent
    <3>1. CASE e.parent \in DOMAIN c
      BY <1>7, <1>10, <1>12, <2>2, <3>1
    <3>2. CASE e.parent \notin DOMAIN c
      <4>1. \A i \in 1..N : s[i].parent # e.parent
        BY <1>6, <2>2, <3>2
      <4>2. Cardinality(ChildrenOf(s, e.parent, N)) = 0
        BY <1>3, <4>1, NoChildren
      <4>3. ASSUME NEW p \in DOMAIN d PROVE d[p] = Cardinality(ChildrenOf(r, p, N + 1))
        <5>1. CASE p = e.parent
          BY <1>10, <1>12, <2>2, <3>2, <4>2, <5>1
        <5>2. CASE p # e.parent
          BY <1>7, <1>10, <1>12, <2>2, <5>2
        <5>. QED BY <5>1, <5>2
      <4>. QED BY <4>3
    <3>. QED BY <3>1, <3>2
  <2>. QED BY <2>1, <2>2
<1>14. \A i \in 1..(N + 1) : r[i].parent # NoParent => r[i].parent \in DOMAIN d
  <2>. SUFFICES ASSUME NEW i \in 1..(N + 1), r[i].parent # NoParent PROVE r[i].parent \in DOMAIN d
    OBVIOUS
  <2>1. \A p \in DOMAIN c : p \in DOMAIN d
    BY <1>10
  <2>2. CASE i = N + 1
    BY <1>3, <1>10, <2>2
  <2>3. CASE i # N + 1
    <3>1. i \in 1..N
      BY <1>3, <2>3
    <3>2. r[i] = s[i] /\ s[i].parent \in DOMAIN c
      BY <1>3, <1>6, <3>1
    <3>. QED BY <2>1, <3>2
  <2>. QED BY <2>2, <2>3
<1>15. new = [event |-> e, name |-> Named(e, r, N + 1)] /\ new \in TableRow
  <2>1. CASE e.parent = NoParent
    <3>1. DisplaySeq(c, e) = <<e.seq>> /\ Named(e, r, N + 1) = <<e.seq>>
      BY <2>1, Zenon DEF DisplaySeq, Named
    <3>2. <<e.seq>> \in Seq(Nat)
      BY <1>4
    <3>. QED BY <3>1, <3>2 DEF TableRow
  <2>2. CASE e.parent # NoParent
    <3>1. DisplaySeq(c, e) = <<e.parent, d[e.parent]>>
      BY <2>2, Zenon DEF DisplaySeq, d
    <3>2. Named(e, r, N + 1) = <<e.parent, Cardinality(ChildrenOf(r, e.parent, N + 1))>>
      BY <2>2, Zenon DEF Named
    <3>3. d[e.parent] = Cardinality(ChildrenOf(r, e.parent, N + 1))
      BY <1>10, <1>13, <2>2
    <3>4. d[e.parent] \in Nat
      BY <1>3, <3>3, ChildrenCounted
    <3>5. <<e.parent, d[e.parent]>> \in Seq(Nat)
      BY <1>4, <3>4
    <3>. QED BY <3>1, <3>2, <3>3, <3>5 DEF TableRow
  <2>. QED BY <2>1, <2>2
<1>16. \A n \in 1..N : Named(s[n], r, n) = Named(s[n], s, n)
  <2>. TAKE n \in 1..N
  <2>1. n \in Nat /\ \A i \in 1..n : r[i] = s[i]
    BY <1>3
  <2>2. \A p : ChildrenOf(r, p, n) = ChildrenOf(s, p, n)
    BY <2>1, SameChildren
  <2>. QED BY <2>2, Zenon DEF Named
<1>17. /\ old \in Seq(TableRow) /\ Len(old) \in Nat
       /\ Len(old) = IF N >= MAX_EVENTS THEN MAX_EVENTS - 1 ELSE N
       /\ \A i \in 1..Len(old) :
             old[i] = [event |-> s[N - Len(old) + i], name |-> Named(s[N - Len(old) + i], s, N - Len(old) + i)]
  <2>1. CASE Len(t.rows) >= MAX_EVENTS
    <3>1. Len(t.rows) = MAX_EVENTS /\ N >= MAX_EVENTS /\ t.rows # <<>>
      BY <1>1, <1>2, <1>3, <1>5, <2>1
    <3>2. /\ Tail(t.rows) \in Seq(TableRow) /\ Len(Tail(t.rows)) = Len(t.rows) - 1
          /\ \A i \in 1..Len(Tail(t.rows)) : Tail(t.rows)[i] = t.rows[i + 1]
      BY <1>2, <3>1, HeadTailProperties
    <3>3. old = Tail(t.rows)
      BY <2>1
    <3>. HIDE DEF old
    <3>4. Len(old) = MAX_EVENTS - 1
      BY <3>1, <3>2, <3>3
    <3>5. ASSUME NEW i \in 1..Len(old)
          PROVE  old[i] = [event |-> s[N - Len(old) + i], name |-> Named(s[N - Len(old) + i], s, N - Len(old) + i)]
      <4>1. i + 1 \in 1..Len(t.rows) /\ N - Len(t.rows) + (i + 1) = N - Len(old) + i
        BY <1>1, <1>3, <3>1, <3>4
      <4>2. old[i] = t.rows[i + 1]
        BY <3>2, <3>3
      <4>. QED BY <1>8, <4>1, <4>2
    <3>. QED BY <1>1, <3>1, <3>2, <3>3, <3>4, <3>5
  <2>2. CASE ~(Len(t.rows) >= MAX_EVENTS)
    <3>1. old = t.rows
      BY <2>2
    <3>. HIDE DEF old
    <3>2. Len(old) = N /\ N < MAX_EVENTS
      BY <1>1, <1>3, <1>5, <2>2, <3>1
    <3>3. \A i \in 1..Len(old) :
            old[i] = [event |-> s[N - Len(old) + i], name |-> Named(s[N - Len(old) + i], s, N - Len(old) + i)]
      BY <1>8, <3>1, Zenon
    <3>. QED BY <1>1, <1>2, <1>3, <3>1, <3>2, <3>3
  <2>. QED BY <2>1, <2>2
<1>. HIDE DEF new, old
<1>18. /\ rows \in Seq(TableRow) /\ Len(rows) = Len(old) + 1
       /\ \A i \in 1..Len(old) : rows[i] = old[i]
       /\ rows[Len(old) + 1] = new
  BY <1>15, <1>17, Appended
<1>. HIDE DEF rows
<1>19. Len(rows) = IF N + 1 > MAX_EVENTS THEN MAX_EVENTS ELSE N + 1
  BY <1>1, <1>3, <1>17, <1>18
<1>20. ASSUME NEW i \in 1..Len(rows)
       PROVE  rows[i] = [event |-> r[(N + 1) - Len(rows) + i],
                         name |-> Named(r[(N + 1) - Len(rows) + i], r, (N + 1) - Len(rows) + i)]
  <2>1. CASE i = Len(old) + 1
    <3>1. (N + 1) - Len(rows) + i = N + 1
      BY <1>3, <1>17, <1>18, <2>1
    <3>. QED BY <1>3, <1>15, <1>18, <2>1, <3>1
  <2>2. CASE i # Len(old) + 1
    <3>1. i \in 1..Len(old) /\ (N + 1) - Len(rows) + i = N - Len(old) + i
      BY <1>3, <1>17, <1>18, <2>2
    <3>2. N - Len(old) + i \in 1..N
      BY <1>1, <1>3, <1>17, <3>1
    <3>. DEFINE n == N - Len(old) + i
    <3>3. rows[i] = [event |-> s[n], name |-> Named(s[n], s, n)]
      BY <1>17, <1>18, <3>1
    <3>. HIDE DEF n
    <3>4. n \in 1..N /\ (N + 1) - Len(rows) + i = n
      BY <3>1, <3>2 DEF n
    <3>. QED BY <1>3, <1>16, <3>3, <3>4
  <2>. QED BY <2>1, <2>2
<1>21. NoParent \notin DOMAIN d
  <2>1. NoParent \notin DOMAIN c
    BY DEF Shows, c
  <2>. QED BY <1>10, <2>1
<1>22. u \in Table
  BY <1>9, <1>10, <1>18 DEF Table, TableRow
<1>23. Shows(u, r)
  <2>1. Len(u.rows) = IF Len(r) > MAX_EVENTS THEN MAX_EVENTS ELSE Len(r)
    BY <1>3, <1>9, <1>19
  <2>2. \A i \in 1..Len(u.rows) :
          u.rows[i] = [event |-> r[Len(r) - Len(u.rows) + i],
                       name |-> Named(r[Len(r) - Len(u.rows) + i], r, Len(r) - Len(u.rows) + i)]
    BY <1>3, <1>9, <1>20
  <2>. QED BY <1>3, <1>9, <1>13, <1>14, <1>21, <2>1, <2>2 DEF Shows
<1>. QED BY <1>22, <1>23 DEF u, r

\* A set of numbers has a least one.
LEMMA LeastOf ==
    ASSUME NEW S, S \subseteq Nat, S # {}
    PROVE  \E m \in S : \A n \in S : m <= n
<1>. DEFINE Below == {p \in Nat \X Nat : p[1] < p[2]}
<1>1. IsWellFoundedOn(Below, Nat)
  BY NatLessThanWellFounded DEF OpToRel
<1>2. \A m, n \in S : <<n, m>> \notin Below => m <= n
  BY SMT
<1>. HIDE DEF Below
<1>3. \E m \in S : \A n \in S : ~(<<n, m>> \in Below)
  BY <1>1, WFMin
<1>. QED BY <1>2, <1>3

Step(t, es, f, s) == IF s = {} THEN t ELSE AppendEvent(f[s \ {Max(s)}], es[Max(s)])

\* f is the fold behind AppendEvents over the sets of the first n places of es.
IsFold(f, t, es, n) == f = [s \in SUBSET (1..n) |-> Step(t, es, f, s)]

LEMMA GreatestIs ==
    ASSUME NEW n \in Nat, NEW s \in SUBSET (1..n), n \in s
    PROVE  Max(s) = n
<1>1. \A y \in s : n >= y
  OBVIOUS
<1>2. \A x \in s : (\A y \in s : x >= y) => x = n
  <2>. SUFFICES ASSUME NEW x \in s, \A y \in s : x >= y PROVE x = n
    OBVIOUS
  <2>1. x >= n /\ x \in 1..n
    OBVIOUS
  <2>. QED BY <2>1
<1>. QED BY <1>1, <1>2 DEF Max

\* A set of some of the first n + 1 places has the last, or is of the first n.
LEMMA MaxStays ==
    ASSUME NEW n \in Nat, NEW s \in SUBSET (1..(n + 1))
    PROVE  /\ n + 1 \in s => Max(s) = n + 1 /\ s \ {Max(s)} \in SUBSET (1..n)
           /\ n + 1 \notin s => s \in SUBSET (1..n)
<1>1. n + 1 \in Nat /\ \A i \in 1..(n + 1) : i = n + 1 \/ i \in 1..n
  OBVIOUS
<1>2. n + 1 \in s => Max(s) = n + 1
  BY <1>1, GreatestIs
<1>3. n + 1 \in s => s \ {n + 1} \in SUBSET (1..n)
  BY <1>1
<1>. QED BY <1>1, <1>2, <1>3

LEMMA FoldExists ==
    ASSUME NEW t, NEW es, NEW N \in Nat
    PROVE  \E f : IsFold(f, t, es, N)
<1>. DEFINE bad == {n \in Nat : ~\E f : IsFold(f, t, es, n)}
<1>. SUFFICES ASSUME bad # {} PROVE FALSE
  OBVIOUS
<1>1. PICK m \in bad : \A k \in bad : m <= k
  BY LeastOf
<1>2. m \in Nat /\ ~\E f : IsFold(f, t, es, m)
  BY <1>1
<1>3. CASE m = 0
  <2>. DEFINE f == [s \in SUBSET (1..0) |-> t]
  <2>1. \A s \in SUBSET (1..0) : s = {}
    OBVIOUS
  <2>2. \A s \in SUBSET (1..0) : f[s] = Step(t, es, f, s)
    BY <2>1 DEF Step
  <2>. HIDE DEF f
  <2>3. f = [s \in SUBSET (1..0) |-> f[s]]
    BY DEF f
  <2>4. f = [s \in SUBSET (1..0) |-> Step(t, es, f, s)]
    BY <2>2, <2>3
  <2>5. IsFold(f, t, es, 0)
    BY <2>4 DEF IsFold
  <2>. QED BY <1>2, <1>3, <2>5
<1>4. CASE m # 0
  <2>. DEFINE n == m - 1
  <2>1. n \in Nat /\ m = n + 1 /\ ~(m <= n)
    BY <1>2, <1>4
  <2>. HIDE DEF n
  <2>2. n \notin bad
    BY <1>1, <2>1
  <2>3. PICK f : IsFold(f, t, es, n)
    BY <2>1, <2>2
  <2>4. f = [s \in SUBSET (1..n) |-> Step(t, es, f, s)]
    BY <2>3 DEF IsFold
  <2>5. \A s \in SUBSET (1..n) : f[s] = Step(t, es, f, s)
    BY <2>4
  <2>. DEFINE g == [s \in SUBSET (1..m) |-> IF m \in s THEN AppendEvent(f[s \ {m}], es[m]) ELSE f[s]]
  <2>6. \A s \in SUBSET (1..n) : s \in SUBSET (1..m) /\ m \notin s
    BY <2>1
  <2>7. \A s \in SUBSET (1..n) : g[s] = f[s]
    BY <2>6
  <2>8. \A s \in SUBSET (1..m) : g[s] = IF m \in s THEN AppendEvent(f[s \ {m}], es[m]) ELSE f[s]
    OBVIOUS
  <2>9. g = [s \in SUBSET (1..m) |-> g[s]]
    OBVIOUS
  <2>. HIDE DEF g
  <2>10. ASSUME NEW s \in SUBSET (1..m) PROVE g[s] = Step(t, es, g, s)
    <3>1. CASE m \in s
      <4>1. Max(s) = m /\ s \ {m} \in SUBSET (1..n)
        BY <2>1, <3>1, MaxStays
      <4>2. g[s] = AppendEvent(g[s \ {m}], es[m])
        BY <2>7, <2>8, <3>1, <4>1
      <4>3. Step(t, es, g, s) = AppendEvent(g[s \ {m}], es[m])
        BY <3>1, <4>1 DEF Step
      <4>. QED BY <4>2, <4>3
    <3>2. CASE m \notin s
      <4>1. s \in SUBSET (1..n)
        BY <2>1, <3>2, MaxStays
      <4>2. g[s] = Step(t, es, f, s)
        BY <2>5, <2>7, <4>1
      <4>3. s # {} => s \ {Max(s)} \in SUBSET (1..n)
        BY <4>1
      <4>4. s # {} => g[s \ {Max(s)}] = f[s \ {Max(s)}]
        BY <2>7, <4>3
      <4>5. Step(t, es, f, s) = Step(t, es, g, s)
        BY <4>4, Zenon DEF Step
      <4>. QED BY <4>2, <4>5
    <3>. QED BY <3>1, <3>2
  <2>11. g = [s \in SUBSET (1..m) |-> Step(t, es, g, s)]
    BY <2>9, <2>10
  <2>12. IsFold(g, t, es, m)
    BY <2>11 DEF IsFold
  <2>. QED BY <1>2, <2>12
<1>. QED BY <1>3, <1>4

\* append_events keeps the table in step with all that it is given.
LEMMA MoreRows ==
    ASSUME NEW t \in Table, NEW s \in Seq(EventLine), Shows(t, s), NEW es \in Seq(EventLine)
    PROVE  AppendEvents(t, es) \in Table /\ Shows(AppendEvents(t, es), s \o es)
<1>. DEFINE N == Len(es)
            f == CHOOSE h : IsFold(h, t, es, N)
            first(n) == SubSeq(es, 1, n)
            good(n) == f[1..n] \in Table /\ Shows(f[1..n], s \o first(n))
            bad == {n \in 0..N : ~good(n)}
<1>1. N \in Nat /\ DOMAIN es = 1..N /\ \A i \in 1..N : es[i] \in EventLine
  BY Elements
<1>2. AppendEvents(t, es) = f[1..N]
  <2>1. AppendEvents(t, es) =
          LET h == CHOOSE h : h = [p \in SUBSET (DOMAIN es) |->
                                     IF p = {} THEN t ELSE AppendEvent(h[p \ {Max(p)}], es[Max(p)])]
          IN  h[DOMAIN es]
    BY Zenon DEF AppendEvents, FoldLeft, MapThenFoldSet
  <2>. QED BY <1>1, <2>1, Zenon DEF IsFold, Step
<1>. HIDE DEF N
<1>3. IsFold(f, t, es, N)
  BY <1>1, FoldExists
<1>. HIDE DEF f
<1>4. \A p \in SUBSET (1..N) : f[p] = Step(t, es, f, p)
  BY <1>3 DEF IsFold
<1>5. bad = {}
  <2>. SUFFICES ASSUME bad # {} PROVE FALSE
    OBVIOUS
  <2>0. bad \subseteq Nat
    BY <1>1
  <2>1. PICK m \in bad : \A k \in bad : m <= k
    BY <2>0, LeastOf
  <2>2. m \in 0..N /\ ~good(m)
    BY <2>1
  <2>3. CASE m = 0
    <3>1. 1..0 = {} /\ 1..0 \in SUBSET (1..N)
      OBVIOUS
    <3>2. f[1..0] = t
      BY <1>4, <3>1 DEF Step
    <3>3. s \o first(0) = s
      BY SubSeqEmpty, ConcatEmptySeq
    <3>4. good(0)
      BY <3>2, <3>3, Zenon
    <3>. QED BY <2>2, <2>3, <3>4, Zenon
  <2>4. CASE m # 0
    <3>. DEFINE n == m - 1
    <3>1. n \in 0..N /\ n \in Nat /\ m = n + 1 /\ ~(m <= n) /\ m \in 1..N
      BY <1>1, <2>2, <2>4
    <3>. HIDE DEF n
    <3>2. n \notin bad
      BY <2>1, <3>1
    <3>3. good(n)
      BY <3>1, <3>2
    <3>4. f[1..m] = AppendEvent(f[1..n], es[m])
      <4>1. 1..m \in SUBSET (1..N) /\ m \in 1..m /\ 1..m \in SUBSET (1..m) /\ m \in Nat
        BY <1>1, <3>1
      <4>2. Max(1..m) = m
        BY <4>1, GreatestIs
      <4>3. (1..m) \ {m} = 1..n
        BY <3>1
      <4>4. f[1..m] = Step(t, es, f, 1..m)
        BY <1>4, <4>1
      <4>5. 1..m # {}
        BY <4>1
      <4>6. Step(t, es, f, 1..m) = AppendEvent(f[(1..m) \ {m}], es[m])
        BY <4>2, <4>5, Zenon DEF Step
      <4>. QED BY <4>3, <4>4, <4>6, Zenon
    <3>5. s \o first(m) = Append(s \o first(n), es[m])
      <4>1. es[m] \in EventLine
        BY <1>1, <3>1
      <4>2. /\ first(m) \in Seq(EventLine) /\ Len(first(m)) = m /\ \A i \in 1..m : first(m)[i] = es[i]
            /\ first(n) \in Seq(EventLine) /\ Len(first(n)) = n /\ \A i \in 1..n : first(n)[i] = es[i]
        BY <1>1, <3>1, FrontPart DEF N
      <4>. DEFINE p == first(n)
                  q == first(m)
      <4>. HIDE DEF p, q
      <4>3. q \in Seq(EventLine) /\ p \in Seq(EventLine) /\ <<es[m]>> \in Seq(EventLine)
        BY <4>1, <4>2 DEF p, q
      <4>4. q = Append(p, es[m])
        <5>1. /\ Append(p, es[m]) \in Seq(EventLine) /\ Len(Append(p, es[m])) = Len(p) + 1
              /\ \A i \in 1..Len(p) : Append(p, es[m])[i] = p[i]
              /\ Append(p, es[m])[Len(p) + 1] = es[m]
          BY <4>1, <4>3, Appended
        <5>2. Len(p) = n /\ Len(q) = m /\ m = n + 1 /\ n \in Nat
          BY <3>1, <4>2 DEF p, q
        <5>3. ASSUME NEW i \in 1..Len(q) PROVE q[i] = Append(p, es[m])[i]
          <6>1. q[i] = es[i]
            BY <4>2, <5>2, <5>3 DEF q
          <6>2. CASE i = m
            BY <5>1, <5>2, <6>1, <6>2
          <6>3. CASE i # m
            <7>1. i \in 1..n
              BY <5>2, <6>3
            <7>2. p[i] = es[i]
              BY <4>2, <7>1 DEF p
            <7>3. Append(p, es[m])[i] = p[i]
              BY <5>1, <5>2, <7>1, Zenon
            <7>. QED BY <6>1, <7>2, <7>3, Zenon
          <6>. QED BY <6>2, <6>3
        <5>4. Len(q) = Len(Append(p, es[m]))
          BY <5>1, <5>2
        <5>. QED BY <4>3, <5>1, <5>3, <5>4, SeqEqual
      <4>5. Append(p, es[m]) = p \o <<es[m]>>
        BY <4>1, <4>3, AppendIsConcat
      <4>6. s \o p \in Seq(EventLine) /\ Append(s \o p, es[m]) = (s \o p) \o <<es[m]>>
        BY <4>1, <4>3, AppendIsConcat, ConcatProperties
      <4>7. (s \o p) \o <<es[m]>> = s \o (p \o <<es[m]>>)
        <5>1. s \in Seq(EventLine)
          BY <1>1
        <5>2. Regroups(s, p, <<es[m]>>)
          BY <4>3, <5>1, Regrouped
        <5>. QED BY <5>2, Zenon DEF Regroups
      <4>8. s \o q = Append(s \o p, es[m])
        BY <4>4, <4>5, <4>6, <4>7, Zenon
      <4>. QED BY <4>8, Zenon DEF p, q
    <3>6. first(n) \in Seq(EventLine)
      BY <3>1, FrontPart DEF N
    <3>7. s \o first(n) \in Seq(EventLine) /\ es[m] \in EventLine
      BY <1>1, <3>1, <3>6, ConcatProperties
    <3>. HIDE DEF first
    <3>8. good(m)
      BY <3>3, <3>4, <3>5, <3>7, OneMoreRow
    <3>. QED BY <2>2, <3>8
  <2>. QED BY <2>3, <2>4
<1>6. good(N)
  BY <1>1, <1>5
<1>7. first(N) = es
  BY SubSeqFull DEF N
<1>. QED BY <1>2, <1>6, <1>7

-----------------------------------------------------------------------------
(***************************************************************************)
(* Ends of sequences.                                                      *)
(***************************************************************************)
LEMMA EndIsSuffix ==
    ASSUME NEW q \in Seq(EventLine), NEW r \in Seq(EventLine), EndsWith(r, q)
    PROVE  IsSuffix(q, r)
<1>1. Len(q) \in Nat /\ Len(r) \in Nat
  BY LenProperties
<1>. DEFINE p == Reverse(q)
            t == Reverse(r)
<1>2. /\ \A i \in 1..Len(q) : p[i] = q[(Len(q) - i) + 1]
      /\ \A i \in 1..Len(r) : t[i] = r[(Len(r) - i) + 1]
  BY Zenon DEF Reverse
<1>3. p \in Seq(EventLine) /\ t \in Seq(EventLine) /\ Len(p) = Len(q) /\ Len(t) = Len(r)
  <2>0. /\ \A i \in 1..Len(q) : (Len(q) - i) + 1 \in 1..Len(q)
        /\ \A i \in 1..Len(r) : (Len(r) - i) + 1 \in 1..Len(r)
    BY <1>1
  <2>1. p \in [1..Len(q) -> EventLine] /\ t \in [1..Len(r) -> EventLine]
    BY <2>0, Elements, Zenon DEF Reverse
  <2>. HIDE DEF p, t
  <2>. QED BY <1>1, <2>1, FunctionIsSeq
<1>4. IsSuffix(q, r) <=> Len(p) <= Len(t) /\ SubSeq(p, 1, Len(p)) = SubSeq(t, 1, Len(p))
  BY Zenon DEF IsSuffix, IsPrefix
<1>. HIDE DEF p, t
<1>5. /\ SubSeq(p, 1, Len(p)) = p
      /\ SubSeq(t, 1, Len(p)) \in Seq(EventLine) /\ Len(SubSeq(t, 1, Len(p))) = Len(p)
      /\ \A i \in 1..Len(p) : SubSeq(t, 1, Len(p))[i] = t[i]
  <2>1. Len(p) \in 0..Len(t)
    BY <1>1, <1>3 DEF EndsWith
  <2>. QED BY <1>3, <2>1, FrontPart, SubSeqFull
<1>6. ASSUME NEW i \in 1..Len(p) PROVE p[i] = SubSeq(t, 1, Len(p))[i]
  <2>1. (Len(q) - i) + 1 \in 1..Len(q) /\ i \in 1..Len(r) /\ i \in 1..Len(q)
    BY <1>1, <1>3 DEF EndsWith
  <2>2. Len(r) - Len(q) + ((Len(q) - i) + 1) = (Len(r) - i) + 1
    BY <1>1, <2>1
  <2>3. q[(Len(q) - i) + 1] = r[Len(r) - Len(q) + ((Len(q) - i) + 1)]
    BY <2>1 DEF EndsWith
  <2>. QED BY <1>2, <1>5, <2>1, <2>2, <2>3
<1>7. p = SubSeq(t, 1, Len(p))
  BY <1>3, <1>5, <1>6, SeqEqual
<1>. QED BY <1>3, <1>4, <1>5, <1>7 DEF EndsWith

\* A sequence is what comes before its end, and its end.
LEMMA BeforeEnd ==
    ASSUME NEW q \in Seq(EventLine), NEW r \in Seq(EventLine), EndsWith(r, q)
    PROVE  Ends(q, r)
<1>1. Len(q) \in Nat /\ Len(r) \in Nat
  BY LenProperties
<1>2. Len(q) <= Len(r) /\ \A i \in 1..Len(q) : q[i] = r[Len(r) - Len(q) + i]
  BY DEF EndsWith
<1>. DEFINE n == Len(r) - Len(q)
<1>3. n \in 0..Len(r) /\ n \in Nat /\ n + Len(q) = Len(r)
  BY <1>1, <1>2
<1>. HIDE DEF n
<1>4a. SubSeq(r, 1, n) \in Seq(EventLine) /\ Len(SubSeq(r, 1, n)) = n /\ \A i \in 1..n : SubSeq(r, 1, n)[i] = r[i]
  BY <1>3, FrontPart
<1>4. PICK p \in Seq(EventLine) : Len(p) = n /\ \A i \in 1..n : p[i] = r[i]
  BY <1>4a, Zenon
<1>. DEFINE a == p \o q
<1>5. /\ a \in Seq(EventLine) /\ Len(a) = Len(p) + Len(q)
      /\ \A i \in 1..Len(p) : a[i] = p[i]
      /\ \A i \in 1..Len(q) : a[Len(p) + i] = q[i]
  BY Joined
<1>. HIDE DEF a
<1>6. ASSUME NEW i \in 1..Len(r) PROVE r[i] = a[i]
  <2>1. i \in 1..n \/ \E k \in 1..Len(q) : i = n + k
    BY <1>1, <1>3, Parts
  <2>2. CASE i \in 1..n
    BY <1>4, <1>5, <2>2
  <2>3. ASSUME NEW k \in 1..Len(q), i = n + k PROVE r[i] = a[i]
    <3>1. q[k] = r[n + k]
      BY <1>2 DEF n
    <3>. QED BY <1>4, <1>5, <2>3, <3>1
  <2>. QED BY <2>1, <2>2, <2>3
<1>7. r = a
  BY <1>3, <1>4, <1>5, <1>6, SeqEqual
<1>. QED BY <1>4, <1>7 DEF a, Ends

\* The rows are of the last of the events given.
LEMMA RowsEnd ==
    ASSUME NEW t \in Table, NEW s \in Seq(EventLine), Shows(t, s)
    PROVE  Events(t.rows) \in Seq(EventLine) /\ EndsWith(s, Events(t.rows))
<1>1. t.rows \in Seq(TableRow) /\ Len(t.rows) \in Nat /\ DOMAIN t.rows = 1..Len(t.rows)
  BY TableParts
<1>. DEFINE v == Events(t.rows)
<1>2. v = [i \in 1..Len(t.rows) |-> t.rows[i].event]
  BY <1>1 DEF Events
<1>3. \A i \in 1..Len(t.rows) : t.rows[i].event \in EventLine
  <2>1. \A x \in TableRow : x.event \in EventLine
    BY DEF TableRow
  <2>2. \A i \in 1..Len(t.rows) : t.rows[i] \in TableRow
    BY <1>1, ElementOfSeq
  <2>. QED BY <2>1, <2>2
<1>4. v \in [1..Len(t.rows) -> EventLine]
  BY <1>2, <1>3
<1>. HIDE DEF v
<1>5. v \in Seq(EventLine) /\ Len(v) = Len(t.rows)
  BY <1>1, <1>4, FunctionIsSeq
<1>6. Len(s) \in Nat /\ MAX_EVENTS \in Nat
  BY LenProperties, MaxEventsAssumption
<1>7. Len(t.rows) = IF Len(s) > MAX_EVENTS THEN MAX_EVENTS ELSE Len(s)
  BY DEF Shows
<1>8. Len(v) <= Len(s)
  BY <1>5, <1>6, <1>7
<1>9. ASSUME NEW i \in 1..Len(v) PROVE v[i] = s[Len(s) - Len(v) + i]
  <2>1. i \in 1..Len(t.rows)
    BY <1>5
  <2>2. t.rows[i] = [event |-> s[Len(s) - Len(t.rows) + i],
                     name |-> Named(s[Len(s) - Len(t.rows) + i], s, Len(s) - Len(t.rows) + i)]
    BY <2>1 DEF Shows
  <2>. QED BY <1>2, <1>5, <2>1, <2>2
<1>10. EndsWith(s, v)
  BY <1>8, <1>9 DEF EndsWith
<1>. QED BY <1>5, <1>10 DEF v

LEMMA LastEventsIs ==
    ASSUME NEW es \in Seq(EventLine)
    PROVE  LastEvents(es) \in Seq(EventLine) /\ EndsWith(es, LastEvents(es))
<1>. DEFINE n == Len(es)
            m == n - MAX_EVENTS + 1
            q == SubSeq(es, m, n)
<1>1. n \in Nat /\ MAX_EVENTS \in Nat /\ MAX_EVENTS > 0
  BY LenProperties, MaxEventsAssumption
<1>2. CASE n > MAX_EVENTS
  <2>1. LastEvents(es) = q
    BY <1>2 DEF LastEvents
  <2>2. m \in Int /\ n \in Int /\ m <= n /\ m > 0 /\ \A i \in m..n : i \in 1..n
    BY <1>1, <1>2
  <2>3. \A i \in m..n : es[i] \in EventLine
    BY <2>2, ElementOfSeq
  <2>. HIDE DEF m
  <2>4. /\ q \in Seq(EventLine) /\ Len(q) = IF m <= n THEN n - m + 1 ELSE 0
        /\ \A i \in 1..(n - m + 1) : q[i] = es[m + i - 1]
    BY <2>2, <2>3, SubSeqProperties
  <2>. HIDE DEF n, q
  <2>5. Len(q) = n - m + 1 /\ Len(q) <= n
    BY <1>1, <2>2, <2>4
  <2>6. \A i \in 1..Len(q) : q[i] = es[n - Len(q) + i]
    <3>. TAKE i \in 1..Len(q)
    <3>1. i \in 1..(n - m + 1) /\ m + i - 1 = n - Len(q) + i
      BY <1>1, <2>2, <2>5
    <3>. QED BY <2>4, <3>1
  <2>. QED BY <2>1, <2>4, <2>5, <2>6 DEF EndsWith, n
<1>3. CASE ~(n > MAX_EVENTS)
  <2>1. LastEvents(es) = es
    BY <1>3 DEF LastEvents
  <2>2. EndsWith(es, es)
    BY <1>1 DEF EndsWith
  <2>. QED BY <2>1, <2>2
<1>. QED BY <1>2, <1>3

\* set_events shows the last of what it is given.
LEMMA SetRows ==
    ASSUME NEW es \in Seq(EventLine)
    PROVE  SetEvents(es) \in Table /\ Shows(SetEvents(es), LastEvents(es))
<1>1. LastEvents(es) \in Seq(EventLine) /\ <<>> \in Seq(EventLine)
  BY LastEventsIs
<1>2. /\ AppendEvents(Cleared, LastEvents(es)) \in Table
      /\ Shows(AppendEvents(Cleared, LastEvents(es)), <<>> \o LastEvents(es))
  BY <1>1, EmptyTable, MoreRows
<1>3. <<>> \o LastEvents(es) = LastEvents(es)
  BY <1>1, ConcatEmptySeq
<1>. QED BY <1>2, <1>3 DEF SetEvents

-----------------------------------------------------------------------------
(***************************************************************************)
(* What is read of a file.                                                 *)
(***************************************************************************)
LEMMA Writes ==
    ASSUME NEW w \in FileWrite
    PROVE  /\ w.line \in Line /\ w.form \in {"whole", "open", "torn"}
           /\ w.line.kind = "event" => w.line \in EventLine
BY DEF FileWrite, Line, EventLine, MetadataLine

LEMMA LoadedListing ==
    ASSUME NEW f \in Seq(FileWrite)
    PROVE  /\ LoadedEvents(f) \in Seq(EventLine)
           /\ EventPlaces(f) \in SUBSET (1..Len(f))
           /\ \E g : /\ Enumerates(g, Len(LoadedEvents(f)), EventPlaces(f))
                     /\ \A k \in 1..Len(LoadedEvents(f)) : LoadedEvents(f)[k] = f[g[k]].line
<1>. DEFINE I == EventPlaces(f)
            taken == ElementsAt(f, I)
            n == Cardinality(I)
<1>1. Len(f) \in Nat /\ DOMAIN f = 1..Len(f) /\ \A i \in 1..Len(f) : f[i] \in FileWrite
  BY Elements
<1>2. I \in SUBSET (1..Len(f)) /\ I \in SUBSET Nat /\ \A i \in I : f[i].line \in EventLine
  <2>1. I \in SUBSET (1..Len(f)) /\ \A i \in I : f[i].line.kind = "event"
    BY <1>1 DEF EventPlaces
  <2>. HIDE DEF I
  <2>. QED BY <1>1, <2>1, Writes
<1>. HIDE DEF I
<1>3. PICK g : n \in Nat /\ Enumerates(g, n, I)
  BY <1>1, <1>2, Listing
<1>. HIDE DEF n
<1>4. DOMAIN taken = 1..n /\ \A k \in 1..n : taken[k] = f[g[k]]
  <2>1. Picks(taken, f, g, n)
    BY <1>2, <1>3, ElementsListed
  <2>. QED BY <2>1, Zenon DEF Picks
<1>5. LoadedEvents(f) = [k \in DOMAIN taken |-> taken[k].line]
  BY Zenon DEF LoadedEvents, I
<1>. HIDE DEF taken
<1>6. \A k \in 1..n : f[g[k]].line \in EventLine
  <2>1. g \in [1..n -> I]
    BY <1>3 DEF Enumerates
  <2>. QED BY <1>2, <2>1
<1>7. LoadedEvents(f) \in [1..n -> EventLine] /\ \A k \in 1..n : LoadedEvents(f)[k] = f[g[k]].line
  BY <1>4, <1>5, <1>6
<1>8. LoadedEvents(f) \in Seq(EventLine) /\ Len(LoadedEvents(f)) = n
  BY <1>3, <1>7, FunctionIsSeq
<1>. QED BY <1>2, <1>3, <1>7, <1>8 DEF I

\* What is read are the events of the lines that are JSON.
LEMMA LoadedRange ==
    ASSUME NEW f \in Seq(FileWrite), NEW i \in EventPlaces(f)
    PROVE  f[i].line \in Range(LoadedEvents(f))
<1>1. PICK g : /\ Enumerates(g, Len(LoadedEvents(f)), EventPlaces(f))
               /\ \A k \in 1..Len(LoadedEvents(f)) : LoadedEvents(f)[k] = f[g[k]].line
  BY LoadedListing
<1>2. PICK k \in 1..Len(LoadedEvents(f)) : g[k] = i
  BY <1>1 DEF Enumerates
<1>3. LoadedEvents(f) \in Seq(EventLine) /\ LoadedEvents(f)[k] = f[i].line
  BY <1>1, <1>2, LoadedListing
<1>. QED BY <1>3, InRange

PlacesOf(f, r) == {i \in EventPlaces(f) : f[i].line.run = r}

\* There is one listing of a set.
LEMMA SameListing ==
    ASSUME NEW n \in Nat, NEW I \in SUBSET Nat, NEW c, NEW d, Enumerates(c, n, I), Enumerates(d, n, I), NEW s
    PROVE  \A k \in 1..n : s[c[k]] = s[d[k]]
<1>1. Picks(ElementsAt(s, I), s, c, n) /\ Picks(ElementsAt(s, I), s, d, n)
  BY ElementsListed
<1>. QED BY <1>1, Zenon DEF Picks

\* What is read of a capture are the events of its own lines.
LEMMA LoadedOfCapture ==
    ASSUME file \in Seq(FileWrite), NEW r, NEW n \in Nat, NEW d, Enumerates(d, n, PlacesOf(file, r))
    PROVE  /\ Loaded(r) \in Seq(EventLine) /\ Len(Loaded(r)) = n
           /\ \A k \in 1..n : Loaded(r)[k] = file[d[k]].line
<1>. DEFINE L == LoadedEvents(file)
            J == {k \in DOMAIN L : L[k].run = r}
            m == Cardinality(J)
            P == PlacesOf(file, r)
<1>1. PICK g : /\ Enumerates(g, Len(L), EventPlaces(file))
               /\ \A k \in 1..Len(L) : L[k] = file[g[k]].line
  BY LoadedListing
<1>2. L \in Seq(EventLine) /\ Len(L) \in Nat /\ DOMAIN L = 1..Len(L) /\ \A k \in 1..Len(L) : L[k] \in EventLine
  BY LoadedListing, Elements
<1>3. Loaded(r) = ElementsAt(L, J)
  BY Zenon DEF Loaded
<1>4. P \in SUBSET Nat /\ \A i \in P : i \in EventPlaces(file) /\ file[i].line.run = r /\ i \in Nat
  BY LoadedListing DEF PlacesOf
<1>. HIDE DEF L
<1>5. J \in SUBSET (1..Len(L)) /\ J \in SUBSET Nat /\ \A k \in J : k \in 1..Len(L) /\ k \in Nat /\ L[k].run = r
  BY <1>2
<1>6. \A k \in 1..Len(L) : L[k].run = r => k \in J
  BY <1>2
<1>. HIDE DEF J
<1>7. PICK h : m \in Nat /\ Enumerates(h, m, J)
  BY <1>2, <1>5, Listing
<1>. HIDE DEF m
<1>8. DOMAIN Loaded(r) = 1..m /\ \A k \in 1..m : Loaded(r)[k] = L[h[k]]
  <2>1. Picks(ElementsAt(L, J), L, h, m)
    <3>1. J \in SUBSET Nat /\ m \in Nat /\ Enumerates(h, m, J)
      BY <1>5, <1>7, Zenon
    <3>. QED BY <3>1, ElementsListed
  <2>. QED BY <1>3, <2>1, Zenon DEF Picks
<1>9. \A k \in 1..m : h[k] \in J
  BY <1>7 DEF Enumerates
<1>. DEFINE c == [k \in 1..m |-> g[h[k]]]
<1>10. \A k \in 1..m : c[k] = g[h[k]] /\ h[k] \in 1..Len(L) /\ c[k] \in P /\ L[h[k]] = file[c[k]].line
  <2>. TAKE k \in 1..m
  <2>1. h[k] \in 1..Len(L) /\ L[h[k]].run = r
    BY <1>5, <1>9
  <2>2. g[h[k]] \in EventPlaces(file) /\ L[h[k]] = file[g[h[k]]].line
    BY <1>1, <2>1 DEF Enumerates
  <2>. QED BY <2>1, <2>2 DEF PlacesOf
<1>11. Enumerates(c, m, P)
  <2>1. c \in [1..m -> P]
    BY <1>10
  <2>. HIDE DEF c
  <2>2. \A k, l \in 1..m : k < l => c[k] < c[l]
    <3>. SUFFICES ASSUME NEW k \in 1..m, NEW l \in 1..m, k < l PROVE c[k] < c[l]
      OBVIOUS
    <3>1. h[k] < h[l]
      BY <1>7 DEF Enumerates
    <3>2. g[h[k]] < g[h[l]]
      BY <1>1, <1>10, <3>1 DEF Enumerates
    <3>. QED BY <1>10, <3>2
  <2>3. \A i \in P : \E k \in 1..m : c[k] = i
    <3>. TAKE i \in P
    <3>1. i \in EventPlaces(file) /\ file[i].line.run = r
      BY <1>4
    <3>2. PICK j \in 1..Len(L) : g[j] = i
      BY <1>1, <3>1 DEF Enumerates
    <3>3. j \in J
      BY <1>1, <1>6, <3>1, <3>2
    <3>4. PICK k \in 1..m : h[k] = j
      BY <1>7, <3>3 DEF Enumerates
    <3>. QED BY <1>10, <3>2, <3>4
  <2>. QED BY <2>1, <2>2, <2>3 DEF Enumerates
<1>. HIDE DEF c
<1>. HIDE DEF P
<1>12. m = n
  <2>1. Cardinality(P) = m
    BY <1>4, <1>7, <1>11, ListedCount
  <2>2. Enumerates(d, n, P)
    BY DEF P
  <2>3. Cardinality(P) = n
    BY <1>4, <2>2, ListedCount
  <2>. QED BY <2>1, <2>3
<1>13. \A k \in 1..n : file[c[k]] = file[d[k]]
  <2>1. P \in SUBSET Nat /\ Enumerates(c, n, P)
    BY <1>4, <1>11, <1>12
  <2>2. Enumerates(d, n, P)
    BY DEF P
  <2>. QED BY <2>1, <2>2, SameListing
<1>14. \A k \in 1..n : Loaded(r)[k] = file[d[k]].line /\ Loaded(r)[k] \in EventLine
  <2>. TAKE k \in 1..n
  <2>1. Loaded(r)[k] = L[h[k]] /\ L[h[k]] = file[c[k]].line /\ h[k] \in 1..Len(L)
    BY <1>8, <1>10, <1>12
  <2>. QED BY <1>2, <1>13, <2>1
<1>15. Loaded(r) \in [1..n -> EventLine]
  <2>1. Loaded(r) = [k \in DOMAIN Loaded(r) |-> Loaded(r)[k]]
    BY <1>3 DEF ElementsAt
  <2>. QED BY <1>8, <1>12, <1>14, <2>1
<1>16. Loaded(r) \in Seq(EventLine) /\ Len(Loaded(r)) = n
  BY <1>15, FunctionIsSeq
<1>. QED BY <1>14, <1>16

\* The safe events of a capture are read back.
LEMMA SafeIsRead ==
    ASSUME NEW f \in Seq(FileWrite), NEW r, NEW a \in Seq(EventLine), NEW s \in Nat, NEW b \in 0..Len(f),
           LogOf(f, r, a, s, b), NEW k \in 1..s
    PROVE  b + k \in EventPlaces(f) /\ f[b + k].line = a[k]
<1>1. Len(f) \in Nat /\ Len(a) \in Nat /\ DOMAIN f = 1..Len(f)
  BY LenProperties
<1>2. b + s <= Len(f) /\ s <= Len(a) /\ b > 0 /\ f[b].form = "whole"
  BY DEF LogOf
<1>3. \A l \in 1..s : f[b + l] = Written(a[l], "whole")
  BY DEF LogOf
<1>4. b + k \in 1..Len(f) /\ k \in 1..Len(a)
  BY <1>1, <1>2
<1>5. f[b + k].form = "whole" /\ f[b + k].line = a[k]
  <2>1. f[b + k] = Written(a[k], "whole")
    BY <1>3
  <2>. QED BY <2>1 DEF Written
<1>6. a[k].kind = "event"
  <2>1. a[k] \in EventLine
    BY <1>4, ElementOfSeq
  <2>. QED BY <2>1 DEF EventLine
<1>7. f[(b + k) - 1].form = "whole"
  <2>1. CASE k = 1
    <3>1. (b + k) - 1 = b
      BY <2>1
    <3>. QED BY <1>2, <3>1
  <2>2. CASE k # 1
    <3>1. k - 1 \in 1..s /\ (b + k) - 1 = b + (k - 1)
      BY <2>2
    <3>2. f[b + (k - 1)] = Written(a[k - 1], "whole")
      BY <1>3, <3>1
    <3>. QED BY <3>1, <3>2 DEF Written
  <2>. QED BY <2>1, <2>2
<1>. DEFINE i == b + k
<1>8. Parses(f, i)
  BY <1>5, <1>7 DEF Parses, StartsLine, EndsLine
<1>. QED BY <1>1, <1>4, <1>5, <1>6, <1>8 DEF EventPlaces

\* What is read of a capture is how it began, with all that is safe.
LEMMA CaptureIsRead ==
    ASSUME file \in Seq(FileWrite), NEW r, NEW a \in Seq(EventLine), NEW s \in Nat, NEW b \in 0..Len(file),
           LogOf(file, r, a, s, b), \A k \in 1..Len(a) : a[k].run = r
    PROVE  IsPrefix(Loaded(r), a) /\ Len(Loaded(r)) >= s
<1>. DEFINE P == PlacesOf(file, r)
            More == {i \in P : i > b + s}
<1>1. Len(file) \in Nat /\ Len(a) \in Nat /\ DOMAIN file = 1..Len(file) /\ s <= Len(a)
  BY LenProperties DEF LogOf
<1>2. \A i \in P : i \in 1..Len(file) /\ i \in Nat /\ EventOf(file[i].line, r) /\ Parses(file, i) /\ i \in DOMAIN file
  BY <1>1 DEF PlacesOf, EventPlaces, EventOf
<1>3. \A k \in 1..s : b + k \in P /\ file[b + k].line = a[k]
  <2>1. ASSUME NEW k \in 1..s PROVE b + k \in EventPlaces(file) /\ file[b + k].line = a[k] /\ a[k].run = r
    <3>1. k \in 1..Len(a)
      BY <1>1
    <3>2. b + k \in EventPlaces(file) /\ file[b + k].line = a[k]
      BY SafeIsRead, Zenon
    <3>. QED BY <3>1, <3>2
  <2>. QED BY <2>1 DEF PlacesOf
<1>4. ASSUME NEW i \in P PROVE i \in (b + 1)..(b + s) \/ i \in More
  <2>1. i \in 1..Len(file) /\ i \in DOMAIN file /\ EventOf(file[i].line, r)
    BY <1>2
  <2>2. i \notin (b + 1)..(b + s) => i > b + s
    BY <2>1 DEF LogOf
  <2>. QED BY <2>2
<1>5. ASSUME NEW i \in More PROVE s < Len(a) /\ file[i].line = a[s + 1]
  <2>1. i \in 1..Len(file) /\ i \in DOMAIN file /\ EventOf(file[i].line, r) /\ i > b + s
    BY <1>2
  <2>2. i \notin (b + 1)..(b + s)
    BY <2>1
  <2>. QED BY <2>1, <2>2 DEF LogOf
<1>6. ASSUME NEW i \in More, NEW j \in More, i < j PROVE FALSE
  <2>1. /\ i \in 1..Len(file) /\ i \in DOMAIN file /\ EventOf(file[i].line, r) /\ Parses(file, i) /\ i > b + s
        /\ j \in 1..Len(file) /\ j \in DOMAIN file /\ EventOf(file[j].line, r)
    BY <1>2
  <2>2. file[i].form # "whole"
    BY <1>6, <2>1 DEF LogOf
  <2>3. i # Len(file)
    BY <1>1, <1>6, <2>1
  <2>. QED BY <2>1, <2>2, <2>3 DEF Parses, EndsLine
<1>7. \A i \in More : i \in P /\ i \in Nat /\ i > b + s
  BY <1>2
<1>8. P \in SUBSET Nat
  BY <1>2
<1>. HIDE DEF P, More
<1>9. \E n \in {s, s + 1} : n <= Len(a) /\ \E d : Enumerates(d, n, P) /\ \A k \in 1..n : file[d[k]].line = a[k]
  <2>1. CASE More = {}
    <3>. DEFINE d == [k \in 1..s |-> b + k]
    <3>1. d \in [1..s -> P] /\ \A k \in 1..s : file[d[k]].line = a[k]
      BY <1>3
    <3>2. \A k, m \in 1..s : k < m => d[k] < d[m]
      OBVIOUS
    <3>3. \A i \in P : \E k \in 1..s : d[k] = i
      <4>. TAKE i \in P
      <4>1. i \in (b + 1)..(b + s)
        BY <1>4, <2>1
      <4>2. i - b \in 1..s /\ d[i - b] = i
        BY <4>1
      <4>. QED BY <4>2
    <3>4. Enumerates(d, s, P)
      BY <3>1, <3>2, <3>3 DEF Enumerates
    <3>. QED BY <1>1, <3>1, <3>4
  <2>2. CASE More # {}
    <3>1. PICK j : j \in More
      BY <2>2
    <3>2. \A i \in More : i = j
      <4>. TAKE i \in More
      <4>1. ~(i < j) /\ ~(j < i)
        BY <1>6, <3>1
      <4>. QED BY <1>7, <3>1, <4>1
    <3>. DEFINE d == [k \in 1..(s + 1) |-> IF k = s + 1 THEN j ELSE b + k]
    <3>3. \A k \in 1..(s + 1) : k = s + 1 \/ k \in 1..s
      OBVIOUS
    <3>4. d[s + 1] = j /\ s + 1 \in 1..(s + 1) /\ \A k \in 1..s : d[k] = b + k /\ k \in 1..(s + 1)
      OBVIOUS
    <3>5. j \in P /\ j \in Nat /\ j > b + s /\ file[j].line = a[s + 1] /\ s < Len(a)
      BY <1>5, <1>7, <3>1
    <3>6. d \in [1..(s + 1) -> P]
      BY <1>3, <3>3, <3>5
    <3>. HIDE DEF d
    <3>7. \A k \in 1..(s + 1) : file[d[k]].line = a[k]
      BY <1>3, <3>3, <3>4, <3>5
    <3>8. \A k, m \in 1..(s + 1) : k < m => d[k] < d[m]
      <4>. SUFFICES ASSUME NEW k \in 1..(s + 1), NEW m \in 1..(s + 1), k < m PROVE d[k] < d[m]
        OBVIOUS
      <4>1. k \in 1..s /\ d[k] = b + k
        BY <3>4
      <4>2. CASE m = s + 1
        BY <3>4, <3>5, <4>1, <4>2
      <4>3. CASE m \in 1..s
        BY <3>4, <4>1, <4>3
      <4>. QED BY <3>3, <4>2, <4>3
    <3>9. \A i \in P : \E k \in 1..(s + 1) : d[k] = i
      <4>. TAKE i \in P
      <4>1. CASE i \in More
        BY <3>2, <3>4, <4>1
      <4>2. CASE i \in (b + 1)..(b + s)
        <5>1. i - b \in 1..s /\ b + (i - b) = i
          BY <4>2
        <5>. QED BY <3>4, <5>1
      <4>. QED BY <1>4, <4>1, <4>2
    <3>10. Enumerates(d, s + 1, P)
      BY <3>6, <3>8, <3>9 DEF Enumerates
    <3>11. s + 1 <= Len(a)
      BY <1>1, <3>5
    <3>. QED BY <3>7, <3>10, <3>11
  <2>. QED BY <2>1, <2>2
<1>10. PICK n \in {s, s + 1} : n <= Len(a) /\ \E d : Enumerates(d, n, P) /\ \A k \in 1..n : file[d[k]].line = a[k]
  BY <1>9
<1>11. PICK d : Enumerates(d, n, P) /\ \A k \in 1..n : file[d[k]].line = a[k]
  BY <1>10
<1>12. n \in Nat /\ n >= s /\ n <= Len(a)
  BY <1>10
<1>. DEFINE L == Loaded(r)
<1>13. L \in Seq(EventLine) /\ Len(L) = n /\ \A k \in 1..n : L[k] = a[k]
  BY <1>11, <1>12, LoadedOfCapture DEF P
<1>. HIDE DEF L
<1>14. SubSeq(L, 1, Len(L)) = L
  BY <1>13, SubSeqFull
<1>15. /\ SubSeq(a, 1, n) \in Seq(EventLine) /\ Len(SubSeq(a, 1, n)) = n
       /\ \A k \in 1..n : SubSeq(a, 1, n)[k] = a[k]
  <2>1. n \in 0..Len(a)
    BY <1>1, <1>12
  <2>. QED BY <2>1, FrontPart
<1>16. L = SubSeq(a, 1, n)
  BY <1>13, <1>15, SeqEqual
<1>17. IsPrefix(L, a)
  BY <1>12, <1>13, <1>14, <1>16 DEF IsPrefix
<1>. QED BY <1>12, <1>13, <1>17 DEF L

-----------------------------------------------------------------------------
(***************************************************************************)
(* Every variable has its type.                                            *)
(***************************************************************************)
\* What a step of the viewer leaves alone, and what a step of the engine does.
Quiet == UNCHANGED <<bound, process, recorder>>
Watching == UNCHANGED <<queue, window>>

LEMMA EngineStays == ASSUME EngineTyped, UNCHANGED <<bound, process>> PROVE EngineTyped'
BY DEF EngineTyped, process

LEMMA RecorderStays == ASSUME RecorderTyped, UNCHANGED <<bound, recorder>> PROVE RecorderTyped'
BY DEF RecorderTyped, recorder, Runs, NoRun

LEMMA ViewerStays == ASSUME ViewerTyped, UNCHANGED <<connection, queue, window>> PROVE ViewerTyped'
BY DEF ViewerTyped, connection, window

\* The actions by what they leave alone.
LEMMA StepParts ==
    ASSUME Next
    PROVE  /\ bound' = bound
           /\ Engine \/ WorkerThread \/ Window
           /\ WorkerThread \/ Window => Quiet
           /\ WorkerThread => UNCHANGED window
           /\ Engine => Watching
<1>1. ASSUME Engine PROVE Watching
  BY <1>1 DEF Engine, StartEngine, StopEngine, Crash, StartCapture, NewEvent, Write, WriteFails, WriteIgnored,
     Broadcast, StopCapture, Watching
<1>2. ASSUME WorkerThread, bound' = bound PROVE Quiet /\ UNCHANGED window
  BY <1>2 DEF WorkerThread, LinkUp, Announce, Deliver, WorkerEnds, Quiet
<1>3. ASSUME Window, bound' = bound PROVE Quiet
  BY <1>3 DEF Window, ClickAttach, ClickDetach, ClickClear, TogglePause, OpenLogFile, OnConnected,
     OnDisconnected, OnEventReceived, Quiet
<1>. QED BY <1>1, <1>2, <1>3 DEF Next

LEMMA EngineTypedStep == ASSUME EngineTyped, Next PROVE EngineTyped'
<1>1. bound' = bound /\ bound \in Workload
  BY StepParts DEF EngineTyped
<1>2. CASE WorkerThread \/ Window
  BY <1>2, StepParts, EngineStays DEF Quiet
<1>3. CASE StartEngine
  BY <1>1, <1>3 DEF StartEngine, EngineTyped
<1>4. CASE StopEngine \/ Crash
  BY <1>1, <1>4 DEF StopEngine, Crash, EngineTyped
<1>5. CASE NewEvent
  BY <1>1, <1>5 DEF NewEvent, EngineTyped
<1>6. CASE StartCapture \/ Write \/ WriteFails \/ WriteIgnored \/ Broadcast \/ StopCapture
  BY <1>1, <1>6, EngineStays DEF StartCapture, Write, WriteFails, WriteIgnored, Broadcast, StopCapture
<1>. QED BY <1>2, <1>3, <1>4, <1>5, <1>6, StepParts DEF Engine

\* The line a call of the sink is about, and the capture it is of.
LEMMA CallTyped ==
    ASSUME EngineTyped, RecorderTyped, CallIsOfTheRun, call.at # "none"
    PROVE  /\ call.at \in {"record", "broadcast"} /\ call.line \in Line
           /\ call.line.kind = "event" => call.line \in EventLine
           /\ call.line.kind # "event" => call.line.kind = "metadata"
           /\ run \in Runs /\ run = captures /\ run \in Nat \ {0}
<1>1. call.at \in {"record", "broadcast"} /\ call.line \in Line
  BY DEF RecorderTyped
<1>2. \A x \in Line : /\ x.kind = "event" => x \in EventLine
                      /\ x.kind # "event" => x.kind = "metadata"
  BY DEF Line, EventLine, MetadataLine
<1>3. run \in Runs /\ run = captures /\ run \in Nat \ {0}
  BY DEF CallIsOfTheRun, RecorderTyped, EngineTyped, Workload, Runs, NoRun
<1>. QED BY <1>1, <1>2, <1>3

\* The call there is once record() has returned.
LEMMA ReturnedCall ==
    ASSUME EngineTyped, RecorderTyped, CallIsOfTheRun, call.at # "none", RecordReturns
    PROVE  /\ call' \in [at : {"none"}] \cup [at : {"record", "broadcast"}, line : Line]
           /\ call.line.kind = "event" => call' = [at |-> "broadcast", line |-> call.line]
           /\ call.line.kind # "event" => call' = NoCall
<1>1. call \in [at : {"record", "broadcast"}, line : Line]
  BY DEF RecorderTyped
<1>. QED BY <1>1 DEF RecordReturns, NoCall

\* A run in progress.
LEMMA RunTyped ==
    ASSUME EngineTyped, RecorderTyped, run # NoRun
    PROVE  /\ run \in Runs /\ run = captures /\ run \in Nat \ {0}
           /\ attempted[run] \in Seq(EventLine) /\ safe[run] \in Nat /\ Len(attempted[run]) \in Nat
<1>1. run \in Runs /\ run = captures /\ run \in Nat \ {0}
  BY DEF RecorderTyped, EngineTyped, Workload, Runs, NoRun
<1>2. attempted[run] \in Seq(EventLine) /\ safe[run] \in Nat
  BY <1>1 DEF RecorderTyped
<1>. QED BY <1>1, <1>2, LenProperties

\* The event the sink is called with next.
NewOf(e) ==
    /\ e \in EventLine /\ e = Event(run, counter, e.parent)
    /\ e.run = run /\ e.seq = counter /\ e.kind = "event"
    /\ e.parent = NoParent \/ \E i \in 1..Len(attempted[run]) : e.parent = attempted[run][i].seq

LEMMA NewEventIs ==
    ASSUME EngineTyped, RecorderTyped, NewEvent
    PROVE  \E e : /\ NewOf(e) /\ call' = [at |-> "record", line |-> e]
                  /\ attempted' = [attempted EXCEPT ![run] = Append(@, e)]
<1>1. run # NoRun
  BY DEF NewEvent
<1>2. /\ run \in Runs /\ run \in Nat \ {0} /\ attempted[run] \in Seq(EventLine) /\ Len(attempted[run]) \in Nat
      /\ DOMAIN attempted[run] = 1..Len(attempted[run])
  BY <1>1, RunTyped, Elements
<1>. DEFINE Raw == {k \in DOMAIN attempted[run] : attempted[run][k].parent = NoParent}
            Parents == {NoParent} \cup {attempted[run][i].seq : i \in Raw}
<1>3. PICK parent \in Parents :
          /\ call' = [at |-> "record", line |-> Event(run, counter, parent)]
          /\ attempted' = [attempted EXCEPT ![run] = Append(@, Event(run, counter, parent))]
  BY DEF NewEvent
<1>4. parent \in Nat /\ (parent = NoParent \/ \E i \in 1..Len(attempted[run]) : parent = attempted[run][i].seq)
  <2>1. parent = NoParent \/ \E i \in 1..Len(attempted[run]) : parent = attempted[run][i].seq
    BY <1>2
  <2>2. \A i \in 1..Len(attempted[run]) : attempted[run][i] \in EventLine
    BY <1>2, ElementOfSeq
  <2>3. \A e \in EventLine : e.seq \in Nat
    BY DEF EventLine
  <2>. QED BY <2>1, <2>2, <2>3 DEF NoParent
<1>5. counter \in Nat \ {0}
  BY DEF EngineTyped
<1>. DEFINE e == Event(run, counter, parent)
<1>6. /\ e \in EventLine /\ e.parent = parent /\ e.run = run /\ e.seq = counter /\ e.kind = "event"
      /\ e = Event(run, counter, e.parent)
  BY <1>2, <1>4, <1>5 DEF Event, EventLine
<1>7. NewOf(e)
  BY <1>4, <1>6 DEF NewOf
<1>. QED BY <1>3, <1>7

\* A failing write leaves a file that is the same, or has one more write.
LEMMA InterruptedFile ==
    ASSUME NEW f \in Seq(FileWrite), NEW x \in Line, NEW g \in Interrupted(f, x)
    PROVE  g \in Seq(FileWrite) /\ (g = f \/ \E form \in {"open", "torn"} : g = Append(f, Written(x, form)))
<1>1. g = f \/ \E form \in {"open", "torn"} : g = Append(f, Written(x, form))
  BY DEF Interrupted
<1>2. \A form \in {"open", "torn"} : Written(x, form) \in FileWrite
  BY DEF Written, FileWrite
<1>. QED BY <1>1, <1>2, AppendProperties

LEMMA WholeFile ==
    ASSUME NEW f \in Seq(FileWrite), NEW x \in Line
    PROVE  Written(x, "whole") \in FileWrite /\ Append(f, Written(x, "whole")) \in Seq(FileWrite)
<1>1. Written(x, "whole") \in FileWrite
  BY DEF Written, FileWrite
<1>. QED BY <1>1, AppendProperties

LEMMA OneLine == \A x \in Line : <<x>> \in Seq(Line) /\ <<>> \in Seq(Line)
<1>. TAKE x \in Line
<1>1. <<>> \in Seq(Line)
  OBVIOUS
<1>2. <<x>> = Append(<<>>, x)
  OBVIOUS
<1>. QED BY <1>1, <1>2, AppendProperties

LEMMA StreamsTyped ==
    /\ Closed \in [open : BOOLEAN, failed : BOOLEAN, held : Seq(Line)]
    /\ Opened \in [open : BOOLEAN, failed : BOOLEAN, held : Seq(Line)]
    /\ ~Opened.failed /\ Opened.held = <<>>
<1>1. Closed \in [open : BOOLEAN, failed : BOOLEAN, held : Seq(Line)]
  BY DEF Closed
<1>2. ~Closed.failed /\ Closed.held = <<>>
  BY DEF Closed
<1>3. /\ Opened \in [open : BOOLEAN, failed : BOOLEAN, held : Seq(Line)]
      /\ Opened.failed = Closed.failed /\ Opened.held = Closed.held
  BY <1>1 DEF Opened
<1>. QED BY <1>1, <1>2, <1>3

LEMMA RecorderTypedStep ==
    ASSUME EngineTyped, RecorderTyped, CallIsOfTheRun, Next
    PROVE  RecorderTyped'
<1>1. bound' = bound /\ bound \in Workload /\ Runs' = Runs
  BY StepParts DEF EngineTyped, Runs
<1>2. CASE WorkerThread \/ Window
  BY <1>2, StepParts, RecorderStays DEF Quiet
<1>3. CASE StartEngine \/ StopEngine
  BY <1>1, <1>3, RecorderStays DEF StartEngine, StopEngine
<1>4. CASE Crash
  <2>1. file' \in Seq(FileWrite)
    <3>1. CASE call.at = "record" /\ ~stream.failed
      <4>1. file \in Seq(FileWrite) /\ call.line \in Line /\ file' \in Interrupted(file, call.line)
        BY <1>4, <3>1, CallTyped DEF Crash, RecorderTyped
      <4>. QED BY <4>1, InterruptedFile
    <3>2. CASE ~(call.at = "record" /\ ~stream.failed)
      BY <1>4, <3>2 DEF Crash, RecorderTyped
    <3>. QED BY <3>1, <3>2
  <2>2. stream' \in [open : BOOLEAN, failed : BOOLEAN, held : Seq(Line)]
    BY <1>4 DEF Crash, Closed
  <2>3. /\ captures' = captures /\ run' = NoRun /\ call' = NoCall
        /\ attempted' = attempted /\ safe' = safe /\ failed' = failed
    BY <1>4 DEF Crash
  <2>. QED BY <1>1, <2>1, <2>2, <2>3 DEF RecorderTyped, NoCall
<1>5. CASE StartCapture
  <2>1. captures' \in 0..bound.captures /\ captures + 1 \in Nat \ {0}
    BY <1>1, <1>5 DEF StartCapture, RecorderTyped, Workload
  <2>2. stream' \in [open : BOOLEAN, failed : BOOLEAN, held : Seq(Line)]
    BY <1>5, StreamsTyped DEF StartCapture
  <2>3. call' \in [at : {"record", "broadcast"}, line : Line]
    BY <1>5, <2>1 DEF StartCapture, Metadata, Line, MetadataLine
  <2>4. run' = captures' /\ file' = file /\ attempted' = attempted /\ safe' = safe /\ failed' = failed
    BY <1>5 DEF StartCapture
  <2>. QED BY <1>1, <2>1, <2>2, <2>3, <2>4 DEF RecorderTyped
<1>6. CASE NewEvent
  <2>1. PICK e : /\ NewOf(e) /\ call' = [at |-> "record", line |-> e]
                 /\ attempted' = [attempted EXCEPT ![run] = Append(@, e)]
    BY <1>6, NewEventIs
  <2>2. e \in EventLine /\ e \in Line
    BY <2>1 DEF NewOf, Line
  <2>3. attempted[run] \in Seq(EventLine)
    BY <1>6, RunTyped DEF NewEvent
  <2>4. Append(attempted[run], e) \in Seq(EventLine)
    BY <2>2, <2>3, AppendProperties
  <2>5. attempted \in [Runs -> Seq(EventLine)]
    BY DEF RecorderTyped
  <2>6. attempted' \in [Runs -> Seq(EventLine)]
    BY <2>1, <2>4, <2>5
  <2>7. call' \in [at : {"record", "broadcast"}, line : Line]
    BY <2>1, <2>2
  <2>. QED BY <1>1, <1>6, <2>6, <2>7 DEF NewEvent, RecorderTyped
<1>7. CASE Write \/ WriteFails \/ WriteIgnored
  <2>1. call.at = "record" /\ call.at # "none" /\ RecordReturns
    BY <1>7 DEF Write, WriteFails, WriteIgnored
  <2>2. call' \in [at : {"none"}] \cup [at : {"record", "broadcast"}, line : Line]
    BY <2>1, ReturnedCall
  <2>3. call.line \in Line /\ run \in Runs
    BY <2>1, CallTyped
  <2>4. captures' = captures /\ run' = run /\ attempted' = attempted
    BY <1>7 DEF Write, WriteFails, WriteIgnored
  <2>5. safe' \in [Runs -> Nat] /\ failed' \subseteq Runs
    <3>1. safe \in [Runs -> Nat] /\ failed \subseteq Runs
      BY DEF RecorderTyped
    <3>2. CASE Write
      <4>1. safe[run] + 1 \in Nat
        BY <2>3, <3>1
      <4>2. failed' = failed /\ safe' \in {safe, [safe EXCEPT ![run] = safe[run] + 1]}
        BY <3>2 DEF Write
      <4>. QED BY <3>1, <4>1, <4>2
    <3>3. CASE WriteFails \/ WriteIgnored
      BY <2>3, <3>1, <3>3 DEF WriteFails, WriteIgnored
    <3>. QED BY <1>7, <3>2, <3>3
  <2>6. file' \in Seq(FileWrite)
    <3>1. file \in Seq(FileWrite)
      BY DEF RecorderTyped
    <3>2. CASE Write
      BY <2>3, <3>1, <3>2, WholeFile DEF Write
    <3>3. CASE WriteFails
      <4>1. file' \in Interrupted(file, call.line)
        BY <3>3 DEF WriteFails
      <4>. QED BY <2>3, <3>1, <4>1, InterruptedFile
    <3>4. CASE WriteIgnored
      BY <3>1, <3>4 DEF WriteIgnored
    <3>. QED BY <1>7, <3>2, <3>3, <3>4
  <2>7. stream' \in [open : BOOLEAN, failed : BOOLEAN, held : Seq(Line)]
    <3>1. stream \in [open : BOOLEAN, failed : BOOLEAN, held : Seq(Line)]
      BY DEF RecorderTyped
    <3>2. CASE Write \/ WriteIgnored
      BY <3>1, <3>2 DEF Write, WriteIgnored
    <3>3. CASE WriteFails
      <4>1. PICK held \in {<<>>, <<call.line>>} : stream' = [stream EXCEPT !.failed = TRUE, !.held = held]
        BY <3>3 DEF WriteFails
      <4>2. held \in Seq(Line)
        BY <2>3, OneLine
      <4>. QED BY <3>1, <4>1, <4>2
    <3>. QED BY <1>7, <3>2, <3>3
  <2>. QED BY <1>1, <2>2, <2>4, <2>5, <2>6, <2>7 DEF RecorderTyped
<1>8. CASE Broadcast
  BY <1>1, <1>8 DEF Broadcast, RecorderTyped, NoCall
<1>9. CASE StopCapture
  <2>1. file' \in Seq(FileWrite)
    <3>1. file \in Seq(FileWrite) /\ stream.held \in Seq(Line)
      BY DEF RecorderTyped
    <3>2. CASE stream.held # <<>>
      <4>1. stream.held[1] \in Line
        BY <3>1, <3>2, HeadAndTail
      <4>2. Append(file, Written(stream.held[1], "whole")) \in Seq(FileWrite)
        BY <3>1, <4>1, WholeFile
      <4>. QED BY <1>9, <3>1, <4>2 DEF StopCapture
    <3>3. CASE stream.held = <<>>
      BY <1>9, <3>1, <3>3 DEF StopCapture
    <3>. QED BY <3>2, <3>3
  <2>2. stream' \in [open : BOOLEAN, failed : BOOLEAN, held : Seq(Line)]
    BY <1>9 DEF StopCapture, Closed
  <2>3. /\ captures' = captures /\ run' = NoRun /\ call' = call
        /\ attempted' = attempted /\ safe' = safe /\ failed' = failed
    BY <1>9 DEF StopCapture
  <2>. QED BY <1>1, <2>1, <2>2, <2>3 DEF RecorderTyped
<1>. QED BY <1>2, <1>3, <1>4, <1>5, <1>6, <1>7, <1>8, <1>9, StepParts DEF Engine

-----------------------------------------------------------------------------
(***************************************************************************)
(* What the window's fields become, and the table with them.               *)
(***************************************************************************)
Fields(u, c, p, es, t, n, o) ==
    /\ u.connected = c /\ u.is_paused = p /\ u.pending_events = es
    /\ u.table = t /\ u.event_count = n /\ u.offline = o

LEMMA UiParts ==
    ASSUME NEW u \in Ui
    PROVE  /\ u.connected \in BOOLEAN /\ u.is_paused \in BOOLEAN /\ u.offline \in BOOLEAN
           /\ u.pending_events \in Seq(EventLine) /\ u.table \in Table /\ u.event_count \in Nat
BY DEF Ui

\* One field replaced.
LEMMA UiExcept ==
    ASSUME NEW u \in Ui, NEW c, NEW p, NEW es, NEW t, NEW n, NEW o, Fields(u, c, p, es, t, n, o)
    PROVE  /\ \A x \in BOOLEAN : /\ [u EXCEPT !.connected = x] \in Ui
                                 /\ Fields([u EXCEPT !.connected = x], x, p, es, t, n, o)
           /\ \A x \in BOOLEAN : /\ [u EXCEPT !.is_paused = x] \in Ui
                                 /\ Fields([u EXCEPT !.is_paused = x], c, x, es, t, n, o)
           /\ \A x \in Seq(EventLine) : /\ [u EXCEPT !.pending_events = x] \in Ui
                                        /\ Fields([u EXCEPT !.pending_events = x], c, p, x, t, n, o)
           /\ \A x \in Table : /\ [u EXCEPT !.table = x] \in Ui
                               /\ Fields([u EXCEPT !.table = x], c, p, es, x, n, o)
           /\ \A x \in Nat : /\ [u EXCEPT !.event_count = x] \in Ui
                             /\ Fields([u EXCEPT !.event_count = x], c, p, es, t, x, o)
           /\ \A x \in BOOLEAN : /\ [u EXCEPT !.offline = x] \in Ui
                                 /\ Fields([u EXCEPT !.offline = x], c, p, es, t, n, x)
BY DEF Ui, Fields

LEMMA ClearedUi ==
    ASSUME NEW u \in Ui
    PROVE  ClearAll(u) \in Ui /\ Fields(ClearAll(u), u.connected, u.is_paused, <<>>, Cleared, 0, u.offline)
<1>. DEFINE v == [u EXCEPT !.table = Cleared]
            w == [v EXCEPT !.pending_events = <<>>]
            z == [w EXCEPT !.event_count = 0]
<1>1. Cleared \in Table /\ <<>> \in Seq(EventLine) /\ 0 \in Nat
  BY EmptyTable
<1>2. Fields(u, u.connected, u.is_paused, u.pending_events, u.table, u.event_count, u.offline)
  BY DEF Fields
<1>3. v \in Ui /\ Fields(v, u.connected, u.is_paused, u.pending_events, Cleared, u.event_count, u.offline)
  BY <1>1, <1>2, UiExcept
<1>4. ClearAll(u) = z
  BY Zenon DEF ClearAll
<1>. HIDE DEF v
<1>5. w \in Ui /\ Fields(w, u.connected, u.is_paused, <<>>, Cleared, u.event_count, u.offline)
  BY <1>1, <1>3, UiExcept
<1>. HIDE DEF w
<1>6. z \in Ui /\ Fields(z, u.connected, u.is_paused, <<>>, Cleared, 0, u.offline)
  BY <1>1, <1>5, UiExcept
<1>. QED BY <1>4, <1>6

\* u with the fields of ui.
UiNow(u) == Fields(u, ui.connected, ui.is_paused, ui.pending_events, ui.table, ui.event_count, ui.offline)

LEMMA DetachUi ==
    ASSUME ui \in Ui, ClickDetach
    PROVE  /\ ui' \in Ui
           /\ Fields(ui', FALSE, ui.is_paused, ui.pending_events, ui.table, ui.event_count, ui.offline)
<1>1. ui' = [ui EXCEPT !.connected = FALSE]
  BY DEF ClickDetach
<1>2. UiNow(ui) /\ FALSE \in BOOLEAN
  BY DEF UiNow, Fields
<1>. QED BY <1>1, <1>2, UiExcept DEF UiNow

LEMMA DisconnectedUi ==
    ASSUME ui \in Ui, OnDisconnected
    PROVE  /\ ui' \in Ui
           /\ Fields(ui', FALSE, ui.is_paused, ui.pending_events, ui.table, ui.event_count, ui.offline)
<1>1. ui' = [ui EXCEPT !.connected = FALSE]
  BY DEF OnDisconnected
<1>2. UiNow(ui) /\ FALSE \in BOOLEAN
  BY DEF UiNow, Fields
<1>. QED BY <1>1, <1>2, UiExcept DEF UiNow

LEMMA ClearUi ==
    ASSUME ui \in Ui, ClickClear
    PROVE  ui' \in Ui /\ Fields(ui', ui.connected, ui.is_paused, <<>>, Cleared, 0, ui.offline)
BY ClearedUi DEF ClickClear

LEMMA ConnectedUi ==
    ASSUME ui \in Ui, OnConnected
    PROVE  ui' \in Ui /\ Fields(ui', TRUE, ui.is_paused, <<>>, Cleared, 0, FALSE)
<1>1. ui' = [ClearAll(ui) EXCEPT !.connected = TRUE, !.offline = FALSE]
  BY DEF OnConnected
<1>. DEFINE v == ClearAll(ui)
            w == [v EXCEPT !.connected = TRUE]
            z == [w EXCEPT !.offline = FALSE]
<1>2. v \in Ui /\ Fields(v, ui.connected, ui.is_paused, <<>>, Cleared, 0, ui.offline)
  BY ClearedUi
<1>3. ui' = z
  BY <1>1
<1>. HIDE DEF v
<1>4. w \in Ui /\ Fields(w, TRUE, ui.is_paused, <<>>, Cleared, 0, ui.offline)
  BY <1>2, UiExcept
<1>. HIDE DEF w
<1>5. z \in Ui /\ Fields(z, TRUE, ui.is_paused, <<>>, Cleared, 0, FALSE)
  BY <1>4, UiExcept
<1>. QED BY <1>3, <1>5

LEMMA PauseUi ==
    ASSUME ui \in Ui, shown \in Seq(EventLine), TableInv, TogglePause
    PROVE  /\ ui' \in Ui
           /\ ui.is_paused =>
                 /\ Fields(ui', ui.connected, FALSE, <<>>, AppendEvents(ui.table, ui.pending_events), ui.event_count,
                           ui.offline)
                 /\ shown' = shown \o ui.pending_events
           /\ ~ui.is_paused =>
                 /\ Fields(ui', ui.connected, TRUE, ui.pending_events, ui.table, ui.event_count, ui.offline)
                 /\ shown' = shown
<1>1. UiNow(ui) /\ {TRUE, FALSE} \subseteq BOOLEAN
  BY DEF UiNow, Fields
<1>2. CASE ui.is_paused
  <2>. DEFINE v == [ui EXCEPT !.is_paused = FALSE]
              w == [v EXCEPT !.pending_events = <<>>]
              t == AppendEvents(ui.table, ui.pending_events)
              z == [w EXCEPT !.table = t]
  <2>1. t \in Table /\ <<>> \in Seq(EventLine)
    BY UiParts, MoreRows DEF TableInv
  <2>2. ui' = [w EXCEPT !.table = AppendEvents(w.table, ui.pending_events)] /\ shown' = shown \o ui.pending_events
    BY <1>2, Zenon DEF TogglePause
  <2>. HIDE DEF t
  <2>3. v \in Ui /\ Fields(v, ui.connected, FALSE, ui.pending_events, ui.table, ui.event_count, ui.offline)
    BY <1>1, UiExcept DEF UiNow
  <2>. HIDE DEF v
  <2>4. w \in Ui /\ Fields(w, ui.connected, FALSE, <<>>, ui.table, ui.event_count, ui.offline)
    BY <2>1, <2>3, UiExcept
  <2>. HIDE DEF w
  <2>5. z \in Ui /\ Fields(z, ui.connected, FALSE, <<>>, t, ui.event_count, ui.offline)
    BY <2>1, <2>4, UiExcept
  <2>6. w.table = ui.table
    BY <2>4 DEF Fields
  <2>7. ui' = z
    BY <2>2, <2>6, Zenon DEF t
  <2>. QED BY <1>2, <2>2, <2>5, <2>7 DEF t
<1>3. CASE ~ui.is_paused
  <2>1. ui' = [ui EXCEPT !.is_paused = TRUE] /\ shown' = shown
    BY <1>3 DEF TogglePause
  <2>. QED BY <1>1, <1>3, <2>1, UiExcept DEF UiNow
<1>. QED BY <1>2, <1>3, UiParts

\* open_log_file() with the events it has loaded, and when it cannot load them.
Loads(events) ==
    /\ Fields(ui', ui.connected /\ ~Attached, ui.is_paused, <<>>, SetEvents(events), 0, TRUE)
    /\ shown' = LastEvents(events) /\ opened' = LastEvents(events) \o EventsIn(queue)
    /\ log' = [asked |-> TRUE, late |-> Announcing, cleared |-> FALSE]

LoadFails ==
    /\ Fields(ui', ui.connected /\ ~Attached, ui.is_paused, <<>>, Cleared, 0, ui.offline)
    /\ shown' = <<>> /\ opened' = opened
    /\ log' = [log EXCEPT !.cleared = TRUE]

LEMMA OpenUi ==
    ASSUME ui \in Ui, file \in Seq(FileWrite), OpenLogFile
    PROVE  /\ ui' \in Ui
           /\ (\E events \in Seq(EventLine) : Loads(events)) \/ LoadFails
<1>. DEFINE u == ClearAll(ui)
            c == ui.connected /\ ~Attached
            v == [u EXCEPT !.connected = c]
            es == LoadedEvents(file)
            w == [v EXCEPT !.table = SetEvents(es)]
            z == [w EXCEPT !.offline = TRUE]
<1>1. es \in Seq(EventLine) /\ SetEvents(es) \in Table
  BY LoadedListing, SetRows
<1>2. u \in Ui /\ Fields(u, ui.connected, ui.is_paused, <<>>, Cleared, 0, ui.offline)
  BY ClearedUi
<1>3. c \in BOOLEAN /\ u.connected = ui.connected
  BY <1>2, UiParts DEF Fields
<1>4. \/ /\ ui' = z /\ shown' = LastEvents(es) /\ opened' = LastEvents(es) \o EventsIn(queue)
         /\ log' = [asked |-> TRUE, late |-> Announcing, cleared |-> FALSE]
      \/ /\ ui' = v /\ shown' = <<>> /\ opened' = opened
         /\ log' = [log EXCEPT !.cleared = TRUE]
  BY <1>3, Zenon DEF OpenLogFile, Queued
<1>. HIDE DEF u, c
<1>5. v \in Ui /\ Fields(v, c, ui.is_paused, <<>>, Cleared, 0, ui.offline)
  BY <1>2, <1>3, UiExcept
<1>. HIDE DEF v
<1>6. w \in Ui /\ Fields(w, c, ui.is_paused, <<>>, SetEvents(es), 0, ui.offline)
  BY <1>1, <1>5, UiExcept
<1>. HIDE DEF w
<1>7. z \in Ui /\ Fields(z, c, ui.is_paused, <<>>, SetEvents(es), 0, TRUE)
  BY <1>6, UiExcept
<1>. HIDE DEF z, es
<1>. QED BY <1>1, <1>4, <1>5, <1>7 DEF Loads, LoadFails, c

LEMMA EventUi ==
    ASSUME ui \in Ui, shown \in Seq(EventLine), TableInv, Head(queue).event \in EventLine, OnEventReceived
    PROVE  /\ ui' \in Ui
           /\ ui.is_paused =>
                 /\ Fields(ui', ui.connected, ui.is_paused, Append(ui.pending_events, Head(queue).event), ui.table,
                           ui.event_count + 1, ui.offline)
                 /\ shown' = shown
           /\ ~ui.is_paused =>
                 /\ Fields(ui', ui.connected, ui.is_paused, ui.pending_events,
                           AppendEvent(ui.table, Head(queue).event), ui.event_count + 1, ui.offline)
                 /\ shown' = Append(shown, Head(queue).event)
<1>. DEFINE e == Head(queue).event
            n == ui.event_count + 1
            u == [ui EXCEPT !.event_count = n]
            more == Append(ui.pending_events, e)
            t == AppendEvent(ui.table, e)
<1>1. n \in Nat /\ more \in Seq(EventLine) /\ t \in Table
  BY UiParts, OneMoreRow, AppendProperties DEF TableInv
<1>2. UiNow(ui)
  BY DEF UiNow, Fields
<1>3. u \in Ui /\ Fields(u, ui.connected, ui.is_paused, ui.pending_events, ui.table, n, ui.offline)
  BY <1>1, <1>2, UiExcept DEF UiNow
<1>4. IF ui.is_paused
      THEN ui' = [u EXCEPT !.pending_events = Append(u.pending_events, e)] /\ shown' = shown
      ELSE ui' = [u EXCEPT !.table = AppendEvent(u.table, e)] /\ shown' = Append(shown, e)
  BY Zenon DEF OnEventReceived
<1>. HIDE DEF u, e, n
<1>5. u.pending_events = ui.pending_events /\ u.table = ui.table
  BY <1>3 DEF Fields
<1>6. CASE ui.is_paused
  <2>1. ui' = [u EXCEPT !.pending_events = more] /\ shown' = shown
    BY <1>4, <1>5, <1>6
  <2>. HIDE DEF more, t
  <2>2. [u EXCEPT !.pending_events = more] \in Ui
        /\ Fields([u EXCEPT !.pending_events = more], ui.connected, ui.is_paused, more, ui.table, n, ui.offline)
    BY <1>1, <1>3, UiExcept
  <2>. QED BY <1>6, <2>1, <2>2 DEF more, e, n
<1>7. CASE ~ui.is_paused
  <2>1. ui' = [u EXCEPT !.table = t] /\ shown' = Append(shown, e)
    BY <1>4, <1>5, <1>7
  <2>. HIDE DEF more, t
  <2>2. [u EXCEPT !.table = t] \in Ui
        /\ Fields([u EXCEPT !.table = t], ui.connected, ui.is_paused, ui.pending_events, t, n, ui.offline)
    BY <1>1, <1>3, UiExcept
  <2>. QED BY <1>7, <2>1, <2>2 DEF t, e, n
<1>. QED BY <1>6, <1>7, UiParts

\* The first signal of the queue.
LEMMA Handled ==
    ASSUME NEW k, queue \in Seq(Signal), Handle(k)
    PROVE  /\ queue # <<>> /\ Head(queue) \in Signal /\ Head(queue).kind = k
           /\ queue' = Tail(queue) /\ queue' \in Seq(Signal)
           /\ k = "event" => /\ Head(queue).event \in EventLine
                             /\ EventsIn(queue) = <<Head(queue).event>> \o EventsIn(queue')
           /\ k # "event" => EventsIn(queue) = EventsIn(queue')
BY QueueTaken, SignalKinds DEF Handle

WindowTyped == ui \in Ui /\ opened \in Seq(EventLine) /\ shown \in Seq(EventLine) /\ TableInv

LEMMA WindowTypedStep ==
    ASSUME WindowTyped, file \in Seq(FileWrite), queue \in Seq(Signal), Next
    PROVE  WindowTyped'
<1>1. /\ ui \in Ui /\ ui.table \in Table /\ ui.pending_events \in Seq(EventLine) /\ TableInv
      /\ opened \in Seq(EventLine) /\ shown \in Seq(EventLine) /\ Shows(ui.table, shown)
  BY UiParts DEF WindowTyped, TableInv
<1>2. Cleared \in Table /\ Shows(Cleared, <<>>) /\ <<>> \in Seq(EventLine)
  BY EmptyTable
<1>3. CASE UNCHANGED window
  BY <1>1, <1>3 DEF window, WindowTyped, TableInv
<1>4. CASE ClickAttach
  BY <1>1, <1>4 DEF ClickAttach, WindowTyped, TableInv
<1>5. CASE ClickDetach \/ OnDisconnected
  <2>1. opened' = opened /\ shown' = shown
    BY <1>5 DEF ClickDetach, OnDisconnected
  <2>2. ui' \in Ui /\ ui'.table = ui.table
    BY <1>1, <1>5, DetachUi, DisconnectedUi DEF Fields
  <2>. QED BY <1>1, <2>1, <2>2 DEF WindowTyped, TableInv
<1>6. CASE ClickClear \/ OnConnected
  <2>1. opened' = opened /\ shown' = <<>>
    BY <1>6 DEF ClickClear, OnConnected
  <2>2. ui' \in Ui /\ ui'.table = Cleared
    BY <1>1, <1>6, ClearUi, ConnectedUi DEF Fields
  <2>. QED BY <1>1, <1>2, <2>1, <2>2 DEF WindowTyped, TableInv
<1>7. CASE TogglePause
  <2>1. opened' = opened
    BY <1>7 DEF TogglePause
  <2>2. CASE ui.is_paused
    <3>1. ui' \in Ui /\ ui'.table = AppendEvents(ui.table, ui.pending_events) /\ shown' = shown \o ui.pending_events
      BY <1>1, <1>7, <2>2, PauseUi DEF Fields
    <3>2. Shows(AppendEvents(ui.table, ui.pending_events), shown \o ui.pending_events)
      BY <1>1, MoreRows
    <3>3. shown' \in Seq(EventLine)
      BY <1>1, <3>1, Joined
    <3>. QED BY <1>1, <2>1, <3>1, <3>2, <3>3 DEF WindowTyped, TableInv
  <2>3. CASE ~ui.is_paused
    <3>1. ui' \in Ui /\ ui'.table = ui.table /\ shown' = shown
      BY <1>1, <1>7, <2>3, PauseUi DEF Fields
    <3>. QED BY <1>1, <2>1, <3>1 DEF WindowTyped, TableInv
  <2>. QED BY <2>2, <2>3
<1>8. CASE OpenLogFile
  <2>0. ui' \in Ui
    BY <1>1, <1>8, OpenUi
  <2>1. ASSUME NEW events \in Seq(EventLine), Loads(events)
        PROVE  WindowTyped'
    <3>1. /\ ui'.table = SetEvents(events)
          /\ shown' = LastEvents(events) /\ opened' = LastEvents(events) \o EventsIn(queue)
      BY <2>1 DEF Loads, Fields
    <3>2. Shows(SetEvents(events), LastEvents(events))
      BY SetRows
    <3>3. shown' \in Seq(EventLine) /\ opened' \in Seq(EventLine)
      BY <3>1, LastEventsIs, QueueListing, Joined
    <3>. QED BY <2>0, <3>1, <3>2, <3>3 DEF WindowTyped, TableInv
  <2>2. CASE LoadFails
    <3>1. ui'.table = Cleared /\ shown' = <<>> /\ opened' = opened
      BY <2>2 DEF LoadFails, Fields
    <3>. QED BY <1>1, <1>2, <2>0, <3>1 DEF WindowTyped, TableInv
  <2>. QED BY <1>1, <1>8, <2>1, <2>2, OpenUi
<1>9. CASE OnEventReceived
  <2>1. opened' = opened
    BY <1>9 DEF OnEventReceived
  <2>2. Head(queue).event \in EventLine
    BY <1>9, Handled DEF OnEventReceived
  <2>3. CASE ui.is_paused
    <3>1. ui' \in Ui /\ ui'.table = ui.table /\ shown' = shown
      BY <1>1, <1>9, <2>2, <2>3, EventUi DEF Fields
    <3>. QED BY <1>1, <2>1, <3>1 DEF WindowTyped, TableInv
  <2>4. CASE ~ui.is_paused
    <3>1. /\ ui' \in Ui /\ ui'.table = AppendEvent(ui.table, Head(queue).event)
          /\ shown' = Append(shown, Head(queue).event)
      BY <1>1, <1>9, <2>2, <2>4, EventUi DEF Fields
    <3>2. Shows(AppendEvent(ui.table, Head(queue).event), Append(shown, Head(queue).event))
      BY <1>1, <2>2, OneMoreRow
    <3>3. shown' \in Seq(EventLine)
      BY <1>1, <2>2, <3>1, AppendProperties
    <3>. QED BY <1>1, <2>1, <3>1, <3>2, <3>3 DEF WindowTyped, TableInv
  <2>. QED BY <2>3, <2>4
<1>. QED BY <1>3, <1>4, <1>5, <1>6, <1>7, <1>8, <1>9, StepParts DEF Window, Watching

-----------------------------------------------------------------------------
(***************************************************************************)
(* The connection and the queue.                                           *)
(***************************************************************************)
LEMMA LinkDownTyped ==
    ASSUME wire \in Seq(EventLine), LinkDown
    PROVE  /\ linked' = FALSE /\ worker' = worker /\ sent' = sent
           /\ wire' \in Seq(EventLine) /\ Len(wire') <= Len(wire)
           /\ \A k \in 1..Len(wire') : wire'[k] = wire[k]
           /\ Range(wire') \subseteq Range(wire)
<1>1. PICK n \in 0..Len(wire) : wire' = SubSeq(wire, 1, n)
  BY DEF LinkDown
<1>2. /\ SubSeq(wire, 1, n) \in Seq(EventLine) /\ Len(SubSeq(wire, 1, n)) = n
      /\ \A k \in 1..n : SubSeq(wire, 1, n)[k] = wire[k]
      /\ Range(SubSeq(wire, 1, n)) \subseteq Range(wire)
  BY FrontPart
<1>3. linked' = FALSE /\ worker' = worker /\ sent' = sent
  BY DEF LinkDown
<1>4. Len(wire) \in Nat
  BY LenProperties
<1>. QED BY <1>1, <1>2, <1>3, <1>4

LEMMA DisconnectTyped ==
    ASSUME wire \in Seq(EventLine), Disconnect
    PROVE  /\ sent' = sent /\ wire' \in Seq(EventLine)
           /\ Attached => /\ worker' = IF worker = "live" THEN "closing" ELSE "stopping"
                          /\ linked' = FALSE /\ wire' = <<>>
           /\ ~Attached => worker' = worker /\ linked' = linked /\ wire' = wire
<1>1. <<>> \in Seq(EventLine)
  OBVIOUS
<1>. QED BY <1>1 DEF Disconnect, connection

LEMMA PostTyped ==
    ASSUME queue \in Seq(Signal), NEW x \in Signal, Post(x)
    PROVE  /\ queue' \in Seq(Signal) /\ queue' = Append(queue, x) /\ queue' # <<>>
           /\ Len(queue) \in Nat /\ Len(queue') = Len(queue) + 1
           /\ \A i \in 1..Len(queue) : queue'[i] = queue[i]
           /\ queue'[Len(queue) + 1] = x
           /\ x.kind = "event" => EventsIn(queue') = Append(EventsIn(queue), x.event)
           /\ x.kind # "event" => EventsIn(queue') = EventsIn(queue)
<1>1. queue' = Append(queue, x)
  BY DEF Post
<1>2. /\ Append(queue, x) \in Seq(Signal) /\ Append(queue, x) # <<>>
      /\ Len(queue) \in Nat /\ Len(Append(queue, x)) = Len(queue) + 1
      /\ \A i \in 1..Len(queue) : Append(queue, x)[i] = queue[i]
      /\ Append(queue, x)[Len(queue) + 1] = x
  BY Appended
<1>. QED BY <1>1, <1>2, QueuePosted

\* What Deliver takes off the wire.
LEMMA Delivered ==
    ASSUME wire \in Seq(EventLine), queue \in Seq(Signal), Deliver
    PROVE  \E e \in EventLine :
              /\ e = Head(wire) /\ wire' = Tail(wire) /\ wire' \in Seq(EventLine)
              /\ wire = <<e>> \o wire' /\ Range(wire) = {e} \cup Range(wire')
              /\ [kind |-> "event", event |-> e] \in Signal
              /\ Post([kind |-> "event", event |-> e])
              /\ EventsIn(queue') = Append(EventsIn(queue), e)
<1>1. wire # <<>> /\ wire' = Tail(wire) /\ Post([kind |-> "event", event |-> Head(wire)])
  BY DEF Deliver
<1>2. /\ Head(wire) \in EventLine /\ Tail(wire) \in Seq(EventLine) /\ wire = <<Head(wire)>> \o Tail(wire)
      /\ Range(wire) = {Head(wire)} \cup Range(Tail(wire))
  BY <1>1, HeadAndTail
<1>. DEFINE x == [kind |-> "event", event |-> Head(wire)]
<1>3. x \in Signal /\ x.kind = "event" /\ x.event = Head(wire)
  BY <1>2 DEF Signal
<1>4. EventsIn(queue') = Append(EventsIn(queue), Head(wire))
  <2>. HIDE DEF x
  <2>1. Post(x)
    BY <1>1 DEF x
  <2>. QED BY <1>3, <2>1, PostTyped
<1>. QED BY <1>1, <1>2, <1>3, <1>4

LEMMA ControlSignals ==
    /\ [kind |-> "connected"] \in Signal /\ [kind |-> "disconnected"] \in Signal
    /\ [kind |-> "connected"].kind = "connected" /\ [kind |-> "disconnected"].kind = "disconnected"
BY DEF Signal

LEMMA LogTyped ==
    ASSUME log \in Views, Next
    PROVE  log' \in Views
<1>1. CASE log' = log
  BY <1>1
<1>2. CASE ClickAttach
  BY <1>2 DEF ClickAttach, Views
<1>3. CASE ClickClear
  BY <1>3 DEF ClickClear, Views
<1>4. CASE OpenLogFile
  <2>1. PICK late \in BOOLEAN : late = Announcing
    BY Zenon DEF Announcing
  <2>2. \/ log' = [asked |-> TRUE, late |-> late, cleared |-> FALSE]
        \/ log' = [log EXCEPT !.cleared = TRUE]
    BY <1>4, <2>1, Zenon DEF OpenLogFile
  <2>3. CASE log' = [asked |-> TRUE, late |-> late, cleared |-> FALSE]
    BY <2>1, <2>3 DEF Views
  <2>4. CASE log' = [log EXCEPT !.cleared = TRUE]
    BY <2>4 DEF Views
  <2>. QED BY <2>2, <2>3, <2>4
<1>5. log' = log \/ ClickAttach \/ ClickClear \/ OpenLogFile
  BY StepParts DEF Window, Watching, window, ClickDetach, TogglePause, OnConnected, OnDisconnected, OnEventReceived
<1>. QED BY <1>1, <1>2, <1>3, <1>4, <1>5

LEMMA ViewerTypedStep ==
    ASSUME EngineTyped, RecorderTyped, CallIsOfTheRun, ViewerTyped, TableInv, Next
    PROVE  ViewerTyped' /\ TableInv'
<1>1. /\ worker \in {"none", "starting", "linked", "live", "stopping", "closing"} /\ linked \in BOOLEAN
      /\ wire \in Seq(EventLine) /\ sent \in Seq(EventLine) /\ queue \in Seq(Signal) /\ file \in Seq(FileWrite)
      /\ <<>> \in Seq(EventLine)
  BY DEF ViewerTyped, RecorderTyped
<1>2. WindowTyped'
  BY <1>1, WindowTypedStep DEF ViewerTyped, WindowTyped
<1>2a. log' \in Views
  BY LogTyped DEF ViewerTyped
<1>. SUFFICES /\ worker' \in {"none", "starting", "linked", "live", "stopping", "closing"} /\ linked' \in BOOLEAN
              /\ wire' \in Seq(EventLine) /\ sent' \in Seq(EventLine) /\ queue' \in Seq(Signal)
  BY <1>2, <1>2a DEF ViewerTyped, WindowTyped
<1>3. CASE UNCHANGED <<connection, queue>>
  BY <1>1, <1>3 DEF connection
<1>4. CASE StartEngine \/ StartCapture \/ NewEvent \/ Write \/ WriteFails \/ WriteIgnored \/ StopCapture
  BY <1>3, <1>4 DEF StartEngine, StartCapture, NewEvent, Write, WriteFails, WriteIgnored, StopCapture
<1>5. CASE StopEngine \/ Crash
  BY <1>1, <1>5, LinkDownTyped DEF StopEngine, Crash
<1>6. CASE Broadcast
  <2>1. worker' = worker /\ linked' = linked /\ queue' = queue
    BY <1>6 DEF Broadcast
  <2>2. CASE wire' = wire /\ sent' = sent
    BY <1>1, <2>1, <2>2
  <2>3. CASE wire' = Append(wire, call.line) /\ sent' = Append(sent, call.line)
    <3>1. call.line \in EventLine
      BY <1>6, CallTyped DEF Broadcast, CallIsOfTheRun
    <3>. QED BY <1>1, <2>1, <2>3, <3>1, AppendProperties
  <2>. QED BY <1>6, <2>2, <2>3 DEF Broadcast
<1>7. CASE LinkUp
  BY <1>1, <1>7 DEF LinkUp
<1>8. CASE Announce
  BY <1>1, <1>8, ControlSignals, PostTyped DEF Announce
<1>9. CASE Deliver
  BY <1>1, <1>9, Delivered, PostTyped DEF Deliver
<1>10. CASE WorkerEnds
  BY <1>1, <1>10, ControlSignals, PostTyped DEF WorkerEnds
<1>11. CASE ClickAttach
  BY <1>1, <1>11 DEF ClickAttach
<1>12. CASE ClickDetach \/ OpenLogFile
  BY <1>1, <1>12, DisconnectTyped DEF ClickDetach, OpenLogFile
<1>13. CASE ClickClear \/ TogglePause
  BY <1>3, <1>13 DEF ClickClear, TogglePause
<1>14. CASE OnConnected \/ OnDisconnected \/ OnEventReceived
  <2>1. queue' \in Seq(Signal)
    BY <1>1, <1>14, Handled DEF OnConnected, OnDisconnected, OnEventReceived
  <2>2. UNCHANGED connection
    BY <1>14 DEF OnConnected, OnDisconnected, OnEventReceived
  <2>. QED BY <1>1, <2>1, <2>2 DEF connection
<1>. QED BY <1>4, <1>5, <1>6, <1>7, <1>8, <1>9, <1>10, <1>11, <1>12, <1>13, <1>14, StepParts
     DEF Engine, WorkerThread, Window

LEMMA CallStep ==
    ASSUME EngineTyped, RecorderTyped, CallIsOfTheRun, NotBegun, Next
    PROVE  CallIsOfTheRun'
<1>1. CASE WorkerThread \/ Window
  <2>1. Quiet
    BY <1>1, StepParts
  <2>. QED BY <2>1 DEF Quiet, process, recorder, CallIsOfTheRun
<1>2. CASE StartEngine
  BY <1>2 DEF StartEngine, recorder, CallIsOfTheRun
<1>3. CASE StopEngine
  BY <1>3 DEF StopEngine, recorder, CallIsOfTheRun
<1>4. CASE Crash
  BY <1>4 DEF Crash, CallIsOfTheRun, NoCall
<1>5. CASE StartCapture
  <2>1. run' # NoRun /\ captures + 1 \in Runs
    BY <1>5 DEF StartCapture, RecorderTyped, EngineTyped, Workload, Runs, NoRun
  <2>2. running' = running /\ running /\ socket' = socket /\ attempted' = attempted
    BY <1>5 DEF StartCapture, process
  <2>3. call'.at = "record" /\ call'.line.kind = "metadata"
    BY <1>5 DEF StartCapture, Metadata
  <2>4. attempted'[run'] = <<>>
    <3>1. captures + 1 > captures /\ run' = captures + 1
      BY <1>5 DEF StartCapture, RecorderTyped, EngineTyped, Workload
    <3>. QED BY <2>1, <2>2, <3>1 DEF NotBegun
  <2>. QED BY <1>5, <2>1, <2>2, <2>3, <2>4 DEF CallIsOfTheRun
<1>6. CASE NewEvent
  <2>1. PICK e : /\ NewOf(e) /\ call' = [at |-> "record", line |-> e]
                 /\ attempted' = [attempted EXCEPT ![run] = Append(@, e)]
    BY <1>6, NewEventIs
  <2>2. e.run = run /\ e.kind = "event" /\ e \in EventLine
    BY <2>1 DEF NewOf
  <2>3. run # NoRun /\ run' = run /\ running' = running /\ socket' = socket
    BY <1>6 DEF NewEvent
  <2>4. /\ Len(attempted'[run]) > 0 /\ attempted'[run][Len(attempted'[run])] = e
    <3>1. attempted[run] \in Seq(EventLine) /\ run \in Runs
      BY <2>3, RunTyped
    <3>2. attempted'[run] = Append(attempted[run], e)
      BY <2>1, <3>1 DEF RecorderTyped
    <3>3. /\ Len(Append(attempted[run], e)) = Len(attempted[run]) + 1 /\ Len(attempted[run]) \in Nat
          /\ Append(attempted[run], e)[Len(attempted[run]) + 1] = e
      BY <2>2, <3>1, Appended
    <3>. QED BY <3>2, <3>3
  <2>5. call'.at = "record" /\ call'.line = e
    BY <2>1
  <2>. QED BY <2>2, <2>3, <2>4, <2>5 DEF CallIsOfTheRun
<1>7. CASE Write \/ WriteFails \/ WriteIgnored
  <2>1. call.at = "record" /\ RecordReturns /\ call.at # "none"
    BY <1>7 DEF Write, WriteFails, WriteIgnored
  <2>2. run' = run /\ running' = running /\ socket' = socket /\ attempted' = attempted
    BY <1>7 DEF Write, WriteFails, WriteIgnored, process
  <2>3. /\ call.line.kind = "event" => call' = [at |-> "broadcast", line |-> call.line]
        /\ call.line.kind # "event" => call' = NoCall
    BY <2>1, ReturnedCall
  <2>4. CASE call.line.kind = "event"
    <3>1. call'.at = "broadcast" /\ call'.line = call.line
      BY <2>3, <2>4
    <3>. QED BY <2>1, <2>2, <2>4, <3>1 DEF CallIsOfTheRun
  <2>5. CASE call.line.kind # "event"
    <3>1. call'.at = "none"
      BY <2>3, <2>5 DEF NoCall
    <3>. QED BY <2>1, <2>2, <2>5, <3>1 DEF CallIsOfTheRun
  <2>. QED BY <2>4, <2>5
<1>8. CASE Broadcast
  BY <1>8 DEF Broadcast, process, NoCall, CallIsOfTheRun
<1>9. CASE StopCapture
  BY <1>9 DEF StopCapture, process, NoCall, CallIsOfTheRun
<1>. QED BY <1>1, <1>2, <1>3, <1>4, <1>5, <1>6, <1>7, <1>8, <1>9, StepParts DEF Engine

-----------------------------------------------------------------------------
(***************************************************************************)
(* What the recorder has written, and the file with it.                    *)
(***************************************************************************)
LEMMA StreamStep ==
    ASSUME EngineTyped, RecorderTyped, CallIsOfTheRun, NotBegun, StreamInv, Next
    PROVE  StreamInv'
<1>1. CASE WorkerThread \/ Window
  <2>1. Quiet
    BY <1>1, StepParts
  <2>. QED BY <2>1 DEF Quiet, recorder, StreamInv, EventCalled
<1>2. CASE StartEngine \/ StopEngine
  BY <1>2 DEF StartEngine, StopEngine, recorder, StreamInv, EventCalled
<1>3. CASE Crash \/ StopCapture
  BY <1>3 DEF Crash, StopCapture, StreamInv
<1>4. CASE StartCapture
  <2>1. captures + 1 \in Runs /\ captures + 1 > captures /\ run' = captures + 1
    BY <1>4 DEF StartCapture, RecorderTyped, EngineTyped, Workload, Runs
  <2>2. attempted'[run'] = <<>> /\ safe'[run'] = 0
    BY <1>4, <2>1 DEF StartCapture, NotBegun
  <2>3. ~stream'.failed /\ stream'.held = <<>>
    BY <1>4, StreamsTyped DEF StartCapture
  <2>4. ~EventCalled'
    BY <1>4 DEF StartCapture, EventCalled, Metadata
  <2>. QED BY <2>2, <2>3, <2>4 DEF StreamInv
<1>5. CASE NewEvent
  <2>1. PICK e : /\ NewOf(e) /\ call' = [at |-> "record", line |-> e]
                 /\ attempted' = [attempted EXCEPT ![run] = Append(@, e)]
    BY <1>5, NewEventIs
  <2>2. run # NoRun /\ run' = run /\ stream' = stream /\ safe' = safe /\ failed' = failed /\ call.at = "none"
    BY <1>5 DEF NewEvent, NoCall
  <2>3. attempted[run] \in Seq(EventLine) /\ run \in Runs /\ safe[run] \in Nat
    BY <2>2, RunTyped
  <2>4. attempted'[run] = Append(attempted[run], e)
    BY <2>1, <2>3 DEF RecorderTyped
  <2>5. /\ Len(attempted'[run]) = Len(attempted[run]) + 1 /\ Len(attempted[run]) \in Nat
        /\ \A k \in 1..Len(attempted[run]) : attempted'[run][k] = attempted[run][k]
    <3>1. e \in EventLine
      BY <2>1 DEF NewOf
    <3>. QED BY <2>3, <2>4, <3>1, Appended
  <2>6. ~EventCalled /\ EventCalled'
    BY <2>1, <2>2 DEF EventCalled, NewOf
  <2>7. CASE ~stream.failed
    BY <2>2, <2>3, <2>5, <2>6, <2>7 DEF StreamInv
  <2>8. CASE stream.failed
    <3>1. run \in failed
      BY <2>2, <2>8 DEF StreamInv
    <3>2. ASSUME NEW i \in DOMAIN stream.held, stream.held[i].kind = "event"
          PROVE  safe[run] < Len(attempted'[run]) /\ stream.held[i] = attempted'[run][safe[run] + 1]
      <4>1. safe[run] < Len(attempted[run]) /\ stream.held[i] = attempted[run][safe[run] + 1]
        BY <2>2, <2>8, <3>2 DEF StreamInv
      <4>. QED BY <2>3, <2>5, <4>1
    <3>. QED BY <2>2, <2>8, <3>1, <3>2 DEF StreamInv
  <2>. QED BY <2>7, <2>8
<1>6. CASE Write \/ WriteFails \/ WriteIgnored
  <2>1. call.at = "record" /\ RecordReturns /\ call.at # "none" /\ run' = run /\ attempted' = attempted
    BY <1>6 DEF Write, WriteFails, WriteIgnored
  <2>2. /\ run # NoRun /\ run \in Runs /\ safe[run] \in Nat /\ safe \in [Runs -> Nat]
        /\ Len(attempted[run]) \in Nat
    BY <2>1, RunTyped DEF CallIsOfTheRun, RecorderTyped
  <2>3. ~EventCalled'
    BY <2>1, ReturnedCall DEF EventCalled, NoCall
  <2>4. CASE Write
    <3>1. ~stream.failed /\ stream' = stream
      BY <2>4 DEF Write
    <3>2. stream.held = <<>> /\ Len(attempted[run]) = safe[run] + (IF EventCalled THEN 1 ELSE 0)
      BY <2>2, <3>1 DEF StreamInv
    <3>3. safe'[run] = safe[run] + (IF EventCalled THEN 1 ELSE 0)
      BY <2>1, <2>2, <2>4 DEF Write, EventCalled
    <3>. QED BY <2>1, <2>2, <2>3, <3>1, <3>2, <3>3 DEF StreamInv
  <2>5. CASE WriteFails
    <3>1. PICK held \in {<<>>, <<call.line>>} : stream' = [stream EXCEPT !.failed = TRUE, !.held = held]
      BY <2>5 DEF WriteFails
    <3>2. stream'.failed /\ stream'.held = held
      BY <3>1 DEF RecorderTyped
    <3>3. run \in failed' /\ safe' = safe /\ ~stream.failed
      BY <2>5 DEF WriteFails
    <3>4. ASSUME NEW i \in DOMAIN held, held[i].kind = "event"
          PROVE  safe[run] < Len(attempted[run]) /\ held[i] = attempted[run][safe[run] + 1]
      <4>1. held[i] = call.line
        BY <3>1, <3>4
      <4>2. EventCalled
        BY <2>1, <3>4, <4>1 DEF EventCalled
      <4>3. Len(attempted[run]) = safe[run] + 1
        BY <2>2, <3>3, <4>2 DEF StreamInv
      <4>4. call.line = attempted[run][Len(attempted[run])]
        BY <2>1, <4>2 DEF CallIsOfTheRun, EventCalled
      <4>. QED BY <2>2, <4>1, <4>3, <4>4
    <3>. QED BY <2>1, <3>2, <3>3, <3>4 DEF StreamInv
  <2>6. CASE WriteIgnored
    <3>1. stream.failed /\ stream' = stream /\ safe' = safe /\ failed' = failed
      BY <2>6 DEF WriteIgnored
    <3>. QED BY <2>1, <2>2, <3>1 DEF StreamInv
  <2>. QED BY <1>6, <2>4, <2>5, <2>6
<1>7. CASE Broadcast
  <2>1. /\ run' = run /\ stream' = stream /\ safe' = safe /\ failed' = failed /\ attempted' = attempted
        /\ ~EventCalled /\ ~EventCalled'
    BY <1>7 DEF Broadcast, EventCalled, NoCall
  <2>. QED BY <2>1 DEF StreamInv
<1>. QED BY <1>1, <1>2, <1>3, <1>4, <1>5, <1>6, <1>7, StepParts DEF Engine

LEMMA OwnStep ==
    ASSUME EngineTyped, RecorderTyped, OwnEvents, Next
    PROVE  OwnEvents'
<1>1. Runs' = Runs
  BY StepParts DEF Runs
<1>2. CASE attempted' = attempted
  BY <1>1, <1>2 DEF OwnEvents
<1>3. CASE NewEvent
  <2>1. PICK e : /\ NewOf(e) /\ attempted' = [attempted EXCEPT ![run] = Append(@, e)]
    BY <1>3, NewEventIs
  <2>2. e \in EventLine /\ e.run = run
    BY <2>1 DEF NewOf
  <2>3. attempted[run] \in Seq(EventLine) /\ run \in Runs /\ attempted \in [Runs -> Seq(EventLine)]
    BY <1>3, RunTyped DEF NewEvent, RecorderTyped
  <2>4. /\ Len(Append(attempted[run], e)) = Len(attempted[run]) + 1 /\ Len(attempted[run]) \in Nat
        /\ \A k \in 1..Len(attempted[run]) : Append(attempted[run], e)[k] = attempted[run][k]
        /\ Append(attempted[run], e)[Len(attempted[run]) + 1] = e
    BY <2>2, <2>3, Appended
  <2>5. \A k \in 1..Len(Append(attempted[run], e)) : Append(attempted[run], e)[k].run = run
    BY <2>2, <2>3, <2>4 DEF OwnEvents
  <2>6. attempted'[run] = Append(attempted[run], e) /\ \A r \in Runs : r # run => attempted'[r] = attempted[r]
    BY <2>1, <2>3
  <2>. QED BY <1>1, <2>5, <2>6 DEF OwnEvents
<1>4. attempted' = attempted \/ NewEvent
  BY StepParts DEF Engine, Quiet, recorder, StartEngine, StopEngine, Crash, StartCapture, Write, WriteFails,
     WriteIgnored, Broadcast, StopCapture
<1>. QED BY <1>2, <1>3, <1>4

\* What a step adds to the file is a line of the run in progress.
Grows(x) == file' = file \/ \E form \in {"whole", "open", "torn"} : file' = Append(file, Written(x, form))

LEMMA GrowsBy ==
    ASSUME EngineTyped, RecorderTyped, CallIsOfTheRun, StreamInv, OwnEvents, Next
    PROVE  /\ file' = file \/ Crash \/ Write \/ WriteFails \/ StopCapture
           /\ Crash \/ Write \/ WriteFails \/ StopCapture =>
                 file' = file \/ \E x \in Line : Grows(x) /\ run # NoRun /\ (x.kind = "event" => x.run = run)
<1>1. file' = file \/ Crash \/ Write \/ WriteFails \/ StopCapture
  BY StepParts DEF Engine, Quiet, recorder, StartEngine, StopEngine, StartCapture, NewEvent, WriteIgnored, Broadcast
<1>2. ASSUME call.at = "record"
      PROVE  /\ call.line \in Line /\ run # NoRun /\ (call.line.kind = "event" => call.line.run = run)
  <2>1. call.at # "none"
    BY <1>2
  <2>. QED BY <2>1, CallTyped DEF CallIsOfTheRun
<1>3. CASE Crash
  <2>1. CASE call.at = "record" /\ ~stream.failed
    <3>1. file' \in Interrupted(file, call.line)
      BY <1>3, <2>1 DEF Crash
    <3>2. Grows(call.line)
      BY <3>1, <1>2, <2>1, InterruptedFile DEF Grows, RecorderTyped
    <3>. QED BY <1>1, <1>2, <2>1, <3>2
  <2>2. CASE ~(call.at = "record" /\ ~stream.failed)
    BY <1>1, <1>3, <2>2 DEF Crash
  <2>. QED BY <2>1, <2>2
<1>4. CASE Write
  <2>1. call.at = "record" /\ Grows(call.line)
    BY <1>4 DEF Write, Grows
  <2>. QED BY <1>1, <1>2, <2>1
<1>5. CASE WriteFails
  <2>1. call.at = "record" /\ file' \in Interrupted(file, call.line)
    BY <1>5 DEF WriteFails
  <2>2. Grows(call.line)
    BY <2>1, <1>2, InterruptedFile DEF Grows, RecorderTyped
  <2>. QED BY <1>1, <1>2, <2>1, <2>2
<1>6. CASE StopCapture
  <2>1. /\ run # NoRun
        /\ \/ file' = file
           \/ stream.held # <<>> /\ file' = Append(file, Written(stream.held[1], "whole"))
    BY <1>6 DEF StopCapture
  <2>2. CASE stream.held # <<>> /\ file' = Append(file, Written(stream.held[1], "whole"))
    <3>1. stream.held[1] \in Line /\ 1 \in DOMAIN stream.held
      <4>1. stream.held \in Seq(Line)
        BY DEF RecorderTyped
      <4>. QED BY <2>2, <4>1, HeadAndTail, Elements
    <3>2. Grows(stream.held[1])
      BY <2>2 DEF Grows
    <3>3. stream.held[1].kind = "event" => stream.held[1].run = run
      <4>. SUFFICES ASSUME stream.held[1].kind = "event" PROVE stream.held[1].run = run
        OBVIOUS
      <4>1. stream.failed
        BY <2>1, <2>2 DEF StreamInv
      <4>2. safe[run] < Len(attempted[run]) /\ stream.held[1] = attempted[run][safe[run] + 1]
        BY <2>1, <3>1, <4>1 DEF StreamInv
      <4>3. safe[run] \in Nat /\ run \in Runs /\ Len(attempted[run]) \in Nat
        BY <2>1, RunTyped
      <4>4. safe[run] + 1 \in 1..Len(attempted[run])
        BY <4>2, <4>3
      <4>. QED BY <4>2, <4>3, <4>4 DEF OwnEvents
    <3>. QED BY <1>1, <2>1, <3>1, <3>2, <3>3
  <2>. QED BY <1>1, <2>1, <2>2
<1>. QED BY <1>1, <1>3, <1>4, <1>5, <1>6

\* A write that is no event of r.
LEMMA NoneAdded ==
    ASSUME NEW r, NEW x \in Line, ~EventOf(x, r), file \in Seq(FileWrite), Grows(x),
           \A i \in DOMAIN file : ~EventOf(file[i].line, r)
    PROVE  \A i \in DOMAIN file' : ~EventOf(file'[i].line, r)
<1>1. CASE file' = file
  BY <1>1
<1>2. CASE \E form \in {"whole", "open", "torn"} : file' = Append(file, Written(x, form))
  <2>1. PICK form \in {"whole", "open", "torn"} : file' = Append(file, Written(x, form))
    BY <1>2
  <2>2. Written(x, form) \in FileWrite /\ Written(x, form).line = x
    BY DEF Written, FileWrite
  <2>3. /\ file' \in Seq(FileWrite) /\ Len(file') = Len(file) + 1 /\ Len(file) \in Nat
        /\ \A i \in 1..Len(file) : file'[i] = file[i]
        /\ file'[Len(file) + 1].line = x
    BY <2>1, <2>2, Appended
  <2>4. DOMAIN file' = 1..Len(file') /\ DOMAIN file = 1..Len(file)
    BY <2>3, Elements
  <2>. QED BY <2>3, <2>4
<1>. QED BY <1>1, <1>2 DEF Grows

LEMMA NotBegunStep ==
    ASSUME EngineTyped, RecorderTyped, CallIsOfTheRun, StreamInv, OwnEvents, NotBegun, Next
    PROVE  NotBegun'
<1>1. Runs' = Runs /\ captures \in Nat
  BY StepParts DEF Runs, RecorderTyped, EngineTyped, Workload
<1>2. captures' >= captures /\ captures' \in Nat
  <2>1. captures' = captures \/ captures' = captures + 1
    <3>1. CASE StartCapture
      BY <3>1 DEF StartCapture
    <3>. QED BY <3>1, StepParts DEF Engine, Quiet, recorder, StartEngine, StopEngine, NewEvent, WriteIgnored, Broadcast,
         Crash, Write, WriteFails, StopCapture
  <2>. QED BY <1>1, <2>1
<1>. SUFFICES ASSUME NEW r \in Runs, r > captures'
              PROVE  /\ attempted'[r] = <<>> /\ safe'[r] = 0
                     /\ \A i \in DOMAIN file' : ~EventOf(file'[i].line, r)
  BY <1>1 DEF NotBegun
<1>3. /\ r > captures /\ attempted[r] = <<>> /\ safe[r] = 0
      /\ \A i \in DOMAIN file : ~EventOf(file[i].line, r)
  BY <1>1, <1>2 DEF NotBegun, Runs, EngineTyped, Workload
<1>4. r # run
  BY <1>3 DEF RecorderTyped, EngineTyped, Workload, NoRun
<1>5. attempted'[r] = attempted[r]
  <2>1. CASE NewEvent
    <3>1. PICK e : attempted' = [attempted EXCEPT ![run] = Append(@, e)]
      BY <2>1, NewEventIs
    <3>. QED BY <1>4, <3>1 DEF RecorderTyped
  <2>. QED BY <2>1, StepParts DEF Engine, Quiet, recorder, StartEngine, StopEngine, StartCapture, WriteIgnored,
     Broadcast, Crash, Write, WriteFails, StopCapture
<1>6. safe'[r] = safe[r]
  <2>1. CASE Write
    BY <1>4, <2>1 DEF Write, RecorderTyped
  <2>. QED BY <2>1, StepParts DEF Engine, Quiet, recorder, StartEngine, StopEngine, StartCapture, WriteIgnored,
     Broadcast, Crash, NewEvent, WriteFails, StopCapture
<1>7. \A i \in DOMAIN file' : ~EventOf(file'[i].line, r)
  <2>1. CASE file' = file
    BY <1>3, <2>1
  <2>2. CASE file' # file
    <3>1. PICK x \in Line : Grows(x) /\ run # NoRun /\ (x.kind = "event" => x.run = run)
      BY <2>2, GrowsBy
    <3>2. ~EventOf(x, r)
      BY <1>4, <3>1 DEF EventOf
    <3>. QED BY <1>3, <3>1, <3>2, NoneAdded DEF RecorderTyped
  <2>. QED BY <2>1, <2>2
<1>. QED BY <1>3, <1>5, <1>6, <1>7

-----------------------------------------------------------------------------
(***************************************************************************)
(* Where the events of a capture are in a file that grows.                 *)
(***************************************************************************)
LEMMA FileGrown ==
    ASSUME NEW f \in Seq(FileWrite), NEW x \in Line, NEW form \in {"whole", "open", "torn"}
    PROVE  LET g == Append(f, Written(x, form)) IN
           /\ g \in Seq(FileWrite) /\ Len(g) = Len(f) + 1 /\ Len(f) \in Nat
           /\ DOMAIN g = 1..(Len(f) + 1) /\ DOMAIN f = 1..Len(f)
           /\ \A i \in 1..Len(f) : g[i] = f[i]
           /\ g[Len(f) + 1] = Written(x, form) /\ g[Len(f) + 1].line = x /\ g[Len(f) + 1].form = form
<1>1. Written(x, form) \in FileWrite /\ Written(x, form).line = x /\ Written(x, form).form = form
  BY DEF Written, FileWrite
<1>2. /\ Append(f, Written(x, form)) \in Seq(FileWrite) /\ Len(Append(f, Written(x, form))) = Len(f) + 1
      /\ Len(f) \in Nat
      /\ \A i \in 1..Len(f) : Append(f, Written(x, form))[i] = f[i]
      /\ Append(f, Written(x, form))[Len(f) + 1] = Written(x, form)
  BY <1>1, Appended
<1>3. DOMAIN Append(f, Written(x, form)) = 1..(Len(f) + 1) /\ DOMAIN f = 1..Len(f)
  BY <1>2, LenProperties
<1>. QED BY <1>1, <1>2, <1>3

\* A write that is no event of r changes nothing for r.
LEMMA LogOfOther ==
    ASSUME NEW f \in Seq(FileWrite), NEW r, NEW a \in Seq(EventLine), NEW s \in Nat, NEW b \in 0..Len(f),
           LogOf(f, r, a, s, b), NEW x \in Line, NEW form \in {"whole", "open", "torn"}, ~EventOf(x, r)
    PROVE  LogOf(Append(f, Written(x, form)), r, a, s, b) /\ b \in 0..Len(Append(f, Written(x, form)))
<1>50. Len(f) \in Nat /\ DOMAIN f = 1..Len(f) /\ Len(a) \in Nat /\ b \in Nat
  BY LenProperties
<1>51. /\ b + s <= Len(f) /\ s <= Len(a) /\ b \in Nat /\ Len(f) \in Nat /\ Len(a) \in Nat /\ DOMAIN f = 1..Len(f)
       /\ s > 0 => b > 0 /\ f[b].form = "whole"
  BY <1>50 DEF LogOf
<1>52. \A k \in 1..s : f[b + k] = Written(a[k], "whole")
  BY <1>50 DEF LogOf
<1>53. \A i \in 1..Len(f) : EventOf(f[i].line, r) /\ i \notin (b + 1)..(b + s) =>
          i > b + s /\ s < Len(a) /\ f[i].line = a[s + 1]
  BY <1>50 DEF LogOf
<1>54. \A i, j \in 1..Len(f) :
          EventOf(f[i].line, r) /\ i > b + s /\ EventOf(f[j].line, r) /\ i < j => f[i].form # "whole"
  BY <1>50 DEF LogOf
<1>. DEFINE g == Append(f, Written(x, form))
<1>1. /\ Len(g) = Len(f) + 1 /\ Len(f) \in Nat /\ DOMAIN g = 1..(Len(f) + 1)
      /\ \A i \in 1..Len(f) : g[i] = f[i]
      /\ g[Len(f) + 1].line = x
  BY FileGrown
<1>. HIDE DEF g
<1>2. \A i \in DOMAIN g : EventOf(g[i].line, r) => i \in 1..Len(f) /\ g[i] = f[i]
  BY <1>1
<1>3. b + s <= Len(g) /\ s <= Len(a) /\ b \in 0..Len(g) /\ b \in Nat
  BY <1>1, <1>51
<1>4. s > 0 => b > 0 /\ g[b].form = "whole"
  BY <1>1, <1>51
<1>5. \A k \in 1..s : g[b + k] = Written(a[k], "whole")
  <2>. TAKE k \in 1..s
  <2>1. b + k \in 1..Len(f) /\ f[b + k] = Written(a[k], "whole")
    BY <1>51, <1>52, <1>53, <1>54
  <2>. QED BY <1>1, <2>1
<1>6. \A i \in DOMAIN g : EventOf(g[i].line, r) /\ i \notin (b + 1)..(b + s) =>
         i > b + s /\ s < Len(a) /\ g[i].line = a[s + 1]
  BY <1>2, <1>51, <1>52, <1>53, <1>54
<1>7. \A i, j \in DOMAIN g :
         EventOf(g[i].line, r) /\ i > b + s /\ EventOf(g[j].line, r) /\ i < j => g[i].form # "whole"
  BY <1>2, <1>51, <1>52, <1>53, <1>54
<1>8. LogOf(g, r, a, s, b)
  BY <1>3, <1>4, <1>5, <1>6, <1>7 DEF LogOf
<1>. QED BY <1>3, <1>8 DEF g

\* The sink is called with another event.
LEMMA LogOfCalled ==
    ASSUME NEW f \in Seq(FileWrite), NEW r, NEW a \in Seq(EventLine), NEW s \in Nat, NEW b \in 0..Len(f),
           LogOf(f, r, a, s, b), NEW e \in EventLine
    PROVE  LogOf(f, r, Append(a, e), s, b)
<1>50. Len(f) \in Nat /\ DOMAIN f = 1..Len(f) /\ Len(a) \in Nat /\ b \in Nat
  BY LenProperties
<1>51. /\ b + s <= Len(f) /\ s <= Len(a) /\ b \in Nat /\ Len(f) \in Nat /\ Len(a) \in Nat /\ DOMAIN f = 1..Len(f)
       /\ s > 0 => b > 0 /\ f[b].form = "whole"
  BY <1>50 DEF LogOf
<1>52. \A k \in 1..s : f[b + k] = Written(a[k], "whole")
  BY <1>50 DEF LogOf
<1>53. \A i \in 1..Len(f) : EventOf(f[i].line, r) /\ i \notin (b + 1)..(b + s) =>
          i > b + s /\ s < Len(a) /\ f[i].line = a[s + 1]
  BY <1>50 DEF LogOf
<1>54. \A i, j \in 1..Len(f) :
          EventOf(f[i].line, r) /\ i > b + s /\ EventOf(f[j].line, r) /\ i < j => f[i].form # "whole"
  BY <1>50 DEF LogOf
<1>. DEFINE c == Append(a, e)
<1>1. Len(c) = Len(a) + 1 /\ Len(a) \in Nat /\ \A k \in 1..Len(a) : c[k] = a[k]
  BY Appended
<1>. HIDE DEF c
<1>2. b + s <= Len(f) /\ s <= Len(c) /\ DOMAIN f = 1..Len(f) /\ (s > 0 => b > 0 /\ f[b].form = "whole")
  BY <1>1, <1>51
<1>3. \A k \in 1..s : f[b + k] = Written(c[k], "whole")
  <2>. TAKE k \in 1..s
  <2>1. f[b + k] = Written(a[k], "whole") /\ k \in 1..Len(a)
    BY <1>51, <1>52, <1>53, <1>54
  <2>2. c[k] = a[k]
    BY <1>1, <2>1
  <2>. QED BY <2>1, <2>2
<1>4. \A i \in DOMAIN f : EventOf(f[i].line, r) /\ i \notin (b + 1)..(b + s) =>
         i > b + s /\ s < Len(c) /\ f[i].line = c[s + 1]
  <2>. SUFFICES ASSUME NEW i \in DOMAIN f, EventOf(f[i].line, r), i \notin (b + 1)..(b + s)
                PROVE  i > b + s /\ s < Len(c) /\ f[i].line = c[s + 1]
    OBVIOUS
  <2>1. i \in 1..Len(f) /\ i > b + s /\ s < Len(a) /\ f[i].line = a[s + 1]
    BY <1>51, <1>52, <1>53, <1>54
  <2>2. s + 1 \in 1..Len(a)
    BY <1>1, <2>1
  <2>. QED BY <1>1, <2>1, <2>2
<1>5. \A i, j \in DOMAIN f :
         EventOf(f[i].line, r) /\ i > b + s /\ EventOf(f[j].line, r) /\ i < j => f[i].form # "whole"
  BY <1>51, <1>52, <1>53, <1>54
<1>6. LogOf(f, r, c, s, b)
  BY <1>2, <1>3, <1>4, <1>5 DEF LogOf
<1>. QED BY <1>6 DEF c

\* The event is written in full, after all that is safe.
LEMMA LogOfWritten ==
    ASSUME NEW f \in Seq(FileWrite), NEW r, NEW a \in Seq(EventLine), NEW s \in Nat, NEW b \in 0..Len(f),
           LogOf(f, r, a, s, b), b + s = Len(f), Len(f) > 0, f[Len(f)].form = "whole", s < Len(a)
    PROVE  LogOf(Append(f, Written(a[s + 1], "whole")), r, a, s + 1, b)
<1>50. Len(f) \in Nat /\ DOMAIN f = 1..Len(f) /\ Len(a) \in Nat /\ b \in Nat
  BY LenProperties
<1>51. /\ b + s <= Len(f) /\ s <= Len(a) /\ b \in Nat /\ Len(f) \in Nat /\ Len(a) \in Nat /\ DOMAIN f = 1..Len(f)
       /\ s > 0 => b > 0 /\ f[b].form = "whole"
  BY <1>50 DEF LogOf
<1>52. \A k \in 1..s : f[b + k] = Written(a[k], "whole")
  BY <1>50 DEF LogOf
<1>53. \A i \in 1..Len(f) : EventOf(f[i].line, r) /\ i \notin (b + 1)..(b + s) =>
          i > b + s /\ s < Len(a) /\ f[i].line = a[s + 1]
  BY <1>50 DEF LogOf
<1>54. \A i, j \in 1..Len(f) :
          EventOf(f[i].line, r) /\ i > b + s /\ EventOf(f[j].line, r) /\ i < j => f[i].form # "whole"
  BY <1>50 DEF LogOf
<1>. DEFINE g == Append(f, Written(a[s + 1], "whole"))
<1>1. Len(a) \in Nat /\ Len(f) \in Nat /\ b \in Nat
  BY <1>51
<1>2. a[s + 1] \in Line
  <2>1. s + 1 \in 1..Len(a)
    BY <1>1
  <2>2. a[s + 1] \in EventLine
    BY <2>1, ElementOfSeq
  <2>. QED BY <2>2 DEF Line
<1>3. /\ Len(g) = Len(f) + 1 /\ DOMAIN g = 1..(Len(f) + 1)
      /\ \A i \in 1..Len(f) : g[i] = f[i]
      /\ g[Len(f) + 1] = Written(a[s + 1], "whole")
  <2>1. "whole" \in {"whole", "open", "torn"}
    OBVIOUS
  <2>. QED BY <1>2, <2>1, FileGrown
<1>. HIDE DEF g
<1>4. b + (s + 1) <= Len(g) /\ s + 1 <= Len(a) /\ s + 1 \in Nat /\ b \in 0..Len(g)
  BY <1>1, <1>3
<1>5. b > 0 /\ g[b].form = "whole"
  <2>1. b > 0 /\ f[b].form = "whole"
    <3>1. CASE s = 0
      BY <1>1, <3>1
    <3>2. CASE s > 0
      BY <3>2, <1>51, <1>52, <1>53, <1>54
    <3>. QED BY <3>1, <3>2
  <2>. QED BY <1>1, <1>3, <2>1
<1>6. \A k \in 1..(s + 1) : g[b + k] = Written(a[k], "whole")
  <2>. TAKE k \in 1..(s + 1)
  <2>1. CASE k = s + 1
    <3>1. b + k = Len(f) + 1
      BY <1>1, <2>1
    <3>. QED BY <1>3, <2>1, <3>1
  <2>2. CASE k # s + 1
    <3>1. k \in 1..s /\ b + k \in 1..Len(f)
      BY <1>1, <2>2
    <3>. QED BY <1>3, <3>1, <1>51, <1>52, <1>53, <1>54
  <2>. QED BY <2>1, <2>2
<1>7. ASSUME NEW i \in DOMAIN g, EventOf(g[i].line, r) PROVE i \in (b + 1)..(b + (s + 1))
  <2>1. CASE i = Len(f) + 1
    BY <1>1, <2>1
  <2>2. CASE i # Len(f) + 1
    <3>1. i \in 1..Len(f) /\ EventOf(f[i].line, r)
      BY <1>1, <1>3, <1>7, <2>2
    <3>2. i \notin (b + 1)..(b + s) => i > b + s
      BY <3>1, <1>51, <1>52, <1>53, <1>54
    <3>. QED BY <1>1, <3>1, <3>2
  <2>. QED BY <2>1, <2>2
<1>8. LogOf(g, r, a, s + 1, b)
  <2>1. \A i, j \in DOMAIN g :
          EventOf(g[i].line, r) /\ i > b + (s + 1) /\ EventOf(g[j].line, r) /\ i < j => g[i].form # "whole"
    <3>. TAKE i, j \in DOMAIN g
    <3>1. EventOf(g[i].line, r) => ~(i > b + (s + 1))
      BY <1>1, <1>7
    <3>. QED BY <3>1
  <2>2. \A i \in DOMAIN g : EventOf(g[i].line, r) /\ i \notin (b + 1)..(b + (s + 1)) =>
          i > b + (s + 1) /\ s + 1 < Len(a) /\ g[i].line = a[(s + 1) + 1]
    BY <1>7
  <2>. QED BY <1>4, <1>5, <1>6, <2>1, <2>2 DEF LogOf
<1>. QED BY <1>8 DEF g

\* The next event is written in part, or once more when the file is closed.
LEMMA LogOfBroken ==
    ASSUME NEW f \in Seq(FileWrite), NEW r, NEW a \in Seq(EventLine), NEW s \in Nat, NEW b \in 0..Len(f),
           LogOf(f, r, a, s, b), s < Len(a), NEW form \in {"whole", "open", "torn"},
           \A i \in 1..Len(f) : EventOf(f[i].line, r) /\ i > b + s => f[i].form # "whole"
    PROVE  LogOf(Append(f, Written(a[s + 1], form)), r, a, s, b) /\ b \in 0..Len(Append(f, Written(a[s + 1], form)))
<1>50. Len(f) \in Nat /\ DOMAIN f = 1..Len(f) /\ Len(a) \in Nat /\ b \in Nat
  BY LenProperties
<1>51. /\ b + s <= Len(f) /\ s <= Len(a) /\ b \in Nat /\ Len(f) \in Nat /\ Len(a) \in Nat /\ DOMAIN f = 1..Len(f)
       /\ s > 0 => b > 0 /\ f[b].form = "whole"
  BY <1>50 DEF LogOf
<1>52. \A k \in 1..s : f[b + k] = Written(a[k], "whole")
  BY <1>50 DEF LogOf
<1>53. \A i \in 1..Len(f) : EventOf(f[i].line, r) /\ i \notin (b + 1)..(b + s) =>
          i > b + s /\ s < Len(a) /\ f[i].line = a[s + 1]
  BY <1>50 DEF LogOf
<1>54. \A i, j \in 1..Len(f) :
          EventOf(f[i].line, r) /\ i > b + s /\ EventOf(f[j].line, r) /\ i < j => f[i].form # "whole"
  BY <1>50 DEF LogOf
<1>. DEFINE g == Append(f, Written(a[s + 1], form))
<1>1. Len(a) \in Nat /\ Len(f) \in Nat /\ b \in Nat /\ b + s <= Len(f)
  BY <1>51
<1>2. a[s + 1] \in Line
  <2>1. s + 1 \in 1..Len(a)
    BY <1>1
  <2>2. a[s + 1] \in EventLine
    BY <2>1, ElementOfSeq
  <2>. QED BY <2>2 DEF Line
<1>3. /\ Len(g) = Len(f) + 1 /\ DOMAIN g = 1..(Len(f) + 1)
      /\ \A i \in 1..Len(f) : g[i] = f[i]
      /\ g[Len(f) + 1].line = a[s + 1]
  BY <1>2, FileGrown
<1>. HIDE DEF g
<1>4. b + s <= Len(g) /\ s <= Len(a) /\ b \in 0..Len(g)
  BY <1>1, <1>3
<1>5. s > 0 => b > 0 /\ g[b].form = "whole"
  BY <1>1, <1>3, <1>51, <1>52, <1>53, <1>54
<1>6. \A k \in 1..s : g[b + k] = Written(a[k], "whole")
  <2>. TAKE k \in 1..s
  <2>1. b + k \in 1..Len(f) /\ f[b + k] = Written(a[k], "whole")
    BY <1>1, <1>51, <1>52, <1>53, <1>54
  <2>. QED BY <1>3, <2>1
<1>7. \A i \in DOMAIN g : i = Len(f) + 1 \/ (i \in 1..Len(f) /\ g[i] = f[i])
  BY <1>1, <1>3
<1>8. \A i \in DOMAIN g : EventOf(g[i].line, r) /\ i \notin (b + 1)..(b + s) =>
         i > b + s /\ s < Len(a) /\ g[i].line = a[s + 1]
  <2>. SUFFICES ASSUME NEW i \in DOMAIN g, EventOf(g[i].line, r), i \notin (b + 1)..(b + s)
                PROVE  i > b + s /\ s < Len(a) /\ g[i].line = a[s + 1]
    OBVIOUS
  <2>1. CASE i = Len(f) + 1
    BY <1>1, <1>3, <2>1
  <2>2. CASE i \in 1..Len(f) /\ g[i] = f[i]
    BY <2>2, <1>51, <1>52, <1>53, <1>54
  <2>. QED BY <1>7, <2>1, <2>2
<1>9. \A i, j \in DOMAIN g :
         EventOf(g[i].line, r) /\ i > b + s /\ EventOf(g[j].line, r) /\ i < j => g[i].form # "whole"
  <2>. SUFFICES ASSUME NEW i \in DOMAIN g, NEW j \in DOMAIN g, EventOf(g[i].line, r), i > b + s, i < j
                PROVE  g[i].form # "whole"
    OBVIOUS
  <2>1. i \in 1..Len(f) /\ g[i] = f[i]
    BY <1>1, <1>3
  <2>. QED BY <2>1
<1>10. LogOf(g, r, a, s, b)
  BY <1>4, <1>5, <1>6, <1>8, <1>9 DEF LogOf
<1>. QED BY <1>4, <1>10 DEF g

-----------------------------------------------------------------------------
(***************************************************************************)
(* Every capture is in the file as it was recorded.                        *)
(***************************************************************************)
LEMMA CaptureTyped ==
    ASSUME RecorderTyped, NEW r \in Runs
    PROVE  attempted[r] \in Seq(EventLine) /\ safe[r] \in Nat /\ file \in Seq(FileWrite)
BY DEF RecorderTyped

\* A capture that is not the one in progress.
LEMMA OtherIsLogged ==
    ASSUME RecorderTyped, LogInv, NEW r \in Runs, attempted'[r] = attempted[r], safe'[r] = safe[r], r # run',
           \/ file' = file
           \/ \E x \in Line : Grows(x) /\ ~EventOf(x, r)
    PROVE  IsLogged(r)'
<1>1. PICK b \in 0..Len(file) : LogOf(file, r, attempted[r], safe[r], b)
  BY DEF LogInv, IsLogged
<1>2. attempted[r] \in Seq(EventLine) /\ safe[r] \in Nat /\ file \in Seq(FileWrite)
  BY CaptureTyped
<1>3. b \in 0..Len(file') /\ LogOf(file', r, attempted[r], safe[r], b)
  <2>1. CASE file' = file
    BY <1>1, <2>1
  <2>2. CASE file' # file
    <3>1. PICK x \in Line, form \in {"whole", "open", "torn"} :
              ~EventOf(x, r) /\ file' = Append(file, Written(x, form))
      BY <2>2 DEF Grows
    <3>2. /\ LogOf(Append(file, Written(x, form)), r, attempted[r], safe[r], b)
          /\ b \in 0..Len(Append(file, Written(x, form)))
      BY <1>1, <1>2, <3>1, LogOfOther
    <3>. QED BY <3>1, <3>2
  <2>. QED BY <2>1, <2>2
<1>4. LogOf(file', r, attempted'[r], safe'[r], b)
  BY <1>3
<1>. QED BY <1>3, <1>4 DEF IsLogged

\* The places of the run in progress, and what is known of its end.
LEMMA RunIsLogged ==
    ASSUME EngineTyped, RecorderTyped, LogInv, run # NoRun
    PROVE  /\ run \in Runs /\ attempted[run] \in Seq(EventLine) /\ safe[run] \in Nat /\ file \in Seq(FileWrite)
           /\ \E b \in 0..Len(file) : LogOf(file, run, attempted[run], safe[run], b) /\ InProgress(run, b)
<1>1. run \in Runs /\ attempted[run] \in Seq(EventLine) /\ safe[run] \in Nat
  BY RunTyped
<1>. QED BY <1>1, CaptureTyped DEF LogInv, IsLogged

LEMMA StartIsLogged ==
    ASSUME EngineTyped, RecorderTyped, NotBegun, LogInv, StartCapture, NEW r, r = captures + 1
    PROVE  IsLogged(r)'
<1>1. r \in Runs /\ r > captures /\ run' = r
  BY DEF StartCapture, RecorderTyped, EngineTyped, Workload, Runs
<1>2. /\ attempted'[r] = <<>> /\ safe'[r] = 0 /\ file' = file
      /\ \A i \in DOMAIN file' : ~EventOf(file'[i].line, r)
  BY <1>1 DEF StartCapture, NotBegun
<1>3. ~stream'.failed /\ MetadataCalled'
  BY StreamsTyped DEF StartCapture, Metadata, MetadataCalled
<1>4. Len(file') \in Nat /\ 0 \in 0..Len(file')
  BY <1>2, LenProperties DEF RecorderTyped
<1>5. LogOf(file', r, attempted'[r], safe'[r], 0)
  BY <1>2, <1>4 DEF LogOf
<1>6. InProgress(r, 0)'
  BY <1>2, <1>3 DEF InProgress
<1>. QED BY <1>4, <1>5, <1>6 DEF IsLogged

LEMMA NewIsLogged ==
    ASSUME EngineTyped, RecorderTyped, CallIsOfTheRun, LogInv, NewEvent, NEW r, r = run
    PROVE  IsLogged(r)'
<1>1. run # NoRun /\ run' = run /\ file' = file /\ safe' = safe /\ stream' = stream /\ call.at = "none"
  BY DEF NewEvent, NoCall
<1>2. PICK b \in 0..Len(file) : LogOf(file, run, attempted[run], safe[run], b) /\ InProgress(run, b)
  BY <1>1, RunIsLogged
<1>3. PICK e : /\ NewOf(e) /\ call' = [at |-> "record", line |-> e]
               /\ attempted' = [attempted EXCEPT ![run] = Append(@, e)]
  BY NewEventIs
<1>4. /\ run \in Runs /\ attempted[run] \in Seq(EventLine) /\ safe[run] \in Nat /\ file \in Seq(FileWrite)
      /\ e \in EventLine /\ attempted'[run] = Append(attempted[run], e)
  BY <1>1, <1>3, RunIsLogged DEF NewOf, RecorderTyped
<1>5. LogOf(file', run, attempted'[run], safe'[run], b)
  <2>1. LogOf(file, run, Append(attempted[run], e), safe[run], b)
    BY <1>2, <1>4, LogOfCalled
  <2>. QED BY <1>1, <1>4, <2>1
<1>6. ~MetadataCalled /\ ~MetadataCalled'
  BY <1>1, <1>3 DEF MetadataCalled, NewOf
<1>7. InProgress(r, b)'
  BY <1>1, <1>2, <1>6 DEF InProgress
<1>. QED BY <1>1, <1>5, <1>7 DEF IsLogged

\* record() writes all of the line.
LEMMA WriteIsLogged ==
    ASSUME EngineTyped, RecorderTyped, CallIsOfTheRun, StreamInv, LogInv, Write, NEW r, r = run
    PROVE  IsLogged(r)'
<1>1. /\ call.at = "record" /\ call.at # "none" /\ ~stream.failed /\ RecordReturns
      /\ file' = Append(file, Written(call.line, "whole"))
      /\ run' = run /\ stream' = stream /\ attempted' = attempted
  BY DEF Write
<1>2. run # NoRun /\ call.line \in Line
  BY <1>1, CallTyped DEF CallIsOfTheRun
<1>3. PICK b \in 0..Len(file) : LogOf(file, run, attempted[run], safe[run], b) /\ InProgress(run, b)
  BY <1>2, RunIsLogged
<1>4. /\ run \in Runs /\ attempted[run] \in Seq(EventLine) /\ safe[run] \in Nat /\ file \in Seq(FileWrite)
      /\ safe \in [Runs -> Nat]
  BY <1>2, RunIsLogged DEF RecorderTyped
<1>5. /\ Len(file') = Len(file) + 1 /\ Len(file) \in Nat /\ DOMAIN file' = 1..(Len(file) + 1)
      /\ DOMAIN file = 1..Len(file)
      /\ \A i \in 1..Len(file) : file'[i] = file[i]
      /\ file'[Len(file) + 1].line = call.line /\ file'[Len(file) + 1].form = "whole"
  <2>1. "whole" \in {"whole", "open", "torn"}
    OBVIOUS
  <2>. QED BY <1>1, <1>2, <1>4, <2>1, FileGrown
<1>6. ~MetadataCalled' /\ stream'.failed = FALSE
  <2>1. call'.at # "record"
    BY <1>1, ReturnedCall DEF NoCall
  <2>2. stream.failed \in BOOLEAN
    BY DEF RecorderTyped
  <2>. QED BY <1>1, <2>1, <2>2 DEF MetadataCalled
<1>7. CASE call.line.kind = "event"
  <2>1. safe'[run] = safe[run] + 1
    BY <1>4, <1>7 DEF Write
  <2>2. EventCalled /\ ~MetadataCalled
    BY <1>1, <1>7 DEF EventCalled, MetadataCalled
  <2>3. b + safe[run] = Len(file) /\ Len(file) > 0 /\ file[Len(file)].form = "whole"
    BY <1>1, <1>3, <2>2 DEF InProgress
  <2>4. Len(attempted[run]) = safe[run] + 1 /\ call.line = attempted[run][safe[run] + 1]
    BY <1>1, <1>2, <1>7, <2>2 DEF StreamInv, CallIsOfTheRun
  <2>5. LogOf(file', run, attempted[run], safe[run] + 1, b)
    <3>1. safe[run] < Len(attempted[run])
      BY <1>4, <2>4
    <3>2. LogOf(Append(file, Written(attempted[run][safe[run] + 1], "whole")), run, attempted[run], safe[run] + 1, b)
      BY <1>3, <1>4, <2>3, <3>1, LogOfWritten
    <3>. QED BY <1>1, <2>4, <3>2
  <2>6. b + safe'[run] = Len(file') /\ Len(file') > 0 /\ file'[Len(file')].form = "whole" /\ b \in 0..Len(file')
    BY <1>4, <1>5, <2>1, <2>3
  <2>7. InProgress(r, b)'
    BY <1>6, <2>6 DEF InProgress
  <2>. QED BY <1>1, <2>1, <2>5, <2>6, <2>7 DEF IsLogged
<1>8. CASE call.line.kind # "event"
  <2>1. safe' = safe /\ MetadataCalled
    BY <1>1, <1>2, <1>8, CallTyped DEF Write, MetadataCalled
  <2>2. safe[run] = 0 /\ \A i \in DOMAIN file : ~EventOf(file[i].line, run)
    BY <1>1, <1>3, <2>1 DEF InProgress
  <2>3. \A i \in DOMAIN file' : ~EventOf(file'[i].line, run)
    BY <1>5, <1>8, <2>2 DEF EventOf
  <2>. PICK n \in Nat : n = Len(file')
    BY <1>5
  <2>4. n + safe'[run] = Len(file') /\ Len(file') > 0 /\ file'[Len(file')].form = "whole" /\ n \in 0..Len(file')
    BY <1>5, <2>1, <2>2
  <2>5. LogOf(file', run, attempted'[run], safe'[run], n)
    <3>1. 0 <= Len(attempted[run]) /\ safe'[run] = 0
      BY <1>4, <2>1, <2>2, LenProperties
    <3>. QED BY <1>1, <2>3, <2>4, <3>1 DEF LogOf
  <2>6. InProgress(r, n)'
    BY <1>6, <2>4 DEF InProgress
  <2>. QED BY <1>1, <2>4, <2>5, <2>6 DEF IsLogged
<1>. QED BY <1>7, <1>8

\* What a write that did not succeed leaves in the file for the run it was of.
LEMMA BrokenIsLogged ==
    ASSUME EngineTyped, RecorderTyped, CallIsOfTheRun, StreamInv, LogInv, call.at = "record", ~stream.failed,
           file' \in Interrupted(file, call.line)
    PROVE  \E b \in 0..Len(file') :
              /\ LogOf(file', run, attempted[run], safe[run], b)
              /\ \A i \in DOMAIN file' : EventOf(file'[i].line, run) /\ i > b + safe[run] => file'[i].form # "whole"
<1>1. run # NoRun /\ call.line \in Line /\ call.at # "none"
  BY CallTyped DEF CallIsOfTheRun
<1>2. PICK b \in 0..Len(file) : LogOf(file, run, attempted[run], safe[run], b) /\ InProgress(run, b)
  BY <1>1, RunIsLogged
<1>3. run \in Runs /\ attempted[run] \in Seq(EventLine) /\ safe[run] \in Nat /\ file \in Seq(FileWrite)
  BY <1>1, RunIsLogged
<1>4. \A i \in DOMAIN file : EventOf(file[i].line, run) => ~(i > b + safe[run])
  <2>1. DOMAIN file = 1..Len(file) /\ Len(file) \in Nat
    BY <1>3, Elements
  <2>2. CASE MetadataCalled
    BY <1>2, <2>2 DEF InProgress
  <2>3. CASE ~MetadataCalled
    BY <1>2, <1>3, <2>1, <2>3 DEF InProgress
  <2>. QED BY <2>2, <2>3
<1>5. CASE file' = file
  BY <1>2, <1>4, <1>5
<1>6. CASE file' # file
  <2>1. PICK form \in {"open", "torn"} : file' = Append(file, Written(call.line, form))
    BY <1>1, <1>3, <1>6, InterruptedFile
  <2>2. form \in {"whole", "open", "torn"} /\ form # "whole"
    BY <2>1
  <2>3. /\ Len(file) \in Nat /\ DOMAIN file' = 1..(Len(file) + 1) /\ DOMAIN file = 1..Len(file)
        /\ \A i \in 1..Len(file) : file'[i] = file[i]
        /\ file'[Len(file) + 1].form = form
    BY <1>1, <1>3, <2>1, <2>2, FileGrown
  <2>4. \A i \in DOMAIN file' : EventOf(file'[i].line, run) /\ i > b + safe[run] => file'[i].form # "whole"
    <3>. TAKE i \in DOMAIN file'
    <3>1. CASE i = Len(file) + 1
      BY <2>2, <2>3, <3>1
    <3>2. CASE i # Len(file) + 1
      BY <1>4, <2>3, <3>2
    <3>. QED BY <3>1, <3>2
  <2>5. LogOf(file', run, attempted[run], safe[run], b) /\ b \in 0..Len(file')
    <3>1. CASE call.line.kind = "event"
      <4>1. Len(attempted[run]) = safe[run] + 1 /\ call.line = attempted[run][safe[run] + 1]
        BY <1>1, <3>1 DEF StreamInv, CallIsOfTheRun, EventCalled
      <4>2. safe[run] < Len(attempted[run]) /\ file' = Append(file, Written(attempted[run][safe[run] + 1], form))
        BY <1>3, <2>1, <4>1
      <4>3. \A i \in 1..Len(file) : EventOf(file[i].line, run) /\ i > b + safe[run] => file[i].form # "whole"
        BY <1>4, <2>3
      <4>4. /\ LogOf(Append(file, Written(attempted[run][safe[run] + 1], form)), run, attempted[run], safe[run], b)
            /\ b \in 0..Len(Append(file, Written(attempted[run][safe[run] + 1], form)))
        BY <1>2, <1>3, <2>2, <4>2, <4>3, LogOfBroken
      <4>. QED BY <4>2, <4>4
    <3>2. CASE call.line.kind # "event"
      <4>1. ~EventOf(call.line, run)
        BY <3>2 DEF EventOf
      <4>2. /\ LogOf(Append(file, Written(call.line, form)), run, attempted[run], safe[run], b)
            /\ b \in 0..Len(Append(file, Written(call.line, form)))
        BY <1>1, <1>2, <1>3, <2>2, <4>1, LogOfOther
      <4>. QED BY <2>1, <4>2
    <3>. QED BY <3>1, <3>2
  <2>. QED BY <2>4, <2>5
<1>. QED BY <1>5, <1>6

LEMMA WriteFailsIsLogged ==
    ASSUME EngineTyped, RecorderTyped, CallIsOfTheRun, StreamInv, LogInv, WriteFails, NEW r, r = run
    PROVE  IsLogged(r)'
<1>1. /\ call.at = "record" /\ ~stream.failed /\ file' \in Interrupted(file, call.line)
      /\ attempted' = attempted /\ safe' = safe /\ run' = run
  BY DEF WriteFails
<1>2. PICK b \in 0..Len(file') :
          /\ LogOf(file', run, attempted[run], safe[run], b)
          /\ \A i \in DOMAIN file' : EventOf(file'[i].line, run) /\ i > b + safe[run] => file'[i].form # "whole"
  BY <1>1, BrokenIsLogged
<1>3. stream'.failed
  <2>1. PICK held \in {<<>>, <<call.line>>} : stream' = [stream EXCEPT !.failed = TRUE, !.held = held]
    BY DEF WriteFails
  <2>. QED BY <2>1 DEF RecorderTyped
<1>4. InProgress(r, b)'
  BY <1>1, <1>2, <1>3 DEF InProgress
<1>. QED BY <1>1, <1>2, <1>4 DEF IsLogged

LEMMA CrashIsLogged ==
    ASSUME EngineTyped, RecorderTyped, CallIsOfTheRun, StreamInv, LogInv, Crash, run # NoRun, NEW r, r = run
    PROVE  IsLogged(r)'
<1>1. attempted' = attempted /\ safe' = safe /\ run' = NoRun
  BY DEF Crash
<1>2. \E b \in 0..Len(file') : LogOf(file', run, attempted[run], safe[run], b)
  <2>1. CASE call.at = "record" /\ ~stream.failed
    <3>1. file' \in Interrupted(file, call.line)
      BY <2>1 DEF Crash
    <3>. QED BY <2>1, <3>1, BrokenIsLogged
  <2>2. CASE ~(call.at = "record" /\ ~stream.failed)
    <3>1. file' = file
      BY <2>2 DEF Crash
    <3>. QED BY <3>1, RunIsLogged
  <2>. QED BY <2>1, <2>2
<1>. QED BY <1>1, <1>2 DEF IsLogged

\* Closing the file writes the rest of a line, for the last time.
LEMMA StopIsLogged ==
    ASSUME EngineTyped, RecorderTyped, CallIsOfTheRun, StreamInv, LogInv, StopCapture, NEW r, r = run
    PROVE  IsLogged(r)'
<1>1. run # NoRun /\ attempted' = attempted /\ safe' = safe /\ run' = NoRun
  BY DEF StopCapture
<1>2. PICK b \in 0..Len(file) : LogOf(file, run, attempted[run], safe[run], b) /\ InProgress(run, b)
  BY <1>1, RunIsLogged
<1>3. run \in Runs /\ attempted[run] \in Seq(EventLine) /\ safe[run] \in Nat /\ file \in Seq(FileWrite)
  BY <1>1, RunIsLogged
<1>4. CASE file' = file
  BY <1>1, <1>2, <1>4 DEF IsLogged
<1>5. CASE file' # file
  <2>1. stream.held # <<>> /\ file' = Append(file, Written(stream.held[1], "whole"))
    BY <1>5 DEF StopCapture
  <2>2. stream.held[1] \in Line /\ 1 \in DOMAIN stream.held
    <3>1. stream.held \in Seq(Line)
      BY DEF RecorderTyped
    <3>. QED BY <2>1, <3>1, HeadAndTail, Elements
  <2>3. stream.failed
    BY <1>1, <2>1 DEF StreamInv
  <2>4. "whole" \in {"whole", "open", "torn"} /\ DOMAIN file = 1..Len(file)
    BY <1>3, Elements
  <2>5. LogOf(file', run, attempted[run], safe[run], b) /\ b \in 0..Len(file')
    <3>1. CASE stream.held[1].kind = "event"
      <4>1. safe[run] < Len(attempted[run]) /\ stream.held[1] = attempted[run][safe[run] + 1]
        BY <1>1, <2>2, <2>3, <3>1 DEF StreamInv
      <4>2. \A i \in 1..Len(file) : EventOf(file[i].line, run) /\ i > b + safe[run] => file[i].form # "whole"
        BY <1>2, <2>3, <2>4 DEF InProgress
      <4>3. /\ LogOf(Append(file, Written(attempted[run][safe[run] + 1], "whole")), run, attempted[run], safe[run], b)
            /\ b \in 0..Len(Append(file, Written(attempted[run][safe[run] + 1], "whole")))
        BY <1>2, <1>3, <2>4, <4>1, <4>2, LogOfBroken
      <4>. QED BY <2>1, <4>1, <4>3
    <3>2. CASE stream.held[1].kind # "event"
      <4>1. ~EventOf(stream.held[1], run)
        BY <3>2 DEF EventOf
      <4>2. /\ LogOf(Append(file, Written(stream.held[1], "whole")), run, attempted[run], safe[run], b)
            /\ b \in 0..Len(Append(file, Written(stream.held[1], "whole")))
        BY <1>2, <1>3, <2>2, <2>4, <4>1, LogOfOther
      <4>. QED BY <2>1, <4>2
    <3>. QED BY <3>1, <3>2
  <2>. QED BY <1>1, <2>5 DEF IsLogged
<1>. QED BY <1>4, <1>5

LEMMA SameIsLogged ==
    ASSUME LogInv, NEW r \in Runs, file' = file, attempted' = attempted, safe' = safe, run' = run, stream' = stream,
           stream.failed \/ MetadataCalled' = MetadataCalled
    PROVE  IsLogged(r)'
<1>1. PICK b \in 0..Len(file) :
          LogOf(file, r, attempted[r], safe[r], b) /\ (r = run => InProgress(r, b))
  BY DEF LogInv, IsLogged
<1>2. LogOf(file', r, attempted'[r], safe'[r], b) /\ b \in 0..Len(file')
  BY <1>1
<1>3. r = run' => InProgress(r, b)'
  BY <1>1 DEF InProgress
<1>. QED BY <1>2, <1>3 DEF IsLogged

LEMMA LogStep ==
    ASSUME EngineTyped, RecorderTyped, CallIsOfTheRun, NotBegun, StreamInv, OwnEvents, LogInv, Next
    PROVE  LogInv'
<1>1. Runs' = Runs /\ \A r \in Runs : r # NoRun
  BY StepParts DEF Runs, EngineTyped, Workload, NoRun
<1>. SUFFICES ASSUME NEW r \in Runs PROVE IsLogged(r)'
  BY <1>1 DEF LogInv
<1>2. CASE WorkerThread \/ Window \/ StartEngine \/ StopEngine
  <2>1. UNCHANGED recorder
    BY <1>2, StepParts DEF Quiet, StartEngine, StopEngine
  <2>. QED BY <2>1, SameIsLogged DEF recorder, MetadataCalled
<1>3. CASE WriteIgnored
  BY <1>3, SameIsLogged DEF WriteIgnored
<1>4. CASE Broadcast
  <2>1. ~MetadataCalled /\ ~MetadataCalled'
    BY <1>4 DEF Broadcast, MetadataCalled, NoCall
  <2>. QED BY <1>4, <2>1, SameIsLogged DEF Broadcast, MetadataCalled
<1>5. CASE StartCapture
  <2>1. CASE r = captures + 1
    BY <1>5, <2>1, StartIsLogged
  <2>2. CASE r # captures + 1
    BY <1>5, <2>2, OtherIsLogged DEF StartCapture
  <2>. QED BY <2>1, <2>2
<1>6. CASE NewEvent
  <2>1. CASE r = run
    BY <1>6, <2>1, NewIsLogged
  <2>2. CASE r # run
    <3>1. PICK e : attempted' = [attempted EXCEPT ![run] = Append(@, e)]
      BY <1>6, NewEventIs
    <3>2. attempted'[r] = attempted[r]
      BY <2>2, <3>1 DEF RecorderTyped
    <3>3. safe' = safe /\ run' = run /\ file' = file
      BY <1>6 DEF NewEvent
    <3>. QED BY <2>2, <3>2, <3>3, OtherIsLogged
  <2>. QED BY <2>1, <2>2
<1>7. ASSUME Crash \/ Write \/ WriteFails \/ StopCapture, r # run PROVE IsLogged(r)'
  <2>1. attempted'[r] = attempted[r] /\ r # run'
    BY <1>1, <1>7 DEF Crash, Write, WriteFails, StopCapture
  <2>2. safe'[r] = safe[r]
    <3>1. CASE Write
      BY <1>7, <3>1 DEF Write, RecorderTyped
    <3>2. CASE Crash \/ WriteFails \/ StopCapture
      BY <3>2 DEF Crash, WriteFails, StopCapture
    <3>. QED BY <1>7, <3>1, <3>2
  <2>3. file' = file \/ \E x \in Line : Grows(x) /\ ~EventOf(x, r)
    <3>1. file' = file \/ \E x \in Line : Grows(x) /\ run # NoRun /\ (x.kind = "event" => x.run = run)
      BY <1>7, GrowsBy
    <3>. QED BY <1>7, <3>1 DEF EventOf
  <2>. QED BY <2>1, <2>2, <2>3, OtherIsLogged
<1>8. ASSUME Crash \/ Write \/ WriteFails \/ StopCapture, r = run PROVE IsLogged(r)'
  <2>1. run # NoRun
    BY <1>1, <1>8
  <2>. QED BY <1>8, <2>1, CrashIsLogged, WriteIsLogged, WriteFailsIsLogged, StopIsLogged
<1>. QED BY <1>2, <1>3, <1>4, <1>5, <1>6, <1>7, <1>8, StepParts DEF Engine

\* What can be read back of each capture.
LEMMA LogIsRead ==
    ASSUME RecorderTyped, OwnEvents, LogInv
    PROVE  LogHoldsPrefixes
<1>. SUFFICES ASSUME NEW r \in Runs PROVE IsPrefix(Loaded(r), attempted[r]) /\ Len(Loaded(r)) >= safe[r]
  BY DEF LogHoldsPrefixes
<1>1. attempted[r] \in Seq(EventLine) /\ safe[r] \in Nat /\ file \in Seq(FileWrite)
  BY CaptureTyped
<1>2. PICK b \in 0..Len(file) : LogOf(file, r, attempted[r], safe[r], b)
  BY DEF LogInv, IsLogged
<1>3. \A k \in 1..Len(attempted[r]) : attempted[r][k].run = r
  BY DEF OwnEvents
<1>. QED BY <1>1, <1>2, <1>3, CaptureIsRead

-----------------------------------------------------------------------------
(***************************************************************************)
(* What has been seen was written before.                                  *)
(***************************************************************************)
\* An event that is safe, or whose capture has failed, stays so.
LEMMA LoggedStays ==
    ASSUME EngineTyped, RecorderTyped, LogInv, Next, NEW e, Logged(e)
    PROVE  Logged(e)'
<1>1. Runs' = Runs
  BY StepParts DEF Runs
<1>. SUFFICES ASSUME e.run \notin failed'
              PROVE  e.run \in Runs' /\ \E k \in 1..safe'[e.run] : e = attempted'[e.run][k]
  BY DEF Logged
<1>2. failed \subseteq failed'
  BY StepParts DEF Engine, Quiet, recorder, StartEngine, StopEngine, StartCapture, NewEvent, WriteIgnored,
     Broadcast, Crash, Write, WriteFails, StopCapture
<1>3. PICK k \in 1..safe[e.run] : e.run \in Runs /\ e = attempted[e.run][k]
  BY <1>2 DEF Logged
<1>4. attempted[e.run] \in Seq(EventLine) /\ safe[e.run] \in Nat
  BY <1>3, CaptureTyped
<1>5. safe'[e.run] >= safe[e.run] /\ safe'[e.run] \in Nat
  <2>1. CASE Write
    BY <1>3, <1>4, <2>1 DEF Write, RecorderTyped
  <2>2. CASE ~Write
    <3>1. safe' = safe
      BY <2>2, StepParts DEF Engine, Quiet, recorder, StartEngine, StopEngine, StartCapture, NewEvent, WriteIgnored,
         Broadcast, Crash, WriteFails, StopCapture
    <3>. QED BY <1>4, <3>1
  <2>. QED BY <2>1, <2>2
<1>6. attempted'[e.run][k] = attempted[e.run][k]
  <2>1. CASE NewEvent
    <3>1. PICK n : NewOf(n) /\ attempted' = [attempted EXCEPT ![run] = Append(@, n)]
      BY <2>1, NewEventIs
    <3>2. CASE e.run = run
      <4>1. n \in EventLine /\ attempted'[e.run] = Append(attempted[e.run], n)
        BY <1>3, <3>1, <3>2 DEF NewOf, RecorderTyped
      <4>2. k \in 1..Len(attempted[e.run])
        <5>1. safe[e.run] <= Len(attempted[e.run]) /\ Len(attempted[e.run]) \in Nat
          BY <1>3, <1>4, LenProperties DEF LogInv, IsLogged, LogOf
        <5>. QED BY <1>4, <5>1
      <4>. QED BY <1>4, <4>1, <4>2, Appended
    <3>3. CASE e.run # run
      BY <1>3, <3>1, <3>3 DEF RecorderTyped
    <3>. QED BY <3>2, <3>3
  <2>2. CASE ~NewEvent
    <3>1. attempted' = attempted
      BY <2>2, StepParts DEF Engine, Quiet, recorder, StartEngine, StopEngine, StartCapture, Write, WriteIgnored,
         Broadcast, Crash, WriteFails, StopCapture
    <3>. QED BY <3>1
  <2>. QED BY <2>1, <2>2
<1>7. k \in 1..safe'[e.run]
  BY <1>4, <1>5
<1>. QED BY <1>1, <1>3, <1>6, <1>7

\* record() has returned when the line is broadcast.
LEMMA BroadcastIsLogged ==
    ASSUME EngineTyped, RecorderTyped, CallIsOfTheRun, StreamInv, Write \/ WriteFails \/ WriteIgnored, bound' = bound,
           call'.at = "broadcast", NEW e, e = call'.line
    PROVE  Logged(e)'
<1>1. call.at = "record" /\ call.at # "none" /\ RecordReturns /\ attempted' = attempted /\ Runs' = Runs
  BY DEF Write, WriteFails, WriteIgnored, Runs
<1>2. call.line.kind = "event" /\ e = call.line
  BY <1>1, ReturnedCall DEF NoCall
<1>3. /\ e.run = run /\ run # NoRun /\ run \in Runs /\ safe[run] \in Nat /\ safe \in [Runs -> Nat] /\ EventCalled
      /\ e = attempted[run][Len(attempted[run])]
  BY <1>1, <1>2, RunTyped DEF CallIsOfTheRun, EventCalled, RecorderTyped
<1>4. CASE Write
  <2>1. ~stream.failed /\ safe'[run] = safe[run] + 1
    BY <1>2, <1>3, <1>4 DEF Write
  <2>2. Len(attempted[run]) = safe'[run]
    BY <1>3, <2>1 DEF StreamInv
  <2>3. safe'[run] \in 1..safe'[run] /\ e = attempted'[e.run][safe'[run]]
    BY <1>1, <1>3, <2>1, <2>2
  <2>. QED BY <1>1, <1>3, <2>3 DEF Logged
<1>5. CASE WriteFails \/ WriteIgnored
  <2>1. run \in failed'
    BY <1>3, <1>5 DEF WriteFails, WriteIgnored, StreamInv
  <2>. QED BY <1>3, <2>1 DEF Logged
<1>. QED BY <1>4, <1>5

\* What comes first in a queue of events.
LEMMA FirstOf ==
    ASSUME NEW e \in EventLine, NEW q \in Seq(EventLine), NEW r, r = <<e>> \o q
    PROVE  Range(r) = {e} \cup Range(q)
<1>1. PICK p \in Seq(EventLine) : p = <<e>> /\ Range(p) = {e}
  BY OneEvent
<1>2. Range(p \o q) = Range(p) \cup Range(q)
  BY JoinedRange
<1>. QED BY <1>1, <1>2

LEMMA LoggedStep ==
    ASSUME EngineTyped, RecorderTyped, CallIsOfTheRun, StreamInv, LogInv, ViewerTyped, TableInv, LoggedInv, Next
    PROVE  LoggedInv'
<1>1. /\ wire \in Seq(EventLine) /\ queue \in Seq(Signal) /\ shown \in Seq(EventLine)
      /\ ui \in Ui /\ ui.pending_events \in Seq(EventLine) /\ file \in Seq(FileWrite)
      /\ EventsIn(queue) \in Seq(EventLine)
  BY UiParts, QueueListing DEF ViewerTyped, RecorderTyped
<1>. DEFINE W == Range(wire)
            Q == Range(EventsIn(queue))
            S == Range(shown) \cup Range(ui.pending_events)
<1>2. /\ call.at = "broadcast" => Logged(call.line)
      /\ \A e \in W : Logged(e)
      /\ \A e \in Q : Logged(e)
      /\ ~ui.offline => \A e \in S : Logged(e)
  BY DEF LoggedInv
<1>3. \A e : Logged(e) => Logged(e)'
  BY LoggedStays
<1>4. Range(<<>>) = {}
  BY EmptyRange
\* The four parts, each from where its events were before.
<1>5. call'.at = "broadcast" => Logged(call.line)'
  <2>. SUFFICES ASSUME call'.at = "broadcast", NEW e, e = call'.line PROVE Logged(e)'
    OBVIOUS
  <2>1. CASE Write \/ WriteFails \/ WriteIgnored
    BY <2>1, StepParts, BroadcastIsLogged
  <2>2. CASE call' = call
    BY <1>2, <1>3, <2>2
  <2>3. CASE NewEvent
    <3>1. call'.at = "record"
      BY <2>3, NewEventIs
    <3>. QED BY <3>1
  <2>4. CASE StartCapture \/ Broadcast \/ Crash
    <3>1. call'.at \in {"record", "none"}
      BY <2>4 DEF StartCapture, Broadcast, Crash, NoCall
    <3>. QED BY <3>1
  <2>5. call' = call \/ Write \/ WriteFails \/ WriteIgnored \/ NewEvent \/ StartCapture \/ Broadcast \/ Crash
    BY StepParts DEF Engine, Quiet, recorder, StartEngine, StopEngine, StopCapture
  <2>. QED BY <2>1, <2>2, <2>3, <2>4, <2>5
<1>6. \A e \in W' : Logged(e)'
  <2>1. CASE W' \subseteq W
    BY <1>2, <1>3, <2>1
  <2>2. CASE Broadcast
    <3>1. wire' = wire \/ wire' = Append(wire, call.line)
      BY <2>2 DEF Broadcast
    <3>2. call.line \in EventLine /\ Logged(call.line)
      BY <1>2, <2>2, CallTyped DEF Broadcast, CallIsOfTheRun
    <3>3. W' \subseteq W \cup {call.line}
      <4>1. Range(Append(wire, call.line)) = Range(wire) \cup {call.line}
        BY <1>1, <3>2, Appended
      <4>. QED BY <3>1, <4>1
    <3>. QED BY <1>2, <1>3, <3>2, <3>3
  <2>3. CASE StopEngine \/ Crash
    BY <1>1, <2>1, <2>3, LinkDownTyped DEF StopEngine, Crash
  <2>4. CASE Deliver
    BY <1>1, <2>1, <2>4, Delivered
  <2>5. CASE LinkUp \/ WorkerEnds
    BY <1>4, <2>1, <2>5 DEF LinkUp, WorkerEnds
  <2>6. CASE ClickDetach \/ OpenLogFile
    BY <1>1, <1>4, <2>1, <2>6, DisconnectTyped DEF ClickDetach, OpenLogFile
  <2>7. CASE wire' = wire
    BY <2>1, <2>7
  <2>8. \/ wire' = wire \/ Broadcast \/ StopEngine \/ Crash \/ Deliver \/ LinkUp \/ WorkerEnds
        \/ ClickDetach \/ OpenLogFile
    BY StepParts DEF Engine, WorkerThread, Window, connection, StartEngine, StartCapture, NewEvent, Write, WriteFails,
       WriteIgnored, StopCapture, Announce, ClickAttach, ClickClear, TogglePause, OnConnected, OnDisconnected,
       OnEventReceived
  <2>. QED BY <2>2, <2>3, <2>4, <2>5, <2>6, <2>7, <2>8
<1>7. \A e \in Q' : Logged(e)'
  <2>1. CASE Q' \subseteq Q
    BY <1>2, <1>3, <2>1
  <2>2. CASE Deliver
    <3>1. PICK e \in EventLine : Range(wire) = {e} \cup Range(wire') /\ EventsIn(queue') = Append(EventsIn(queue), e)
      BY <1>1, <2>2, Delivered
    <3>2. Q' = Q \cup {e}
      BY <1>1, <3>1, Appended
    <3>. QED BY <1>2, <1>3, <3>1, <3>2
  <2>3. CASE Announce \/ WorkerEnds
    BY <1>1, <2>1, <2>3, ControlSignals, PostTyped DEF Announce, WorkerEnds
  <2>4. CASE OnConnected \/ OnDisconnected
    BY <1>1, <2>1, <2>4, Handled DEF OnConnected, OnDisconnected
  <2>5. CASE OnEventReceived
    <3>1. /\ EventsIn(queue) = <<Head(queue).event>> \o EventsIn(queue')
          /\ queue' \in Seq(Signal) /\ Head(queue).event \in EventLine
      BY <1>1, <2>5, Handled DEF OnEventReceived
    <3>2. EventsIn(queue') \in Seq(EventLine)
      BY <3>1, QueueListing
    <3>3. Q = {Head(queue).event} \cup Q'
      BY <3>1, <3>2, FirstOf
    <3>. QED BY <2>1, <3>3
  <2>6. CASE queue' = queue
    BY <2>1, <2>6
  <2>7. \/ queue' = queue \/ Deliver \/ Announce \/ WorkerEnds \/ OnConnected \/ OnDisconnected \/ OnEventReceived
    BY StepParts DEF Engine, WorkerThread, Window, Watching, LinkUp, ClickAttach, ClickDetach, ClickClear, TogglePause,
       OpenLogFile
  <2>. QED BY <2>2, <2>3, <2>4, <2>5, <2>6, <2>7
<1>8. ~ui'.offline => \A e \in S' : Logged(e)'
  <2>1. CASE ui'.offline = ui.offline /\ S' \subseteq S
    BY <1>2, <1>3, <2>1
  <2>2. CASE ClickDetach \/ OnDisconnected
    <3>1. ui'.pending_events = ui.pending_events /\ ui'.offline = ui.offline
      BY <1>1, <2>2, DetachUi, DisconnectedUi DEF Fields
    <3>. QED BY <2>1, <2>2, <3>1 DEF ClickDetach, OnDisconnected
  <2>3. CASE ClickClear \/ OnConnected
    <3>1. ui'.pending_events = <<>> /\ shown' = <<>>
      BY <1>1, <2>3, ClearUi, ConnectedUi DEF Fields, ClickClear, OnConnected
    <3>. QED BY <1>4, <3>1
  <2>4. CASE TogglePause
    <3>1. CASE ui.is_paused
      <4>1. /\ ui'.pending_events = <<>> /\ ui'.offline = ui.offline /\ shown' = shown \o ui.pending_events
        BY <1>1, <2>4, <3>1, PauseUi DEF Fields, ViewerTyped
      <4>2. Range(shown') = Range(shown) \cup Range(ui.pending_events)
        BY <1>1, <4>1, JoinedRange
      <4>. QED BY <1>4, <2>1, <4>1, <4>2
    <3>2. CASE ~ui.is_paused
      <4>1. ui'.pending_events = ui.pending_events /\ ui'.offline = ui.offline /\ shown' = shown
        BY <1>1, <2>4, <3>2, PauseUi DEF Fields, ViewerTyped
      <4>. QED BY <2>1, <4>1
    <3>. QED BY <3>1, <3>2
  <2>5. CASE OpenLogFile
    <3>1. ui'.pending_events = <<>> /\ (ui'.offline \/ shown' = <<>>)
      BY <1>1, <2>5, OpenUi DEF Loads, LoadFails, Fields
    <3>. QED BY <1>4, <3>1
  <2>6. CASE OnEventReceived
    <3>. DEFINE e == Head(queue).event
    <3>1. /\ EventsIn(queue) = <<e>> \o EventsIn(queue')
          /\ queue' \in Seq(Signal) /\ e \in EventLine
      BY <1>1, <2>6, Handled DEF OnEventReceived
    <3>2. e \in Q
      <4>1. EventsIn(queue') \in Seq(EventLine)
        BY <3>1, QueueListing
      <4>2. Q = {e} \cup Q'
        BY <3>1, <4>1, FirstOf
      <4>. QED BY <4>2
    <3>3. ui'.offline = ui.offline /\ S' = S \cup {e}
      <4>1. CASE ui.is_paused
        <5>1. /\ ui'.pending_events = Append(ui.pending_events, e) /\ ui'.offline = ui.offline
              /\ shown' = shown
          BY <1>1, <2>6, <3>1, <4>1, EventUi DEF Fields, ViewerTyped
        <5>. QED BY <1>1, <3>1, <5>1, Appended
      <4>2. CASE ~ui.is_paused
        <5>1. /\ ui'.pending_events = ui.pending_events /\ ui'.offline = ui.offline
              /\ shown' = Append(shown, e)
          BY <1>1, <2>6, <3>1, <4>2, EventUi DEF Fields, ViewerTyped
        <5>. QED BY <1>1, <3>1, <5>1, Appended
      <4>. QED BY <4>1, <4>2
    <3>. QED BY <1>2, <1>3, <3>2, <3>3
  <2>7. CASE ui' = ui /\ shown' = shown
    BY <2>1, <2>7
  <2>8. \/ (ui' = ui /\ shown' = shown) \/ ClickDetach \/ OnDisconnected \/ ClickClear \/ OnConnected
        \/ TogglePause \/ OpenLogFile \/ OnEventReceived
    BY StepParts DEF Window, Watching, ClickAttach, window
  <2>. QED BY <2>2, <2>3, <2>4, <2>5, <2>6, <2>7, <2>8
<1>. QED BY <1>5, <1>6, <1>7, <1>8 DEF LoggedInv

\* The events of the rows are among those the table was given.
LEMMA RowsAreShown ==
    ASSUME NEW t \in Table, NEW s \in Seq(EventLine), Shows(t, s)
    PROVE  \E p \in Seq(EventLine) : s = p \o Events(t.rows) /\ Events(t.rows) \in Seq(EventLine)
<1>1. Events(t.rows) \in Seq(EventLine) /\ EndsWith(s, Events(t.rows))
  BY RowsEnd
<1>. QED BY <1>1, BeforeEnd DEF Ends

\* A safe event is read back.
LEMMA SafeIsLoadedOf ==
    ASSUME NEW f \in Seq(FileWrite), NEW r, NEW a \in Seq(EventLine), NEW s \in Nat, NEW b \in 0..Len(f),
           LogOf(f, r, a, s, b), NEW k \in 1..s
    PROVE  a[k] \in Range(LoadedEvents(f))
<1>1. b + k \in EventPlaces(f) /\ f[b + k].line = a[k]
  BY SafeIsRead, Zenon
<1>. QED BY <1>1, LoadedRange, Zenon

LEMMA SafeIsLoaded ==
    ASSUME RecorderTyped, LogInv, NEW e, Logged(e), e.run \notin failed
    PROVE  e \in Range(LoadedEvents(file))
<1>1. PICK k \in 1..safe[e.run] : e.run \in Runs /\ e = attempted[e.run][k]
  BY DEF Logged
<1>2. PICK r \in Runs : r = e.run /\ k \in 1..safe[r]
  BY <1>1
<1>3. attempted[r] \in Seq(EventLine) /\ safe[r] \in Nat /\ file \in Seq(FileWrite)
  BY CaptureTyped
<1>4. PICK b \in 0..Len(file) : LogOf(file, r, attempted[r], safe[r], b)
  BY DEF LogInv, IsLogged
<1>5. attempted[r][k] \in Range(LoadedEvents(file))
  BY <1>2, <1>3, <1>4, SafeIsLoadedOf, Zenon
<1>. QED BY <1>1, <1>2, <1>5

\* What is on its way to the window, or there, has been logged.
LEMMA SeenIsLoaded ==
    ASSUME RecorderTyped, ViewerTyped, TableInv, LogInv, LoggedInv
    PROVE  SeenIsLogged
<1>. SUFFICES ASSUME ~ui.offline, NEW e \in Range(Held \o wire), e.run \notin failed
              PROVE  e \in Range(LoadedEvents(file))
  BY DEF SeenIsLogged
<1>1. /\ wire \in Seq(EventLine) /\ shown \in Seq(EventLine) /\ ui.pending_events \in Seq(EventLine)
      /\ EventsIn(queue) \in Seq(EventLine) /\ ui.table \in Table /\ Shows(ui.table, shown)
  BY UiParts, QueueListing DEF ViewerTyped, TableInv
<1>2. PICK p \in Seq(EventLine) : shown = p \o Events(ui.table.rows) /\ Events(ui.table.rows) \in Seq(EventLine)
  BY <1>1, RowsAreShown
<1>3. Range(Events(ui.table.rows)) \subseteq Range(shown)
  BY <1>2, JoinedRange
<1>3a. PICK rows \in Seq(EventLine), held \in Seq(EventLine) :
          rows = Events(ui.table.rows) /\ held = ui.pending_events
  BY <1>1, <1>2
<1>3b. rows \o held \in Seq(EventLine) /\ Range(rows \o held) = Range(rows) \cup Range(held)
  BY Joined, JoinedRange
<1>4. PICK q \in Seq(EventLine) :
          /\ q = Events(ui.table.rows) \o ui.pending_events
          /\ Range(q) = Range(Events(ui.table.rows)) \cup Range(ui.pending_events)
  BY <1>3a, <1>3b
<1>5a. EventsIn(queue) \in Seq(EventLine)
  BY <1>1
<1>5b. q \o EventsIn(queue) \in Seq(EventLine)
  BY <1>5a, JoinedTyped, Zenon
<1>5c. Range(q \o EventsIn(queue)) = Range(q) \cup Range(EventsIn(queue))
  BY <1>5a, JoinedRange
<1>5. PICK h \in Seq(EventLine) : h = q \o EventsIn(queue) /\ Range(h) = Range(q) \cup Range(EventsIn(queue))
  BY <1>5b, <1>5c, Zenon
<1>6. Held = h
  BY <1>4, <1>5, Zenon DEF Held, Queued
<1>7. Range(h \o wire) = Range(h) \cup Range(wire)
  BY <1>1, JoinedRange
<1>8. Logged(e)
  BY <1>3, <1>4, <1>5, <1>6, <1>7 DEF LoggedInv
<1>. QED BY <1>8, SafeIsLoaded

-----------------------------------------------------------------------------
(***************************************************************************)
(* The signals of one connection follow those of the one before.           *)
(***************************************************************************)
LEMMA NonePosted ==
    ASSUME queue \in Seq(Signal), NEW x \in Signal, Post(x)
    PROVE  /\ \A kind : None(kind)' <=> None(kind) /\ x.kind # kind
           /\ queue' # <<>> /\ queue'[Len(queue')] = x
<1>1. /\ queue' \in Seq(Signal) /\ queue' # <<>> /\ Len(queue) \in Nat /\ Len(queue') = Len(queue) + 1
      /\ \A i \in 1..Len(queue) : queue'[i] = queue[i]
      /\ queue'[Len(queue) + 1] = x
  BY PostTyped
<1>2. DOMAIN queue = 1..Len(queue) /\ DOMAIN queue' = 1..(Len(queue) + 1)
  BY <1>1, LenProperties
<1>. QED BY <1>1, <1>2 DEF None

LEMMA NoneTaken ==
    ASSUME queue \in Seq(Signal), NEW k, Handle(k)
    PROVE  /\ ~None(k)
           /\ \A kind : None(kind) => None(kind)'
           /\ \A kind : kind # k /\ None(kind)' => None(kind)
           /\ queue # <<>>
           /\ queue' # <<>> => queue'[Len(queue')] = queue[Len(queue)]
           /\ queue' = <<>> => queue[Len(queue)].kind = k
<1>1. queue # <<>> /\ Head(queue).kind = k /\ queue' = Tail(queue)
  BY DEF Handle
<1>2. /\ queue' \in Seq(Signal) /\ Len(queue) \in Nat /\ Len(queue) > 0 /\ Len(queue') = Len(queue) - 1
      /\ queue[1].kind = k
      /\ \A i \in 1..Len(queue') : queue'[i] = queue[i + 1]
  BY <1>1, HeadAndTail
<1>3. DOMAIN queue = 1..Len(queue) /\ DOMAIN queue' = 1..Len(queue')
  BY <1>2, LenProperties
<1>4. queue' = <<>> <=> Len(queue') = 0
  BY <1>2, EmptySeq
<1>5. ~None(k)
  BY <1>2, <1>3 DEF None
<1>6. \A kind : None(kind) => None(kind)'
  <2>1. \A i \in 1..Len(queue') : i + 1 \in 1..Len(queue)
    BY <1>2
  <2>. QED BY <1>2, <1>3, <2>1 DEF None
<1>7. \A kind : kind # k /\ None(kind)' => None(kind)
  <2>. SUFFICES ASSUME NEW kind, kind # k, None(kind)', NEW i \in 1..Len(queue) PROVE queue[i].kind # kind
    BY <1>3 DEF None
  <2>1. CASE i = 1
    BY <1>2, <2>1
  <2>2. CASE i # 1
    <3>1. i - 1 \in 1..Len(queue') /\ (i - 1) + 1 = i
      BY <1>2, <2>2
    <3>2. queue'[i - 1].kind # kind
      BY <1>3, <3>1 DEF None
    <3>3. queue'[i - 1] = queue[(i - 1) + 1]
      BY <1>2, <3>1
    <3>. QED BY <3>1, <3>2, <3>3
  <2>. QED BY <2>1, <2>2
<1>8. queue' # <<>> => queue'[Len(queue')] = queue[Len(queue)]
  <2>. SUFFICES ASSUME queue' # <<>> PROVE queue'[Len(queue')] = queue[Len(queue)]
    OBVIOUS
  <2>1. Len(queue') \in 1..Len(queue') /\ Len(queue') + 1 = Len(queue)
    BY <1>2, <1>4
  <2>. QED BY <1>2, <2>1
<1>9. queue' = <<>> => queue[Len(queue)].kind = k
  <2>1. queue' = <<>> => Len(queue) = 1
    BY <1>2, <1>4
  <2>. QED BY <1>2, <2>1
<1>. QED BY <1>1, <1>5, <1>6, <1>7, <1>8, <1>9

LEMMA NoSignals == queue = <<>> => \A kind : None(kind)
BY DEF None

\* The fields the control of a connection depends on.
ControlFields ==
    /\ ui.connected \in BOOLEAN /\ ui.is_paused \in BOOLEAN /\ ui.offline \in BOOLEAN
    /\ linked \in BOOLEAN /\ running \in BOOLEAN
    /\ worker \in {"none", "starting", "linked", "live", "stopping", "closing"}

LEMMA ControlStep ==
    ASSUME EngineTyped, CallIsOfTheRun, RecorderTyped, ViewerTyped, TableInv, ControlInv, Next
    PROVE  ControlInv'
<1>1. /\ ui \in Ui /\ queue \in Seq(Signal) /\ wire \in Seq(EventLine) /\ shown \in Seq(EventLine)
      /\ file \in Seq(FileWrite) /\ ControlFields
  BY UiParts DEF ViewerTyped, RecorderTyped, EngineTyped, ControlFields
<1>2. CASE StartEngine
  BY <1>2 DEF StartEngine, connection, window, ControlInv, None
<1>3. CASE StopEngine \/ Crash
  <2>1. linked' = FALSE /\ worker' = worker
    BY <1>1, <1>3, LinkDownTyped DEF StopEngine, Crash
  <2>2. queue' = queue /\ ui' = ui
    BY <1>3 DEF StopEngine, Crash, window
  <2>. QED BY <2>1, <2>2 DEF ControlInv, None
<1>4. CASE StartCapture \/ NewEvent \/ Write \/ WriteFails \/ WriteIgnored \/ StopCapture \/ Broadcast
  <2>1. running' = running /\ linked' = linked /\ worker' = worker /\ queue' = queue /\ ui' = ui
    BY <1>4 DEF StartCapture, NewEvent, Write, WriteFails, WriteIgnored, StopCapture, Broadcast, process, connection,
       window
  <2>. QED BY <2>1 DEF ControlInv, None
<1>5. CASE LinkUp
  <2>1. /\ worker = "starting" /\ running /\ running' = running /\ worker' = "linked" /\ linked' = TRUE
        /\ queue' = queue /\ ui' = ui
    BY <1>5 DEF LinkUp, CallIsOfTheRun, process, window
  <2>2. queue = <<>> /\ ~ui.connected /\ (~ui.is_paused => ui.pending_events = <<>>)
    BY <2>1 DEF ControlInv
  <2>3. \A kind : None(kind)'
    BY <2>1, <2>2, NoSignals DEF None
  <2>. QED BY <2>1, <2>2, <2>3 DEF ControlInv
<1>6. CASE Announce
  <2>1. /\ worker \in {"linked", "stopping"} /\ worker' = (IF worker = "linked" THEN "live" ELSE "closing")
        /\ Post([kind |-> "connected"]) /\ linked' = linked
        /\ running' = running /\ ui' = ui
    BY <1>6 DEF Announce, process, window
  <2>2. None("disconnected") /\ (linked => running) /\ (~ui.is_paused => ui.pending_events = <<>>)
    BY <2>1 DEF ControlInv
  <2>3. None("disconnected")' /\ ~None("connected")'
    BY <1>1, <2>1, <2>2, ControlSignals, NonePosted
  <2>. QED BY <2>1, <2>2, <2>3 DEF ControlInv
<1>7. CASE Deliver
  <2>1. /\ worker \in {"linked", "live"} /\ worker' = worker /\ linked' = linked /\ running' = running /\ ui' = ui
    BY <1>7 DEF Deliver, process, window
  <2>2. PICK x \in Signal : x.kind = "event" /\ Post(x)
    BY <1>1, <1>7, Delivered
  <2>3. \A kind \in {"connected", "disconnected"} : None(kind)' <=> None(kind)
    BY <1>1, <2>2, NonePosted
  <2>. QED BY <2>1, <2>3 DEF ControlInv
<1>8. CASE WorkerEnds
  <2>1. /\ worker \in {"starting", "stopping", "closing"} \/ (worker = "live" /\ ~linked)
        /\ worker' = "none" /\ Post([kind |-> "disconnected"]) /\ linked' = linked /\ running' = running /\ ui' = ui
    BY <1>8 DEF WorkerEnds, process, window
  <2>2. ~linked
    BY <2>1 DEF ControlInv
  <2>3. queue' # <<>> /\ queue'[Len(queue')].kind = "disconnected"
    BY <1>1, <2>1, ControlSignals, NonePosted
  <2>. QED BY <2>1, <2>2, <2>3 DEF ControlInv
<1>9. CASE ClickAttach
  <2>1. /\ worker = "none" /\ None("disconnected") /\ worker' = "starting" /\ linked' = linked /\ running' = running
        /\ queue' = queue /\ ui' = ui
    BY <1>9 DEF ClickAttach, None, process
  <2>2. queue = <<>>
    <3>1. queue # <<>> => Len(queue) \in DOMAIN queue
      BY <1>1, LenProperties, EmptySeq
    <3>. QED BY <2>1, <3>1 DEF ControlInv, None
  <2>. QED BY <2>1, <2>2 DEF ControlInv, None
<1>10. CASE ClickDetach
  <2>1. worker = "live" /\ worker' = "closing" /\ linked' = FALSE
    BY <1>1, <1>10, DisconnectTyped DEF ClickDetach, Attached
  <2>2. queue' = queue /\ running' = running
    BY <1>10 DEF ClickDetach, process
  <2>3. ui'.is_paused = ui.is_paused /\ ui'.pending_events = ui.pending_events
    BY <1>1, <1>10, DetachUi DEF Fields
  <2>. QED BY <2>1, <2>2, <2>3 DEF ControlInv, None
<1>11. CASE OpenLogFile
  <2>1. /\ worker = "live" => worker' = "closing" /\ linked' = FALSE
        /\ worker \in {"starting", "linked"} => worker' = "stopping" /\ linked' = FALSE
        /\ worker \notin {"starting", "linked", "live"} => worker' = worker /\ linked' = linked
    BY <1>1, <1>11, DisconnectTyped DEF OpenLogFile, Attached
  <2>2. queue' = queue /\ running' = running
    BY <1>11 DEF OpenLogFile, process
  <2>3. /\ ui'.connected = (ui.connected /\ worker \notin {"starting", "linked", "live"})
        /\ ui'.pending_events = <<>>
    BY <1>1, <1>11, OpenUi DEF Loads, LoadFails, Fields, Attached
  <2>4. worker = "starting" => \A kind : None(kind)
    BY NoSignals DEF ControlInv
  <2>. QED BY <1>1, <2>1, <2>2, <2>3, <2>4 DEF ControlInv, None, ControlFields
<1>12. CASE ClickClear
  <2>1. running' = running /\ linked' = linked /\ worker' = worker /\ queue' = queue
    BY <1>12 DEF ClickClear, process, connection
  <2>2. ui'.connected = ui.connected /\ ui'.offline = ui.offline /\ ui'.pending_events = <<>>
    BY <1>1, <1>12, ClearUi DEF Fields
  <2>. QED BY <2>1, <2>2 DEF ControlInv, None
<1>13. CASE TogglePause
  <2>1. running' = running /\ linked' = linked /\ worker' = worker /\ queue' = queue
    BY <1>13 DEF TogglePause, process, connection
  <2>2. /\ ui'.connected = ui.connected /\ ui'.offline = ui.offline
        /\ ui'.pending_events = <<>> \/ ui'.is_paused
    BY <1>1, <1>13, PauseUi DEF Fields
  <2>. QED BY <2>1, <2>2 DEF ControlInv, None
<1>14. CASE OnConnected \/ OnDisconnected \/ OnEventReceived
  <2>1. running' = running /\ linked' = linked /\ worker' = worker
    BY <1>14 DEF OnConnected, OnDisconnected, OnEventReceived, process, connection
  <2>2. CASE OnConnected
    <3>1. /\ ~None("connected") /\ queue # <<>>
          /\ None("disconnected") => None("disconnected")'
          /\ queue' # <<>> => queue'[Len(queue')] = queue[Len(queue)]
          /\ queue' = <<>> => queue[Len(queue)].kind = "connected"
      BY <1>1, <2>2, NoneTaken DEF OnConnected
    <3>2. ui'.offline = FALSE /\ ui'.pending_events = <<>>
      BY <1>1, <2>2, ConnectedUi DEF Fields
    <3>3. worker \notin {"starting", "linked", "stopping"}
      BY <3>1 DEF ControlInv
    <3>4. worker = "none" => queue' # <<>> /\ queue'[Len(queue')].kind = "disconnected"
      BY <3>1 DEF ControlInv
    <3>. QED BY <2>1, <3>1, <3>2, <3>3, <3>4 DEF ControlInv
  <2>3. CASE OnDisconnected
    <3>1. /\ ~None("disconnected") /\ queue # <<>>
          /\ None("connected")' => None("connected")
          /\ queue' # <<>> => queue'[Len(queue')] = queue[Len(queue)]
      BY <1>1, <2>3, NoneTaken DEF OnDisconnected
    <3>2. ui'.connected = FALSE /\ ui'.is_paused = ui.is_paused /\ ui'.pending_events = ui.pending_events
      BY <1>1, <2>3, DisconnectedUi DEF Fields
    <3>3. worker = "none"
      BY <1>1, <3>1 DEF ControlInv, ControlFields
    <3>4. IF queue' = <<>> THEN ~ui'.connected ELSE queue'[Len(queue')].kind = "disconnected"
      BY <3>1, <3>2, <3>3 DEF ControlInv
    <3>. QED BY <2>1, <3>2, <3>3, <3>4 DEF ControlInv
  <2>4. CASE OnEventReceived
    <3>1. /\ queue # <<>>
          /\ \A kind \in {"connected", "disconnected"} : None(kind)' <=> None(kind)
          /\ queue' # <<>> => queue'[Len(queue')] = queue[Len(queue)]
          /\ queue' = <<>> => queue[Len(queue)].kind = "event"
      BY <1>1, <2>4, NoneTaken DEF OnEventReceived
    <3>2. Head(queue).event \in EventLine
      BY <1>1, <2>4, Handled DEF OnEventReceived
    <3>3. /\ ui'.connected = ui.connected /\ ui'.offline = ui.offline /\ ui'.is_paused = ui.is_paused
          /\ ~ui.is_paused => ui'.pending_events = ui.pending_events
      BY <1>1, <2>4, <3>2, EventUi DEF Fields
    <3>. QED BY <2>1, <3>1, <3>3 DEF ControlInv
  <2>. QED BY <1>14, <2>2, <2>3, <2>4
<1>. QED BY <1>2, <1>3, <1>4, <1>5, <1>6, <1>7, <1>8, <1>9, <1>10, <1>11, <1>12, <1>13, <1>14, StepParts
     DEF Engine, WorkerThread, Window

-----------------------------------------------------------------------------
(***************************************************************************)
(* What is sent to a connection is in the order of its numbers.            *)
(***************************************************************************)
LEMMA SentStays ==
    ASSUME SentInv, sent' = sent, counter' = counter, call' = call, linked' = FALSE \/ linked' = linked
    PROVE  SentInv'
BY DEF SentInv

LEMMA SentGrows ==
    ASSUME NEW s \in Seq(EventLine), NEW e \in EventLine, NEW c \in Nat, NEW t, t = Append(s, e), e.seq < c,
           \A i, j \in DOMAIN s : i < j => s[i].seq < s[j].seq,
           \A i \in DOMAIN s : s[i].seq < c, \A i \in DOMAIN s : s[i].seq < e.seq
    PROVE  /\ \A i, j \in DOMAIN t : i < j => t[i].seq < t[j].seq
           /\ \A i \in DOMAIN t : t[i].seq < c
<1>1. /\ t \in Seq(EventLine) /\ Len(t) = Len(s) + 1 /\ Len(s) \in Nat
      /\ \A i \in 1..Len(s) : t[i] = s[i]
      /\ t[Len(s) + 1] = e
  BY Appended
<1>2. DOMAIN s = 1..Len(s) /\ DOMAIN t = 1..(Len(s) + 1)
  BY <1>1, LenProperties
<1>3. \A i \in DOMAIN t : i \in Nat /\ (i \in DOMAIN s \/ i = Len(s) + 1)
  BY <1>1, <1>2
<1>4. \A i, j \in DOMAIN t : i < j => i \in DOMAIN s
  BY <1>1, <1>2
<1>5. ASSUME NEW i \in DOMAIN t, NEW j \in DOMAIN t, i < j PROVE t[i].seq < t[j].seq
  BY <1>1, <1>2, <1>3, <1>4, <1>5
<1>. QED BY <1>1, <1>2, <1>3, <1>5

LEMMA SentStep ==
    ASSUME EngineTyped, RecorderTyped, CallIsOfTheRun, ViewerTyped, ControlInv, SentInv, Next
    PROVE  SentInv'
<1>1. /\ ui \in Ui /\ queue \in Seq(Signal) /\ wire \in Seq(EventLine) /\ sent \in Seq(EventLine)
      /\ counter \in Nat
  BY DEF ViewerTyped, EngineTyped
<1>2. CASE StartEngine
  <2>1. sent' = sent /\ call' = call /\ ~linked /\ linked' = linked /\ call.at = "none"
    BY <1>2 DEF StartEngine, recorder, connection, ControlInv, CallIsOfTheRun
  <2>. QED BY <2>1 DEF SentInv
<1>3. CASE StopEngine
  <2>1. linked' = FALSE /\ sent' = sent
    BY <1>1, <1>3, LinkDownTyped DEF StopEngine
  <2>2. call' = call /\ counter' = counter
    BY <1>3 DEF StopEngine, recorder
  <2>. QED BY <2>1, <2>2, SentStays
<1>4. CASE Crash
  <2>1. linked' = FALSE /\ sent' = sent
    BY <1>1, <1>4, LinkDownTyped DEF Crash
  <2>2. call'.at = "none"
    BY <1>4 DEF Crash, NoCall
  <2>. QED BY <2>1, <2>2 DEF SentInv
<1>5. CASE StartCapture
  <2>1. sent' = sent /\ linked' = linked /\ counter' = counter /\ call'.line.kind = "metadata"
    BY <1>5 DEF StartCapture, process, connection, Metadata
  <2>. QED BY <2>1 DEF SentInv
<1>6. CASE NewEvent
  <2>1. PICK e : NewOf(e) /\ call' = [at |-> "record", line |-> e]
    BY <1>6, NewEventIs
  <2>2. call'.line.seq = counter /\ call'.line.kind = "event"
    BY <2>1 DEF NewOf
  <2>3. sent' = sent /\ linked' = linked /\ counter' = counter + 1
    BY <1>6 DEF NewEvent, connection
  <2>4. \A i \in DOMAIN sent : sent[i] \in EventLine
    BY <1>1, LenProperties, ElementOfSeq
  <2>5. \A i \in DOMAIN sent : sent[i].seq \in Nat
    BY <2>4 DEF EventLine
  <2>6. \A i \in DOMAIN sent : sent[i].seq < counter => sent[i].seq < counter + 1
    BY <1>1, <2>5
  <2>7. counter < counter + 1
    BY <1>1
  <2>. QED BY <2>2, <2>3, <2>6, <2>7 DEF SentInv
<1>7. CASE Write \/ WriteFails \/ WriteIgnored
  <2>1. sent' = sent /\ linked' = linked /\ counter' = counter /\ RecordReturns /\ call.at # "none"
    BY <1>7 DEF Write, WriteFails, WriteIgnored, process, connection
  <2>2. /\ call.line.kind = "event" => call' = [at |-> "broadcast", line |-> call.line]
        /\ call.line.kind # "event" => call' = NoCall
    BY <2>1, ReturnedCall
  <2>3. call'.at # "none" => call'.line = call.line /\ call.line.kind = "event"
    BY <2>2 DEF NoCall
  <2>. QED BY <2>1, <2>3 DEF SentInv
<1>8. CASE Broadcast
  <2>1. call.at = "broadcast" /\ call' = NoCall /\ linked' = linked /\ counter' = counter
    BY <1>8 DEF Broadcast, process
  <2>2. call.line.kind = "event" /\ call.line \in EventLine
    BY <2>1, CallTyped DEF CallIsOfTheRun
  <2>3. CASE running /\ linked
    <3>1. sent' = Append(sent, call.line)
      BY <1>8, <2>3 DEF Broadcast
    <3>2. /\ call.line.seq < counter /\ \A i \in DOMAIN sent : sent[i].seq < call.line.seq
          /\ \A i \in DOMAIN sent : sent[i].seq < counter
          /\ \A i, j \in DOMAIN sent : i < j => sent[i].seq < sent[j].seq
      BY <2>1, <2>2, <2>3 DEF SentInv
    <3>3. PICK e \in EventLine : e = call.line
      BY <2>2
    <3>4. PICK t : t = sent'
      OBVIOUS
    <3>5. /\ \A i, j \in DOMAIN t : i < j => t[i].seq < t[j].seq
          /\ \A i \in DOMAIN t : t[i].seq < counter
      BY <1>1, <3>1, <3>2, <3>3, <3>4, SentGrows
    <3>. QED BY <2>1, <3>4, <3>5 DEF SentInv, NoCall
  <2>4. CASE ~(running /\ linked)
    <3>1. sent' = sent
      BY <1>8, <2>4 DEF Broadcast
    <3>. QED BY <2>1, <3>1 DEF SentInv, NoCall
  <2>. QED BY <2>3, <2>4
<1>9. CASE StopCapture
  BY <1>9, SentStays DEF StopCapture, process, connection
<1>10. CASE LinkUp
  <2>1. DOMAIN sent' = {} /\ call' = call /\ counter' = counter
    BY <1>10 DEF LinkUp, recorder, process
  <2>. QED BY <2>1 DEF SentInv
<1>11. CASE Announce \/ Deliver \/ WorkerEnds \/ ClickAttach
  BY <1>11, SentStays DEF Announce, Deliver, WorkerEnds, ClickAttach, process, recorder
<1>12. CASE ClickDetach \/ OpenLogFile
  <2>1. sent' = sent /\ (linked' = FALSE \/ linked' = linked)
    BY <1>1, <1>12, DisconnectTyped DEF ClickDetach, OpenLogFile
  <2>2. call' = call /\ counter' = counter
    BY <1>12 DEF ClickDetach, OpenLogFile, process, recorder
  <2>. QED BY <2>1, <2>2, SentStays
<1>13. CASE ClickClear \/ TogglePause \/ OnConnected \/ OnDisconnected \/ OnEventReceived
  BY <1>13, SentStays DEF ClickClear, TogglePause, OnConnected, OnDisconnected, OnEventReceived, process, recorder,
     connection
<1>. QED BY <1>2, <1>3, <1>4, <1>5, <1>6, <1>7, <1>8, <1>9, <1>10, <1>11, <1>12, <1>13, StepParts
     DEF Engine, WorkerThread, Window

-----------------------------------------------------------------------------
(***************************************************************************)
(* What the window has, and what it will be told of.                       *)
(***************************************************************************)
LEMMA ToldTyped ==
    ASSUME ui \in Ui, queue \in Seq(Signal), shown \in Seq(EventLine)
    PROVE  /\ EventsIn(queue) \in Seq(EventLine) /\ Kept \in Seq(EventLine)
           /\ Told \in Seq(EventLine) /\ Seen \in Seq(EventLine)
<1>1. EventsIn(queue) \in Seq(EventLine) /\ ui.pending_events \in Seq(EventLine)
  BY UiParts, QueueListing
<1>2. PICK h \in Seq(EventLine) : h = ui.pending_events
  BY <1>1
<1>3. Kept \in Seq(EventLine)
  BY <1>2, Joined DEF Kept
<1>4. Told \in Seq(EventLine)
  BY <1>1, <1>3, Joined DEF Told
<1>. QED BY <1>1, <1>3, <1>4 DEF Seen

\* What is kept when the window shows again what it kept back, when it is told of one more,
\* and when it is cleared.
LEMMA KeptPause ==
    ASSUME ui \in Ui, shown \in Seq(EventLine), TableInv, TogglePause
    PROVE  Kept' = Kept
<1>1. PICK h \in Seq(EventLine), s \in Seq(EventLine) : h = ui.pending_events /\ s = shown
  BY UiParts
<1>2. CASE ui.is_paused
  <2>1. ui'.pending_events = <<>> /\ shown' = s \o h
    BY <1>1, <1>2, PauseUi DEF Fields
  <2>2. s \o h \in Seq(EventLine) /\ (s \o h) \o <<>> = s \o h
    BY Joined, JoinedEmpty
  <2>. QED BY <1>1, <2>1, <2>2 DEF Kept
<1>3. CASE ~ui.is_paused
  BY <1>3, PauseUi DEF Fields, Kept
<1>. QED BY <1>2, <1>3

LEMMA KeptEvent ==
    ASSUME ui \in Ui, shown \in Seq(EventLine), TableInv, ControlInv, OnEventReceived,
           NEW e \in EventLine, e = Head(queue).event
    PROVE  Kept' = Append(Kept, e)
<1>1. PICK h \in Seq(EventLine), s \in Seq(EventLine) : h = ui.pending_events /\ s = shown
  BY UiParts
<1>2. CASE ui.is_paused
  <2>1. ui'.pending_events = Append(h, e) /\ shown' = s
    BY <1>1, <1>2, EventUi DEF Fields
  <2>2. s \o Append(h, e) = Append(s \o h, e)
    BY JoinedAppend
  <2>. QED BY <1>1, <2>1, <2>2 DEF Kept
<1>3. CASE ~ui.is_paused
  <2>1. ui'.pending_events = <<>> /\ h = <<>> /\ shown' = Append(s, e)
    BY <1>1, <1>3, EventUi DEF Fields, ControlInv
  <2>2. Append(s, e) \in Seq(EventLine)
    BY Appended
  <2>3. s \o <<>> = s /\ Append(s, e) \o <<>> = Append(s, e)
    BY <2>2, JoinedEmpty
  <2>. QED BY <1>1, <2>1, <2>3 DEF Kept
<1>. QED BY <1>2, <1>3

LEMMA KeptCleared ==
    ASSUME shown' = <<>>, ui'.pending_events = <<>>
    PROVE  Kept' = <<>>
<1>1. <<>> \o <<>> = <<>>
  BY ConcatEmptySeq
<1>. QED BY <1>1 DEF Kept

-----------------------------------------------------------------------------
(***************************************************************************)
(* An attached viewer is told of a segment of what is sent.                *)
(***************************************************************************)
SegmentTyped ==
    /\ ui \in Ui /\ queue \in Seq(Signal) /\ wire \in Seq(EventLine) /\ sent \in Seq(EventLine)
    /\ shown \in Seq(EventLine) /\ linked \in BOOLEAN

\* The last connection's events are a segment of what was sent to it.
LEMMA TapeIsASegment == ASSUME SegmentTyped, SegmentInv PROVE Segment(Seen \o wire, sent)
<1>1. Seen \o wire \in Seq(EventLine)
  BY ToldTyped, JoinedTyped DEF SegmentTyped
<1>. QED BY <1>1, EndIsSegment DEF SegmentInv

\* A step that takes from the front of what has been seen.
LEMMA SegmentBehind ==
    ASSUME SegmentTyped, SegmentInv, sent' = sent, wire' = wire, linked' = linked,
           NEW p \in Seq(EventLine), NEW u \in Seq(EventLine), u = Seen', Seen = p \o u
    PROVE  SegmentInv'
<1>1. PICK w \in Seq(EventLine) : w = wire
  BY DEF SegmentTyped
<1>2. Seen \o w = p \o (u \o w) /\ u \o w \in Seq(EventLine)
  <2>1. Regroups(p, u, w)
    BY Regrouped
  <2>2. u \o w \in Seq(EventLine)
    BY JoinedTyped, Zenon
  <2>. QED BY <2>1, <2>2, Zenon DEF Regroups
<1>3. CASE linked
  <2>1. Ends(p \o (u \o w), sent)
    BY <1>1, <1>2, <1>3, Zenon DEF SegmentInv
  <2>2. Ends(u \o w, sent)
    BY <1>2, <2>1, EndBack, Zenon
  <2>. QED BY <1>1, <1>3, <2>2, Zenon DEF SegmentInv
<1>4. CASE ~linked
  <2>1. Segment(p \o (u \o w), sent)
    BY <1>1, <1>2, <1>4, Zenon DEF SegmentInv
  <2>2. Segment(u \o w, sent)
    BY <1>2, <2>1, SegmentBack, Zenon
  <2>. QED BY <1>1, <1>4, <2>2, Zenon DEF SegmentInv
<1>. QED BY <1>3, <1>4

LEMMA SegmentBehindOf ==
    ASSUME NEW p \in Seq(EventLine), NEW u \in Seq(EventLine), NEW w \in Seq(EventLine), NEW v, v = p \o u,
           NEW s, Segment(v \o w, s)
    PROVE  Segment(u \o w, s)
<1>1. v \o w = p \o (u \o w) /\ u \o w \in Seq(EventLine)
  <2>1. Regroups(p, u, w)
    BY Regrouped
  <2>2. u \o w \in Seq(EventLine)
    BY JoinedTyped, Zenon
  <2>. QED BY <2>1, <2>2, Zenon DEF Regroups
<1>2. Segment(p \o (u \o w), s)
  BY <1>1
<1>. QED BY <1>1, <1>2, SegmentBack, Zenon

LEMMA SegmentBeforeOf ==
    ASSUME NEW u \in Seq(EventLine), NEW x \in Seq(EventLine), NEW y \in Seq(EventLine), NEW w, w = x \o y,
           NEW s, Segment(u \o w, s)
    PROVE  Segment(u \o x, s)
<1>1. u \o w = (u \o x) \o y /\ u \o x \in Seq(EventLine)
  <2>1. Regroups(u, x, y)
    BY Regrouped
  <2>2. u \o x \in Seq(EventLine)
    BY JoinedTyped, Zenon
  <2>. QED BY <2>1, <2>2, Zenon DEF Regroups
<1>2. Segment((u \o x) \o y, s)
  BY <1>1
<1>. QED BY <1>1, <1>2, SegmentFront, Zenon

\* One that also ends the connection, and with it some or all that is on its way.
LEMMA SegmentEnds ==
    ASSUME SegmentTyped, SegmentInv, sent' = sent, linked' = FALSE,
           NEW p \in Seq(EventLine), NEW u \in Seq(EventLine), u = Seen', Seen = p \o u,
           NEW x \in Seq(EventLine), NEW y \in Seq(EventLine), x = wire', wire = x \o y
    PROVE  SegmentInv'
<1>1. Segment(Seen \o wire, sent) /\ wire \in Seq(EventLine)
  BY TapeIsASegment DEF SegmentTyped
<1>2. Segment(u \o wire, sent)
  BY <1>1, SegmentBehindOf, Zenon
<1>3. Segment(u \o x, sent)
  BY <1>2, SegmentBeforeOf, Zenon
<1>. QED BY <1>3, Zenon DEF SegmentInv

\* What has been seen is the same.
LEMMA SegmentStays ==
    ASSUME SegmentTyped, SegmentInv, sent' = sent, Seen' = Seen,
           \/ wire' = wire /\ linked' = linked
           \/ linked' = FALSE /\ \E x, y \in Seq(EventLine) : x = wire' /\ wire = x \o y
    PROVE  SegmentInv'
<1>1. PICK u \in Seq(EventLine) : u = Seen
  BY ToldTyped DEF SegmentTyped
<1>2. <<>> \o u = u /\ <<>> \in Seq(EventLine)
  BY JoinedEmpty
<1>3. PICK p \in Seq(EventLine) : p \o u = u
  BY <1>2
<1>4. CASE wire' = wire /\ linked' = linked
  BY <1>1, <1>3, <1>4, SegmentBehind
<1>5. ASSUME linked' = FALSE, NEW x \in Seq(EventLine), NEW y \in Seq(EventLine), x = wire', wire = x \o y
      PROVE  SegmentInv'
  BY <1>1, <1>3, <1>5, SegmentEnds
<1>. QED BY <1>4, <1>5

\* All or nothing of what is on its way.
LEMMA WireParts ==
    ASSUME wire \in Seq(EventLine)
    PROVE  /\ \E x, y \in Seq(EventLine) : x = wire /\ wire = x \o y
           /\ \E x, y \in Seq(EventLine) : x = <<>> /\ wire = x \o y
<1>1. PICK w \in Seq(EventLine) : w = wire
  OBVIOUS
<1>2. w \o <<>> = w /\ <<>> \o w = w /\ <<>> \in Seq(EventLine)
  BY JoinedEmpty
<1>. QED BY <1>1, <1>2

LEMMA LinkDownParts ==
    ASSUME wire \in Seq(EventLine), LinkDown
    PROVE  \E x, y \in Seq(EventLine) : x = wire' /\ wire = x \o y
<1>1. PICK w \in Seq(EventLine) : w = wire
  OBVIOUS
<1>2. PICK n \in 0..Len(w) : wire' = SubSeq(w, 1, n)
  BY <1>1 DEF LinkDown
<1>3. Len(w) \in Nat
  BY LenProperties
<1>4. /\ 1 \in 1..(Len(w) + 1) /\ n \in (1 - 1)..Len(w) /\ Len(w) \in n..Len(w) /\ n + 1 \in Nat
      /\ \A k \in (n + 1)..Len(w) : k \in 1..Len(w)
  BY <1>3
<1>5. SubSeq(w, 1, n) \o SubSeq(w, n + 1, Len(w)) = SubSeq(w, 1, Len(w)) /\ SubSeq(w, 1, Len(w)) = w
  BY <1>4, ConcatAdjacentSubSeq, SubSeqFull
<1>6. SubSeq(w, 1, n) \in Seq(EventLine)
  BY FrontPart
<1>7. SubSeq(w, n + 1, Len(w)) \in Seq(EventLine)
  <2>1. \A k \in (n + 1)..Len(w) : w[k] \in EventLine
    BY <1>4, ElementOfSeq
  <2>2. n + 1 \in Int /\ Len(w) \in Int
    BY <1>3
  <2>. QED BY <2>1, <2>2, SubSeqProperties
<1>. QED BY <1>1, <1>2, <1>5, <1>6, <1>7

\* What has been seen ends with the events that are queued.
LEMMA SeenParts ==
    ASSUME ui \in Ui, queue \in Seq(Signal), shown \in Seq(EventLine)
    PROVE  \E p \in Seq(EventLine) : Seen = p \o EventsIn(queue)
<1>1. EventsIn(queue) \in Seq(EventLine) /\ Kept \in Seq(EventLine)
  BY ToldTyped
<1>2. CASE Live
  BY <1>1, <1>2 DEF Seen, Told
<1>3. CASE ~Live
  <2>1. Seen = EventsIn(queue)
    BY <1>3 DEF Seen
  <2>2. <<>> \o EventsIn(queue) = EventsIn(queue) /\ <<>> \in Seq(EventLine)
    BY <1>1, JoinedEmpty
  <2>3. PICK p \in Seq(EventLine) : p = <<>>
    BY <2>2
  <2>. QED BY <2>1, <2>2, <2>3
<1>. QED BY <1>2, <1>3

\* A step after which nothing the window has is of this connection, and another that forgets it.
LEMMA SeenBehind ==
    ASSUME ui \in Ui, queue \in Seq(Signal), shown \in Seq(EventLine), EventsIn(queue') = EventsIn(queue),
           ~Live' \/ Kept' = <<>>
    PROVE  \E p, u \in Seq(EventLine) : u = Seen' /\ Seen = p \o u
<1>1. PICK q \in Seq(EventLine) : q = EventsIn(queue)
  BY ToldTyped
<1>2. Seen' = q
  <2>1. CASE ~Live'
    BY <1>1, <2>1 DEF Seen
  <2>2. CASE Kept' = <<>>
    <3>1. Told' = <<>> \o q
      BY <1>1, <2>2 DEF Told
    <3>2. <<>> \o q = q
      BY JoinedEmpty
    <3>. QED BY <1>1, <3>1, <3>2 DEF Seen
  <2>. QED BY <2>1, <2>2
<1>. QED BY <1>1, <1>2, SeenParts

LEMMA SeenSame ==
    ASSUME ui' = ui, shown' = shown, EventsIn(queue') = EventsIn(queue)
    PROVE  Seen' = Seen
BY DEF Seen, Told, Kept, Live

LEMMA ToldEvent ==
    ASSUME ui \in Ui, queue \in Seq(Signal), shown \in Seq(EventLine), TableInv, ControlInv, OnEventReceived
    PROVE  Told' = Told
<1>1. PICK e \in EventLine :
        e = Head(queue).event /\ EventsIn(queue) = <<e>> \o EventsIn(queue') /\ queue' \in Seq(Signal)
  BY Handled DEF OnEventReceived
<1>2. PICK q \in Seq(EventLine), k \in Seq(EventLine) : q = EventsIn(queue') /\ k = Kept
  BY <1>1, QueueListing, ToldTyped
<1>4. Kept' = Append(k, e)
  BY <1>1, <1>2, KeptEvent
<1>5. Told' = Append(k, e) \o q /\ Told = k \o (<<e>> \o q)
  BY <1>1, <1>2, <1>4, Zenon DEF Told
<1>6. Append(k, e) \o q = k \o (<<e>> \o q)
  BY JoinedAppend, Zenon
<1>. QED BY <1>5, <1>6, Zenon

\* An event that is taken from the queue is kept, or is not of this connection.
LEMMA SeenEvent ==
    ASSUME ui \in Ui, queue \in Seq(Signal), shown \in Seq(EventLine), TableInv, ControlInv, OnEventReceived
    PROVE  \E p, u \in Seq(EventLine) : u = Seen' /\ Seen = p \o u
<1>1. PICK e \in EventLine :
        e = Head(queue).event /\ EventsIn(queue) = <<e>> \o EventsIn(queue') /\ queue' \in Seq(Signal)
  BY Handled DEF OnEventReceived
<1>2. PICK q \in Seq(EventLine) : q = EventsIn(queue')
  BY <1>1, QueueListing
<1>3. Live' = Live
  BY <1>1, EventUi DEF Fields, Live
<1>5. CASE Live
  <2>3. Seen' = Seen
    BY <1>3, <1>5, ToldEvent DEF Seen
  <2>4. PICK s \in Seq(EventLine) : s = Seen
    BY ToldTyped
  <2>5. <<>> \o s = s /\ <<>> \in Seq(EventLine)
    BY JoinedEmpty
  <2>6. PICK p \in Seq(EventLine) : p \o s = s
    BY <2>5
  <2>. QED BY <2>3, <2>4, <2>6
<1>6. CASE ~Live
  <2>1. Seen' = q /\ Seen = <<e>> \o q
    BY <1>1, <1>2, <1>3, <1>6, Zenon DEF Seen
  <2>2. <<e>> \in Seq(EventLine)
    BY OneEvent
  <2>. QED BY <2>1, <2>2
<1>. QED BY <1>5, <1>6

\* One that arrives is queued.
LEMMA SeenDelivered ==
    ASSUME SegmentTyped, Deliver
    PROVE  Seen' \o wire' = Seen \o wire
<1>1. PICK e \in EventLine :
        /\ wire' \in Seq(EventLine) /\ wire = <<e>> \o wire' /\ EventsIn(queue') = Append(EventsIn(queue), e)
  BY Delivered DEF SegmentTyped
<1>2. ui' = ui /\ shown' = shown
  BY DEF Deliver, window
<1>3. PICK w \in Seq(EventLine), s \in Seq(EventLine) : w = wire' /\ s = Seen
  BY <1>1, ToldTyped DEF SegmentTyped
<1>4. Seen' = Append(s, e)
  <2>1. PICK k \in Seq(EventLine), q \in Seq(EventLine) : k = Kept /\ q = EventsIn(queue)
    BY ToldTyped DEF SegmentTyped
  <2>2. Kept' = k /\ Live' = Live
    BY <1>2, <2>1 DEF Kept, Live
  <2>3. k \o Append(q, e) = Append(k \o q, e)
    BY JoinedAppend, Zenon
  <2>. QED BY <1>1, <1>3, <2>1, <2>2, <2>3 DEF Seen, Told
<1>5. Append(s, e) \o w = s \o (<<e>> \o w)
  BY JoinedAppend, Zenon
<1>. QED BY <1>1, <1>3, <1>4, <1>5

\* What is sent is on its way.
LEMMA SegmentSent ==
    ASSUME SegmentTyped, SegmentInv, NEW e \in EventLine, wire' = Append(wire, e), sent' = Append(sent, e),
           linked, linked' = linked, Seen' = Seen
    PROVE  SegmentInv'
<1>1. PICK s \in Seq(EventLine), w \in Seq(EventLine) : s = Seen /\ w = wire
  BY ToldTyped DEF SegmentTyped
<1>2. Ends(s \o w, sent) /\ s \o w \in Seq(EventLine)
  BY <1>1, JoinedTyped DEF SegmentInv
<1>3. Ends(Append(s \o w, e), Append(sent, e))
  BY <1>2, EndGrown
<1>4. s \o Append(w, e) = Append(s \o w, e)
  BY JoinedAppend, Zenon
<1>5. Seen' \o wire' = s \o Append(w, e)
  BY <1>1
<1>6. Ends(Seen' \o wire', sent')
  BY <1>3, <1>4, <1>5, Zenon
<1>. QED BY <1>6, Zenon DEF SegmentInv

LEMMA SegmentStep ==
    ASSUME EngineTyped, RecorderTyped, CallIsOfTheRun, ViewerTyped, TableInv, ControlInv, SegmentInv, Next
    PROVE  SegmentInv'
<1>1. /\ ui \in Ui /\ queue \in Seq(Signal) /\ wire \in Seq(EventLine) /\ shown \in Seq(EventLine)
      /\ file \in Seq(FileWrite) /\ linked \in BOOLEAN /\ SegmentTyped
  BY DEF ViewerTyped, RecorderTyped, SegmentTyped
<1>2. CASE StartEngine \/ StartCapture \/ NewEvent \/ Write \/ WriteFails \/ WriteIgnored \/ StopCapture
  <2>1. UNCHANGED <<connection, queue, window>>
    BY <1>2 DEF StartEngine, StartCapture, NewEvent, Write, WriteFails, WriteIgnored, StopCapture
  <2>2. sent' = sent /\ wire' = wire /\ linked' = linked /\ ui' = ui /\ shown' = shown /\ queue' = queue
    BY <2>1 DEF connection, window
  <2>3. Seen' = Seen
    BY <2>2, SeenSame
  <2>. QED BY <1>1, <2>2, <2>3, SegmentStays
<1>3. CASE StopEngine \/ Crash
  <2>1. LinkDown /\ ui' = ui /\ shown' = shown /\ queue' = queue
    BY <1>3 DEF StopEngine, Crash, window
  <2>2. linked' = FALSE /\ sent' = sent
    BY <2>1 DEF LinkDown
  <2>3. Seen' = Seen
    BY <2>1, SeenSame
  <2>4. \E x, y \in Seq(EventLine) : x = wire' /\ wire = x \o y
    BY <1>1, <2>1, LinkDownParts
  <2>. QED BY <1>1, <2>2, <2>3, <2>4, SegmentStays
<1>4. CASE Broadcast
  <2>1. linked' = linked /\ ui' = ui /\ shown' = shown /\ queue' = queue
    BY <1>4 DEF Broadcast, window
  <2>2. Seen' = Seen
    BY <2>1, SeenSame
  <2>3. CASE running /\ linked
    <3>1. call.at = "broadcast" /\ wire' = Append(wire, call.line) /\ sent' = Append(sent, call.line)
      BY <1>4, <2>3 DEF Broadcast
    <3>2. PICK e \in EventLine : e = call.line
      BY <3>1, CallTyped DEF CallIsOfTheRun
    <3>. QED BY <1>1, <2>1, <2>2, <2>3, <3>1, <3>2, SegmentSent
  <2>4. CASE ~(running /\ linked)
    <3>1. wire' = wire /\ sent' = sent
      BY <1>4, <2>4 DEF Broadcast
    <3>. QED BY <1>1, <2>1, <2>2, <3>1, SegmentStays
  <2>. QED BY <2>3, <2>4
<1>5. CASE LinkUp
  <2>1. worker = "starting" /\ ui' = ui /\ shown' = shown /\ queue' = queue /\ wire' = <<>> /\ sent' = <<>>
        /\ linked' = TRUE
    BY <1>5 DEF LinkUp, window
  <2>2. queue = <<>> /\ ~ui.connected
    BY <2>1 DEF ControlInv
  <2>3. Seen' = <<>>
    BY <2>1, <2>2, QueueEmpty DEF Seen, Live
  <2>4. Ends(<<>> \o <<>>, <<>>)
    <3>0. <<>> \in Seq(EventLine)
      OBVIOUS
    <3>1. PICK p \in Seq(EventLine) : p = <<>>
      BY <3>0
    <3>2. p = p \o (p \o p)
      BY <3>1, JoinedEmpty
    <3>. QED BY <3>1, <3>2 DEF Ends
  <2>. QED BY <2>1, <2>3, <2>4, Zenon DEF SegmentInv
<1>6. CASE Announce
  <2>1. linked' = linked /\ sent' = sent /\ wire' = wire /\ ui' = ui /\ shown' = shown /\ Post([kind |-> "connected"])
    BY <1>6 DEF Announce, window
  <2>2. EventsIn(queue') = EventsIn(queue)
    BY <1>1, <2>1, ControlSignals, PostTyped
  <2>3. Seen' = Seen
    BY <2>1, <2>2, SeenSame
  <2>. QED BY <1>1, <2>1, <2>3, SegmentStays
<1>7. CASE Deliver
  <2>1. linked' = linked /\ sent' = sent
    BY <1>7 DEF Deliver
  <2>2. Seen' \o wire' = Seen \o wire
    BY <1>1, <1>7, SeenDelivered
  <2>. QED BY <2>1, <2>2, Zenon DEF SegmentInv
<1>8. CASE WorkerEnds
  <2>1. /\ worker \in {"starting", "stopping", "closing"} \/ (worker = "live" /\ ~linked)
        /\ linked' = linked /\ sent' = sent /\ wire' = <<>> /\ ui' = ui /\ shown' = shown
        /\ Post([kind |-> "disconnected"])
    BY <1>8 DEF WorkerEnds, window
  <2>2. linked' = FALSE
    BY <1>1, <2>1 DEF ControlInv
  <2>3. EventsIn(queue') = EventsIn(queue)
    BY <1>1, <2>1, ControlSignals, PostTyped
  <2>4. Seen' = Seen
    BY <2>1, <2>3, SeenSame
  <2>5. \E x, y \in Seq(EventLine) : x = wire' /\ wire = x \o y
    BY <1>1, <2>1, WireParts
  <2>. QED BY <1>1, <2>1, <2>2, <2>4, <2>5, SegmentStays
<1>9. CASE ClickAttach
  <2>1. linked' = linked /\ sent' = sent /\ wire' = wire /\ ui' = ui /\ shown' = shown /\ queue' = queue
    BY <1>9 DEF ClickAttach
  <2>2. Seen' = Seen
    BY <2>1, SeenSame
  <2>. QED BY <1>1, <2>1, <2>2, SegmentStays
<1>10. CASE ClickDetach \/ OpenLogFile
  <2>1. /\ sent' = sent /\ queue' = queue /\ Disconnect
        /\ (linked' = FALSE /\ wire' = <<>>) \/ (linked' = linked /\ wire' = wire)
    BY <1>1, <1>10, DisconnectTyped DEF ClickDetach, OpenLogFile
  <2>2. ~Live' \/ Kept' = <<>>
    <3>1. CASE ClickDetach
      BY <1>1, <3>1, DetachUi DEF Fields, Live
    <3>2. CASE OpenLogFile
      <4>1. ui'.offline \/ (shown' = <<>> /\ ui'.pending_events = <<>>)
        BY <1>1, <3>2, OpenUi DEF Loads, LoadFails, Fields
      <4>. QED BY <4>1, KeptCleared DEF Live
    <3>. QED BY <1>10, <3>1, <3>2
  <2>3. PICK p \in Seq(EventLine), u \in Seq(EventLine) : u = Seen' /\ Seen = p \o u
    BY <1>1, <2>1, <2>2, SeenBehind
  <2>4. CASE linked' = FALSE /\ wire' = <<>>
    <3>1. PICK x \in Seq(EventLine), y \in Seq(EventLine) : x = wire' /\ wire = x \o y
      BY <1>1, <2>4, WireParts
    <3>. QED BY <1>1, <2>1, <2>3, <2>4, <3>1, SegmentEnds
  <2>5. CASE linked' = linked /\ wire' = wire
    BY <1>1, <2>1, <2>3, <2>5, SegmentBehind
  <2>. QED BY <2>1, <2>4, <2>5
<1>11. CASE ClickClear \/ OnConnected \/ OnDisconnected
  <2>1. linked' = linked /\ sent' = sent /\ wire' = wire
    BY <1>11 DEF ClickClear, OnConnected, OnDisconnected, connection
  <2>2. EventsIn(queue') = EventsIn(queue)
    BY <1>1, <1>11, Handled DEF ClickClear, OnConnected, OnDisconnected
  <2>3. ~Live' \/ Kept' = <<>>
    <3>1. CASE ClickClear
      <4>1. shown' = <<>>
        BY <3>1 DEF ClickClear
      <4>. QED BY <1>1, <3>1, <4>1, ClearUi, KeptCleared DEF Fields
    <3>2. CASE OnConnected
      <4>1. shown' = <<>>
        BY <3>2 DEF OnConnected
      <4>. QED BY <1>1, <3>2, <4>1, ConnectedUi, KeptCleared DEF Fields
    <3>3. CASE OnDisconnected
      BY <1>1, <3>3, DisconnectedUi DEF Fields, Live
    <3>. QED BY <1>11, <3>1, <3>2, <3>3
  <2>4. PICK p \in Seq(EventLine), u \in Seq(EventLine) : u = Seen' /\ Seen = p \o u
    BY <1>1, <2>2, <2>3, SeenBehind
  <2>. QED BY <1>1, <2>1, <2>4, SegmentBehind
<1>12. CASE TogglePause
  <2>1. linked' = linked /\ sent' = sent /\ wire' = wire /\ queue' = queue
    BY <1>12 DEF TogglePause, connection
  <2>2. Kept' = Kept
    BY <1>1, <1>12, KeptPause
  <2>3. Live' = Live
    BY <1>1, <1>12, PauseUi DEF Fields, Live
  <2>4. Seen' = Seen
    BY <2>1, <2>2, <2>3 DEF Seen, Told
  <2>. QED BY <1>1, <2>1, <2>4, SegmentStays
<1>13. CASE OnEventReceived
  <2>1. linked' = linked /\ sent' = sent /\ wire' = wire
    BY <1>13 DEF OnEventReceived, connection
  <2>2. PICK p \in Seq(EventLine), u \in Seq(EventLine) : u = Seen' /\ Seen = p \o u
    BY <1>1, <1>13, SeenEvent
  <2>. QED BY <1>1, <2>1, <2>2, SegmentBehind
<1>. QED BY <1>2, <1>3, <1>4, <1>5, <1>6, <1>7, <1>8, <1>9, <1>10, <1>11, <1>12, <1>13, StepParts
     DEF Engine, WorkerThread, Window

-----------------------------------------------------------------------------
(***************************************************************************)
(* The counter on the window, and the log it has opened.                   *)
(***************************************************************************)
LEMMA CountStep ==
    ASSUME EngineTyped, RecorderTyped, CallIsOfTheRun, ViewerTyped, TableInv, ControlInv, CountInv, Next
    PROVE  CountInv'
<1>1. /\ ui \in Ui /\ queue \in Seq(Signal) /\ shown \in Seq(EventLine) /\ file \in Seq(FileWrite)
      /\ ui.pending_events \in Seq(EventLine) /\ ui.event_count \in Nat /\ Len(shown) \in Nat
      /\ Len(ui.pending_events) \in Nat
  BY UiParts, LenProperties DEF ViewerTyped, RecorderTyped
<1>2. Len(<<>>) = 0
  OBVIOUS
<1>3. CASE Engine \/ WorkerThread
  <2>1. ui' = ui /\ shown' = shown
    BY <1>3, StepParts DEF Watching, window
  <2>. QED BY <2>1 DEF CountInv
<1>4. CASE ClickAttach
  <2>1. ui' = ui /\ shown' = shown
    BY <1>4 DEF ClickAttach
  <2>. QED BY <2>1 DEF CountInv
<1>5. CASE ClickDetach
  BY <1>1, <1>5, DetachUi DEF Fields, ClickDetach, CountInv
<1>6. CASE ClickClear
  <2>1. ui'.pending_events = <<>> /\ ui'.event_count = 0 /\ shown' = <<>>
    BY <1>1, <1>6, ClearUi DEF Fields, ClickClear
  <2>. QED BY <1>2, <2>1 DEF CountInv
<1>7. CASE TogglePause
  <2>1. CASE ui.is_paused
    <3>1. /\ ui'.pending_events = <<>> /\ ui'.event_count = ui.event_count /\ ui'.offline = ui.offline
          /\ shown' = shown \o ui.pending_events
      BY <1>1, <1>7, <2>1, PauseUi DEF Fields
    <3>2. Len(shown \o ui.pending_events) = Len(shown) + Len(ui.pending_events)
      BY <1>1, Joined
    <3>. QED BY <1>1, <1>2, <3>1, <3>2 DEF CountInv
  <2>2. CASE ~ui.is_paused
    BY <1>1, <1>7, <2>2, PauseUi DEF Fields, CountInv
  <2>. QED BY <2>1, <2>2
<1>8. CASE OpenLogFile
  <2>1. ui'.offline \/ (ui'.pending_events = <<>> /\ ui'.event_count = 0 /\ shown' = <<>>)
    BY <1>1, <1>8, OpenUi DEF Loads, LoadFails, Fields
  <2>. QED BY <1>2, <2>1 DEF CountInv
<1>9. CASE OnConnected
  <2>1. ui'.pending_events = <<>> /\ ui'.event_count = 0 /\ shown' = <<>>
    BY <1>1, <1>9, ConnectedUi DEF Fields, OnConnected
  <2>. QED BY <1>2, <2>1 DEF CountInv
<1>10. CASE OnDisconnected
  BY <1>1, <1>10, DisconnectedUi DEF Fields, OnDisconnected, CountInv
<1>11. CASE OnEventReceived
  <2>1. PICK e \in EventLine : e = Head(queue).event
    BY <1>1, <1>11, Handled DEF OnEventReceived
  <2>2. CASE ui.is_paused
    <3>1. /\ ui'.pending_events = Append(ui.pending_events, e) /\ ui'.event_count = ui.event_count + 1
          /\ ui'.offline = ui.offline /\ shown' = shown
      BY <1>1, <1>11, <2>1, <2>2, EventUi DEF Fields
    <3>2. Len(Append(ui.pending_events, e)) = Len(ui.pending_events) + 1
      BY <1>1, Appended
    <3>. QED BY <1>1, <3>1, <3>2 DEF CountInv
  <2>3. CASE ~ui.is_paused
    <3>1. /\ ui'.pending_events = ui.pending_events /\ ui'.event_count = ui.event_count + 1
          /\ ui'.offline = ui.offline /\ shown' = Append(shown, e)
      BY <1>1, <1>11, <2>1, <2>3, EventUi DEF Fields
    <3>2. Len(Append(shown, e)) = Len(shown) + 1
      BY <1>1, Appended
    <3>3. PICK m \in Nat, n \in Nat, c \in Nat : m = Len(shown) /\ n = Len(ui.pending_events) /\ c = ui.event_count
      BY <1>1
    <3>4. Len(shown') = m + 1 /\ Len(ui'.pending_events) = n /\ ui'.event_count = c + 1
      BY <3>1, <3>2, <3>3
    <3>5. ~ui.offline => c = m + n
      BY <3>3 DEF CountInv
    <3>. QED BY <3>1, <3>4, <3>5 DEF CountInv
  <2>. QED BY <2>2, <2>3
<1>. QED BY <1>3, <1>4, <1>5, <1>6, <1>7, <1>8, <1>9, <1>10, <1>11, StepParts DEF Window

\* Of a log that was opened the table is told what was loaded, and what was then queued after it.
LEMMA OpenedIsShown ==
    ASSUME queue \in Seq(Signal), queue' = queue, NEW es \in Seq(EventLine), Loads(es)
    PROVE  Told' = opened'
<1>1. PICK l \in Seq(EventLine) : l = LastEvents(es)
  BY LastEventsIs
<1>2. l \o <<>> = l
  BY JoinedEmpty
<1>3. ui'.pending_events = <<>> /\ shown' = l /\ opened' = l \o EventsIn(queue)
  BY <1>1 DEF Loads, Fields
<1>. QED BY <1>2, <1>3, Zenon DEF Told, Kept

\* When the table is cleared, what it will be told of is the end of what it would have been.
LEMMA ToldCleared ==
    ASSUME ui \in Ui, queue \in Seq(Signal), shown \in Seq(EventLine), EventsIn(queue') = EventsIn(queue),
           Kept' = <<>>, NEW s, Ends(Told, s)
    PROVE  Ends(Told', s)
<1>1. PICK q \in Seq(EventLine), k \in Seq(EventLine) : q = EventsIn(queue) /\ k = Kept
  BY ToldTyped
<1>2. Told' = q
  <2>1. <<>> \o q = q
    BY JoinedEmpty
  <2>. QED BY <1>1, <2>1, Zenon DEF Told
<1>3. Ends(k \o q, s)
  BY <1>1, Zenon DEF Told
<1>4. Ends(q, s)
  BY <1>3, EndBack, Zenon
<1>. QED BY <1>2, <1>4

LEMMA EndOfItself == \A s \in Seq(EventLine) : Ends(s, s)
<1>1. <<>> \in Seq(EventLine)
  OBVIOUS
<1>2. \A s \in Seq(EventLine) : s = <<>> \o s
  BY JoinedEmpty
<1>. QED BY <1>1, <1>2, Zenon DEF Ends

\* OfflineInv, when the log has been left alone, the worker has not begun anew and no signal
\* `connected` has come.
LEMMA OfflineStays ==
    ASSUME OfflineInv, log' = log, opened' = opened, ui'.offline = ui.offline, Told' = Told,
           worker' = worker \/ worker' = "none", None("connected") => None("connected")'
    PROVE  OfflineInv'
BY DEF OfflineInv

LEMMA OfflineStep ==
    ASSUME EngineTyped, RecorderTyped, CallIsOfTheRun, ViewerTyped, TableInv, ControlInv, OfflineInv, Next
    PROVE  OfflineInv'
<1>1. /\ ui \in Ui /\ queue \in Seq(Signal) /\ wire \in Seq(EventLine) /\ shown \in Seq(EventLine)
      /\ file \in Seq(FileWrite) /\ opened \in Seq(EventLine) /\ log \in Views
  BY DEF ViewerTyped, RecorderTyped
<1>2. CASE Engine
  <2>1. ui' = ui /\ shown' = shown /\ queue' = queue /\ opened' = opened /\ log' = log
    BY <1>2, StepParts DEF Watching, window
  <2>2. worker' = worker
    BY <1>2 DEF Engine, StartEngine, StopEngine, Crash, StartCapture, NewEvent, Write, WriteFails, WriteIgnored,
       StopCapture, Broadcast, LinkDown, connection
  <2>. QED BY <2>1, <2>2, OfflineStays DEF None, Told, Kept
<1>3. CASE LinkUp
  <2>1. worker = "starting" /\ log' = log
    BY <1>3 DEF LinkUp, window
  <2>. QED BY <2>1 DEF OfflineInv
<1>4. CASE Announce
  <2>1. /\ worker \in {"linked", "stopping"} /\ worker' = IF worker = "linked" THEN "live" ELSE "closing"
        /\ ui' = ui /\ shown' = shown /\ opened' = opened /\ log' = log /\ Post([kind |-> "connected"])
    BY <1>4 DEF Announce, window
  <2>2. Told' = Told
    BY <1>1, <2>1, ControlSignals, PostTyped DEF Told, Kept
  <2>. QED BY <2>1, <2>2 DEF OfflineInv
<1>5. CASE Deliver
  <2>1. worker \in {"linked", "live"} /\ log' = log
    BY <1>5 DEF Deliver, window
  <2>. QED BY <2>1 DEF OfflineInv
<1>6. CASE WorkerEnds
  <2>1. /\ worker' = "none"
        /\ ui' = ui /\ shown' = shown /\ opened' = opened /\ log' = log /\ Post([kind |-> "disconnected"])
    BY <1>6 DEF WorkerEnds, window
  <2>2. Told' = Told
    BY <1>1, <2>1, ControlSignals, PostTyped DEF Told, Kept
  <2>3. None("connected")' <=> None("connected")
    BY <1>1, <2>1, ControlSignals, NonePosted
  <2>. QED BY <2>1, <2>2, <2>3, OfflineStays
<1>7. CASE ClickAttach
  <2>1. ~log'.asked
    BY <1>1, <1>7 DEF ClickAttach, Views
  <2>. QED BY <2>1 DEF OfflineInv
<1>8. CASE ClickDetach
  <2>1. worker = "live" /\ log' = log
    BY <1>8 DEF ClickDetach
  <2>. QED BY <2>1 DEF OfflineInv
<1>9. CASE OpenLogFile
  <2>1. queue' = queue /\ Disconnect
    BY <1>9 DEF OpenLogFile
  <2>2. /\ Attached => worker' = IF worker = "live" THEN "closing" ELSE "stopping"
        /\ ~Attached => worker' = worker
    BY <1>1, <2>1, DisconnectTyped
  <2>3. ASSUME NEW es \in Seq(EventLine), Loads(es)
        PROVE  OfflineInv'
    <3>1. Told' = opened'
      BY <1>1, <2>1, <2>3, OpenedIsShown
    <3>2. opened' \in Seq(EventLine)
      BY <1>1, <2>3, LastEventsIs, QueueListing, JoinedTyped DEF Loads
    <3>3. Ends(Told', opened')
      BY <3>1, <3>2, EndOfItself, Zenon
    <3>4. ui'.offline /\ (log'.late <=> Announcing)
      BY <2>3 DEF Loads, Fields
    <3>5. worker' \in {"none", "stopping", "closing"}
      BY <2>2 DEF Attached, ViewerTyped
    <3>6. ~Announcing => worker' # "stopping" /\ None("connected")'
      BY <2>1, <2>2 DEF Announcing, Attached, None
    <3>. QED BY <3>1, <3>3, <3>4, <3>5, <3>6 DEF OfflineInv
  <2>4. CASE LoadFails
    <3>. SUFFICES ASSUME log.asked PROVE OfflineInv'
      BY <1>1, <2>4 DEF LoadFails, OfflineInv, Views
    <3>1. worker' = worker
      BY <2>2 DEF OfflineInv, Attached
    <3>2. /\ ui'.pending_events = <<>> /\ ui'.offline = ui.offline /\ shown' = <<>> /\ opened' = opened
          /\ log'.cleared /\ log'.late = log.late /\ log'.asked = log.asked
      BY <1>1, <2>4 DEF LoadFails, Fields, Views
    <3>3. Ends(Told', opened)
      BY <1>1, <2>1, <3>2, KeptCleared, ToldCleared DEF OfflineInv
    <3>. QED BY <2>1, <3>1, <3>2, <3>3 DEF OfflineInv, None
  <2>. QED BY <1>1, <1>9, <2>3, <2>4, OpenUi
<1>10. CASE ClickClear
  <2>1. worker' = worker /\ queue' = queue /\ opened' = opened /\ shown' = <<>>
    BY <1>10 DEF ClickClear, connection
  <2>2. ui'.offline = ui.offline /\ ui'.pending_events = <<>>
    BY <1>1, <1>10, ClearUi DEF Fields
  <2>3. log'.cleared /\ log'.late = log.late /\ log'.asked = log.asked
    BY <1>1, <1>10 DEF ClickClear, Views
  <2>4. Ends(Told, opened) => Ends(Told', opened)
    BY <1>1, <2>1, <2>2, KeptCleared, ToldCleared
  <2>. QED BY <2>1, <2>2, <2>3, <2>4 DEF OfflineInv, None
<1>11. CASE TogglePause
  <2>1. worker' = worker /\ queue' = queue /\ opened' = opened /\ log' = log
    BY <1>11 DEF TogglePause, connection
  <2>2. Kept' = Kept
    BY <1>1, <1>11, KeptPause
  <2>3. ui'.offline = ui.offline
    BY <1>1, <1>11, PauseUi DEF Fields
  <2>. QED BY <2>1, <2>2, <2>3, OfflineStays DEF None, Told
<1>12. CASE OnConnected
  <2>1. worker' = worker /\ opened' = opened /\ log' = log /\ shown' = <<>>
    BY <1>12 DEF OnConnected, connection
  <2>2. EventsIn(queue') = EventsIn(queue) /\ ~None("connected")
    BY <1>1, <1>12, Handled, NoneTaken DEF OnConnected
  <2>3. ~ui'.offline /\ ui'.pending_events = <<>>
    BY <1>1, <1>12, ConnectedUi DEF Fields
  <2>4. Ends(Told, opened) => Ends(Told', opened)
    BY <1>1, <2>1, <2>2, <2>3, KeptCleared, ToldCleared
  <2>. QED BY <2>1, <2>2, <2>3, <2>4 DEF OfflineInv
<1>13. CASE OnDisconnected
  <2>1. worker' = worker /\ opened' = opened /\ log' = log /\ shown' = shown
    BY <1>13 DEF OnDisconnected, connection
  <2>2. EventsIn(queue') = EventsIn(queue) /\ (None("connected") => None("connected")')
    BY <1>1, <1>13, Handled, NoneTaken DEF OnDisconnected
  <2>3. ui'.offline = ui.offline /\ ui'.pending_events = ui.pending_events
    BY <1>1, <1>13, DisconnectedUi DEF Fields
  <2>4. Told' = Told
    BY <2>1, <2>2, <2>3 DEF Told, Kept
  <2>. QED BY <2>1, <2>2, <2>3, <2>4, OfflineStays
<1>14. CASE OnEventReceived
  <2>1. worker' = worker /\ opened' = opened /\ log' = log
    BY <1>14 DEF OnEventReceived, connection
  <2>2. None("connected") => None("connected")'
    BY <1>1, <1>14, NoneTaken DEF OnEventReceived
  <2>3. Told' = Told
    BY <1>1, <1>14, ToldEvent
  <2>4. Head(queue).event \in EventLine
    BY <1>1, <1>14, Handled DEF OnEventReceived
  <2>5. ui'.offline = ui.offline
    BY <1>1, <1>14, <2>4, EventUi DEF Fields
  <2>. QED BY <2>1, <2>2, <2>3, <2>5, OfflineStays
<1>. QED BY <1>2, <1>3, <1>4, <1>5, <1>6, <1>7, <1>8, <1>9, <1>10, <1>11, <1>12, <1>13, <1>14, StepParts
     DEF WorkerThread, Window

-----------------------------------------------------------------------------
(***************************************************************************)
(* Names by which the rows are told apart.                                 *)
(***************************************************************************)
\* The events of an attached viewer's table are in the order of their numbers.
LEMMA ShownInOrder ==
    ASSUME SegmentTyped, SegmentInv, SentInv, Live
    PROVE  \A i, j \in 1..Len(shown) : i < j => shown[i].seq < shown[j].seq
<1>1. /\ shown \in Seq(EventLine) /\ ui.pending_events \in Seq(EventLine) /\ EventsIn(queue) \in Seq(EventLine)
      /\ wire \in Seq(EventLine) /\ sent \in Seq(EventLine)
  BY UiParts, QueueListing DEF SegmentTyped
<1>2. PICK s \in Seq(EventLine), h \in Seq(EventLine), q \in Seq(EventLine), w \in Seq(EventLine) :
          s = shown /\ h = ui.pending_events /\ q = EventsIn(queue) /\ w = wire
  BY <1>1
<1>3. Segment(((s \o h) \o q) \o w, sent)
  <2>1. Segment(Seen \o wire, sent)
    BY TapeIsASegment
  <2>. QED BY <1>2, <2>1, Zenon DEF Seen, Told, Kept
<1>4. s \o h \in Seq(EventLine) /\ (s \o h) \o q \in Seq(EventLine)
  BY JoinedTyped
<1>5. Segment((s \o h) \o q, sent)
  BY <1>3, <1>4, SegmentFront, Zenon
<1>6. Segment(s \o h, sent)
  BY <1>4, <1>5, SegmentFront, Zenon
<1>7. Segment(s, sent)
  BY <1>6, SegmentFront, Zenon
<1>8. PICK a \in Nat : \A i \in 1..Len(s) : a + i \in 1..Len(sent) /\ sent[a + i] = s[i]
  <2>1. PICK a \in Seq(EventLine), b \in Seq(EventLine) : sent = (a \o s) \o b
    BY <1>7 DEF Segment
  <2>2. /\ a \o s \in Seq(EventLine) /\ Len(a \o s) = Len(a) + Len(s) /\ Len(a) \in Nat /\ Len(s) \in Nat
        /\ \A k \in 1..Len(s) : (a \o s)[Len(a) + k] = s[k]
    BY Joined
  <2>. PICK t \in Seq(EventLine) : t = a \o s
    BY <2>2
  <2>3. Len(sent) = Len(t) + Len(b) /\ Len(b) \in Nat /\ \A k \in 1..Len(t) : sent[k] = t[k]
    BY <2>1, Joined
  <2>4. ASSUME NEW i \in 1..Len(s) PROVE Len(a) + i \in 1..Len(sent) /\ sent[Len(a) + i] = s[i]
    <3>1. Len(a) + i \in 1..Len(t) /\ Len(a) + i \in 1..Len(sent)
      BY <2>2, <2>3
    <3>. QED BY <2>2, <2>3, <3>1
  <2>. QED BY <2>2, <2>4
<1>9. DOMAIN sent = 1..Len(sent) /\ Len(s) \in Nat
  BY <1>1, LenProperties
<1>. SUFFICES ASSUME NEW i \in 1..Len(s), NEW j \in 1..Len(s), i < j PROVE s[i].seq < s[j].seq
  BY <1>2
<1>10. a + i < a + j /\ a + i \in DOMAIN sent /\ a + j \in DOMAIN sent
  BY <1>8, <1>9
<1>11. sent[a + i].seq < sent[a + j].seq
  BY <1>10 DEF SentInv
<1>. QED BY <1>8, <1>11

\* A later child has a greater place.
LEMMA LaterChild ==
    ASSUME NEW s, NEW p, NEW n \in Nat, NEW m \in Nat, n < m, s[m].parent = p
    PROVE  Cardinality(ChildrenOf(s, p, n)) # Cardinality(ChildrenOf(s, p, m))
<1>1. IsFiniteSet(ChildrenOf(s, p, m)) /\ IsFiniteSet(ChildrenOf(s, p, n))
  BY ChildrenCounted
<1>2. ChildrenOf(s, p, n) \subseteq ChildrenOf(s, p, m)
  BY DEF ChildrenOf
<1>3. m \in ChildrenOf(s, p, m) /\ m \notin ChildrenOf(s, p, n)
  BY DEF ChildrenOf
<1>. QED BY <1>1, <1>2, <1>3, FS_Subset

LEMMA NamesDiffer ==
    ASSUME NEW s \in Seq(EventLine), NEW n \in 1..Len(s), NEW m \in 1..Len(s), n < m, s[n].seq < s[m].seq
    PROVE  Named(s[n], s, n) # Named(s[m], s, m)
<1>1. s[n] \in EventLine /\ s[m] \in EventLine /\ n \in Nat /\ m \in Nat
  BY ElementOfSeq, LenProperties
<1>2. s[n].seq \in Nat /\ s[m].seq \in Nat /\ s[n].seq # s[m].seq
  BY <1>1 DEF EventLine
<1>3. CASE s[n].parent = NoParent /\ s[m].parent = NoParent
  BY <1>2, <1>3 DEF Named
<1>4. CASE s[n].parent = NoParent /\ s[m].parent # NoParent
  <2>1. Named(s[n], s, n) = <<s[n].seq>>
    BY <1>4 DEF Named
  <2>2. Named(s[m], s, m) = <<s[m].parent, Cardinality(ChildrenOf(s, s[m].parent, m))>>
    BY <1>4 DEF Named
  <2>. QED BY <2>1, <2>2
<1>5. CASE s[n].parent # NoParent /\ s[m].parent = NoParent
  <2>1. Named(s[m], s, m) = <<s[m].seq>>
    BY <1>5 DEF Named
  <2>2. Named(s[n], s, n) = <<s[n].parent, Cardinality(ChildrenOf(s, s[n].parent, n))>>
    BY <1>5 DEF Named
  <2>. QED BY <2>1, <2>2
<1>6. CASE s[n].parent # NoParent /\ s[m].parent # NoParent
  <2>1. Named(s[m], s, m) = <<s[m].parent, Cardinality(ChildrenOf(s, s[m].parent, m))>>
    BY <1>6 DEF Named
  <2>2. Named(s[n], s, n) = <<s[n].parent, Cardinality(ChildrenOf(s, s[n].parent, n))>>
    BY <1>6 DEF Named
  <2>3. s[n].parent = s[m].parent =>
           Cardinality(ChildrenOf(s, s[n].parent, n)) # Cardinality(ChildrenOf(s, s[m].parent, m))
    BY <1>1, LaterChild
  <2>. QED BY <2>1, <2>2, <2>3
<1>. QED BY <1>3, <1>4, <1>5, <1>6

\* A row is that of the event shown at its place, and none has left the table for want of room
\* unless the table is full.
LEMMA RowIs ==
    ASSUME SegmentTyped, TableInv
    PROVE  /\ Len(shown) - Len(ui.table.rows) \in Nat
           /\ Len(shown) - Len(ui.table.rows) = 0 \/ Len(ui.table.rows) = MAX_EVENTS
           /\ DOMAIN ui.table.rows = 1..Len(ui.table.rows) /\ Len(ui.table.rows) \in Nat
           /\ \A i \in 1..Len(ui.table.rows) : \A n : n = Len(shown) - Len(ui.table.rows) + i =>
                 /\ n \in 1..Len(shown)
                 /\ ui.table.rows[i].event = shown[n]
                 /\ ui.table.rows[i].name = Named(shown[n], shown, n)
<1>1. shown \in Seq(EventLine) /\ ui.table \in Table
  BY UiParts DEF SegmentTyped
<1>2. /\ DOMAIN ui.table.rows = 1..Len(ui.table.rows) /\ Len(ui.table.rows) \in Nat
      /\ Len(shown) \in Nat /\ MAX_EVENTS \in Nat
  BY <1>1, TableParts, LenProperties, MaxEventsAssumption
<1>3. Len(ui.table.rows) = IF Len(shown) > MAX_EVENTS THEN MAX_EVENTS ELSE Len(shown)
  BY DEF TableInv, Shows
<1>4. ASSUME NEW i \in 1..Len(ui.table.rows), NEW n, n = Len(shown) - Len(ui.table.rows) + i
      PROVE  n \in 1..Len(shown) /\ ui.table.rows[i].event = shown[n] /\ ui.table.rows[i].name = Named(shown[n], shown, n)
  <2>1. n \in 1..Len(shown)
    BY <1>2, <1>3, <1>4
  <2>2. ui.table.rows[i] = [event |-> shown[n], name |-> Named(shown[n], shown, n)]
    BY <1>4 DEF TableInv, Shows
  <2>. QED BY <2>1, <2>2
<1>5. Len(shown) - Len(ui.table.rows) \in Nat
  BY <1>2, <1>3
<1>6. Len(shown) - Len(ui.table.rows) = 0 \/ Len(ui.table.rows) = MAX_EVENTS
  BY <1>2, <1>3
<1>. QED BY <1>2, <1>4, <1>5, <1>6

\* The children that a derived event's name counts are those of its parent.
LEMMA NameCounts ==
    ASSUME NEW e, NEW n, e.parent # NoParent
    PROVE  Named(e, shown, n) = <<e.parent, Cardinality(Children(e.parent, n))>>
BY DEF Named, Children, ChildrenOf

LEMMA LaterPlace ==
    ASSUME NEW g \in Nat, NEW i \in Nat, NEW j \in Nat, i < j
    PROVE  \E n, m \in Nat : n = g + i /\ m = g + j /\ n < m
OBVIOUS

\* The same name is never seen twice while a viewer is attached.
LEMMA RowsTellable ==
    ASSUME SegmentTyped, TableInv, SegmentInv, SentInv
    PROVE  RowsAreTellable
<1>7. PICK rows : rows = ui.table.rows
  OBVIOUS
<1>8. PICK g \in Nat : g = Len(shown) - Len(ui.table.rows)
  BY RowIs, <1>7
<1>1. /\ g = 0 \/ Len(rows) = MAX_EVENTS
      /\ DOMAIN rows = 1..Len(rows) /\ Len(rows) \in Nat
  BY RowIs, <1>7, <1>8
<1>2. ASSUME NEW i \in 1..Len(rows), NEW n, n = g + i
      PROVE  n \in 1..Len(shown) /\ rows[i].event = shown[n] /\ rows[i].name = Named(shown[n], shown, n)
  BY <1>2, <1>7, <1>8, RowIs
<1>3. ASSUME NEW i \in 1..Len(rows)
      PROVE  /\ rows[i].event = shown[g + i]
             /\ rows[i].event.parent # NoParent =>
                   rows[i].name = <<rows[i].event.parent, Cardinality(Children(rows[i].event.parent, g + i))>>
  <2>0. PICK n : n = g + i
    OBVIOUS
  <2>1. rows[i].event = shown[n] /\ rows[i].name = Named(shown[n], shown, n)
    BY <1>2, <2>0
  <2>2. rows[i].event.parent # NoParent =>
           rows[i].name = <<rows[i].event.parent, Cardinality(Children(rows[i].event.parent, n))>>
    BY <2>1, NameCounts
  <2>. QED BY <2>0, <2>1, <2>2
<1>4. ASSUME Live, NEW i \in 1..Len(rows), NEW j \in 1..Len(rows), i < j PROVE rows[i].name # rows[j].name
  <2>1. PICK n \in Nat, m \in Nat : n = g + i /\ m = g + j /\ n < m
    <3>1. i \in Nat /\ j \in Nat /\ i < j
      BY <1>1, <1>4
    <3>. QED BY <3>1, LaterPlace, Zenon
  <2>2. n \in 1..Len(shown) /\ m \in 1..Len(shown)
    BY <1>2, <2>1
  <2>3. shown[n].seq < shown[m].seq
    BY <1>4, <2>1, <2>2, ShownInOrder
  <2>4. shown \in Seq(EventLine)
    BY UiParts DEF SegmentTyped
  <2>5. Named(shown[n], shown, n) # Named(shown[m], shown, m)
    BY <2>1, <2>2, <2>3, <2>4, NamesDiffer
  <2>. QED BY <1>2, <2>1, <2>5
<1>5. ASSUME Live, NEW i \in 1..Len(rows), NEW j \in 1..Len(rows), i # j PROVE rows[i].name # rows[j].name
  <2>1. i < j \/ j < i
    BY <1>1, <1>5
  <2>. QED BY <1>4, <1>5, <2>1
<1>6. /\ g = 0 \/ Len(rows) = MAX_EVENTS
      /\ \A i \in DOMAIN rows :
            /\ rows[i].event = shown[g + i]
            /\ rows[i].event.parent # NoParent =>
                  rows[i].name = <<rows[i].event.parent, Cardinality(Children(rows[i].event.parent, g + i))>>
      /\ Live => \A i, j \in DOMAIN rows : i # j => rows[i].name # rows[j].name
  BY <1>1, <1>3, <1>5, Zenon
<1>. QED BY <1>6, <1>7, <1>8, Zenon DEF RowsAreTellable

-----------------------------------------------------------------------------
(***************************************************************************)
(* The rows, what is kept back and what is queued.                         *)
(***************************************************************************)
\* They are the end of what the window has been told.
JoinedInTwo(p, r, h, q) ==
    ((p \o r) \o h) \o q = p \o ((r \o h) \o q) /\ (r \o h) \o q \in Seq(EventLine)

LEMMA FourJoined ==
    ASSUME NEW p \in Seq(EventLine), NEW r \in Seq(EventLine), NEW h \in Seq(EventLine), NEW q \in Seq(EventLine)
    PROVE  JoinedInTwo(p, r, h, q)
<1>1. r \o h \in Seq(EventLine) /\ (r \o h) \o q \in Seq(EventLine)
  BY JoinedTyped
<1>2. Regroups(p, r, h) /\ Regroups(p, r \o h, q)
  BY <1>1, Regrouped
<1>. QED BY <1>1, <1>2, Zenon DEF JoinedInTwo, Regroups

LEMMA HeldIsTold ==
    ASSUME ui \in Ui, queue \in Seq(Signal), shown \in Seq(EventLine), TableInv
    PROVE  \E p \in Seq(EventLine) : Told = p \o Held /\ Held \in Seq(EventLine)
<1>1. ui.table \in Table /\ ui.pending_events \in Seq(EventLine) /\ EventsIn(queue) \in Seq(EventLine)
  BY UiParts, ToldTyped
<1>2. Shows(ui.table, shown)
  BY DEF TableInv
<1>6. PICK p \in Seq(EventLine) : shown = p \o Events(ui.table.rows) /\ Events(ui.table.rows) \in Seq(EventLine)
  BY <1>1, <1>2, RowsAreShown
<1>7. PICK r \in Seq(EventLine), h \in Seq(EventLine), q \in Seq(EventLine) :
         r = Events(ui.table.rows) /\ h = ui.pending_events /\ q = EventsIn(queue)
  BY <1>1, <1>6, Zenon
<1>3. shown = p \o r
  BY <1>6, <1>7, Zenon
<1>4. (shown \o h) \o q = p \o ((r \o h) \o q) /\ (r \o h) \o q \in Seq(EventLine)
  <2>1. JoinedInTwo(p, r, h, q)
    BY FourJoined, Zenon
  <2>. QED BY <1>3, <2>1, Zenon DEF JoinedInTwo
<1>5. Told = (shown \o h) \o q /\ Held = (r \o h) \o q
  BY <1>7, Zenon DEF Told, Kept, Held, Queued
<1>. QED BY <1>4, <1>5, Zenon

\* What is on its way follows.
LEMMA EndBehindOf ==
    ASSUME NEW p \in Seq(EventLine), NEW u \in Seq(EventLine), NEW w \in Seq(EventLine), NEW v, v = p \o u,
           NEW s, Ends(v \o w, s)
    PROVE  Ends(u \o w, s)
<1>1. v \o w = p \o (u \o w)
  BY JoinedThree, Zenon
<1>2. u \o w \in Seq(EventLine)
  BY JoinedTyped
<1>3. Ends(p \o (u \o w), s)
  BY <1>1, Zenon
<1>. QED BY <1>2, <1>3, EndBack, Zenon

\* An attached viewer has a segment of what was sent to it, to its end while the connection lasts.
LEMMA TableIsSegment ==
    ASSUME SegmentTyped, TableInv, SegmentInv, CountInv
    PROVE  TableIsASegment
<1>. SUFFICES ASSUME Live
              PROVE  /\ \E i \in 0..Len(sent) : \E j \in i..Len(sent) :
                           /\ Held \o wire = SubSeq(sent, i + 1, j)
                           /\ linked => j = Len(sent)
                     /\ ui.event_count = Len(shown) + Len(ui.pending_events)
  BY Zenon DEF TableIsASegment
<1>1. ui \in Ui /\ queue \in Seq(Signal) /\ shown \in Seq(EventLine) /\ wire \in Seq(EventLine) /\ sent \in Seq(EventLine)
  BY DEF SegmentTyped
<1>. PICK p \in Seq(EventLine) : Told = p \o Held /\ Held \in Seq(EventLine)
  BY <1>1, HeldIsTold
<1>2. Seen = p \o Held
  BY Zenon DEF Seen
<1>3. Held \o wire \in Seq(EventLine)
  BY <1>1, JoinedTyped, Zenon
<1>4. ui.event_count = Len(shown) + Len(ui.pending_events)
  BY DEF CountInv, Live
<1>5. CASE linked
  <2>1. Ends(Seen \o wire, sent)
    BY <1>5, Zenon DEF SegmentInv
  <2>2. Ends(Held \o wire, sent)
    BY <1>1, <1>2, <2>1, EndBehindOf, Zenon
  <2>3. \E i \in 0..Len(sent) : Len(sent) \in i..Len(sent) /\ Held \o wire = SubSeq(sent, i + 1, Len(sent))
    BY <1>1, <1>3, <2>2, EndIs, Zenon
  <2>. QED BY <1>4, <2>3, Zenon
<1>6. CASE ~linked
  <2>1. Segment(Seen \o wire, sent)
    BY <1>6, Zenon DEF SegmentInv
  <2>2. Segment(Held \o wire, sent)
    BY <1>1, <1>2, <2>1, SegmentBehindOf, Zenon
  <2>3. \E i \in 0..Len(sent) : \E j \in i..Len(sent) : Held \o wire = SubSeq(sent, i + 1, j)
    BY <1>1, <1>3, <2>2, SegmentIs, Zenon
  <2>. QED BY <1>4, <1>6, <2>3, Zenon
<1>. QED BY <1>5, <1>6

\* A log that was opened is shown, unless a late `connected` has cleared it.
LEMMA LogIsShown ==
    ASSUME SegmentTyped, opened \in Seq(EventLine), TableInv, OfflineInv
    PROVE  OfflineShowsTheLog
<1>. SUFFICES ASSUME log.asked
              PROVE  /\ IsSuffix(Held, opened)
                     /\ ui.offline /\ ~log.cleared => Told = opened
                     /\ ~ui.offline => log.late
  BY Zenon DEF OfflineShowsTheLog, Told, Kept, Queued
<1>1. ui \in Ui /\ queue \in Seq(Signal) /\ shown \in Seq(EventLine)
  BY DEF SegmentTyped
<1>. PICK p \in Seq(EventLine) : Told = p \o Held /\ Held \in Seq(EventLine)
  BY <1>1, HeldIsTold
<1>2. Ends(Told, opened) /\ (ui.offline /\ ~log.cleared => Told = opened) /\ (~ui.offline => log.late)
  BY Zenon DEF OfflineInv
<1>3. Ends(p \o Held, opened)
  BY <1>2, Zenon
<1>4. Ends(Held, opened)
  BY <1>3, EndBack, Zenon
<1>5. EndsWith(opened, Held)
  BY <1>4, EndIs, Zenon
<1>6. IsSuffix(Held, opened)
  BY <1>5, EndIsSuffix, Zenon
<1>. QED BY <1>2, <1>6

-----------------------------------------------------------------------------
(***************************************************************************)
(* The invariant holds at first and is kept by every step.                 *)
(***************************************************************************)
LEMMA InitTyped == ASSUME Init PROVE DeliveryTyped /\ TableInv
<1>1. bound \in Workload
  BY WorkloadAssumption DEF Init
<1>2. EngineTyped
  <2>1. running = FALSE /\ socket = "absent" /\ counter = 1
    BY Zenon DEF Init
  <2>2. running \in BOOLEAN /\ socket \in {"absent", "stale", "bound"}
    BY <2>1, Zenon
  <2>3. counter \in Nat \ {0}
    BY <2>1
  <2>. QED BY <1>1, <2>2, <2>3, Zenon DEF EngineTyped
<1>3. bound.captures \in Nat
  BY <1>1 DEF Workload
<1>4. <<>> \in Seq(EventLine) /\ <<>> \in Seq(Signal) /\ <<>> \in Seq(FileWrite)
  OBVIOUS
<1>5. RecorderTyped
  <2>1. captures \in 0..bound.captures /\ run \in {NoRun, captures}
    BY <1>3 DEF Init
  <2>2. /\ stream \in [open : BOOLEAN, failed : BOOLEAN, held : Seq(Line)]
        /\ call \in [at : {"none"}] \cup [at : {"record", "broadcast"}, line : Line]
    BY StreamsTyped DEF Init, NoCall
  <2>3. file \in Seq(FileWrite) /\ failed \subseteq Runs
    BY <1>4 DEF Init
  <2>4. attempted \in [Runs -> Seq(EventLine)] /\ safe \in [Runs -> Nat]
    BY <1>4 DEF Init
  <2>. QED BY <2>1, <2>2, <2>3, <2>4 DEF RecorderTyped
<1>6. Cleared \in Table /\ Shows(Cleared, <<>>)
  BY EmptyTable
<1>7. /\ ui \in Ui /\ ui.table = Cleared
  BY <1>4, <1>6 DEF Init, Ui
<1>8. ViewerTyped
  BY <1>4, <1>7 DEF Init, ViewerTyped, Views
<1>9. TableInv
  BY <1>6, <1>7 DEF Init, TableInv
<1>. QED BY <1>2, <1>5, <1>8, <1>9 DEF DeliveryTyped

LEMMA InitRecorder == ASSUME Init PROVE CallIsOfTheRun /\ StreamInv /\ OwnEvents /\ NotBegun /\ LogInv
<1>1. CallIsOfTheRun
  BY DEF Init, CallIsOfTheRun, NoCall
<1>2. StreamInv
  BY DEF Init, StreamInv
<1>3. file = <<>> /\ Len(file) = 0 /\ DOMAIN file = {}
  BY DEF Init
<1>4. ASSUME NEW r \in Runs PROVE attempted[r] = <<>> /\ Len(attempted[r]) = 0 /\ safe[r] = 0
  BY DEF Init
<1>5. OwnEvents
  BY <1>4 DEF OwnEvents
<1>6. NotBegun
  BY <1>3, <1>4 DEF NotBegun
<1>7. ASSUME NEW r \in Runs PROVE IsLogged(r)
  <2>1. LogOf(file, r, attempted[r], safe[r], 0)
    BY <1>3, <1>4 DEF LogOf
  <2>2. r # run
    BY DEF Init, Runs, NoRun
  <2>. QED BY <1>3, <2>1, <2>2 DEF IsLogged
<1>8. LogInv
  BY <1>7 DEF LogInv
<1>. QED BY <1>1, <1>2, <1>5, <1>6, <1>8

LEMMA InitViewer ==
    ASSUME Init
    PROVE  LoggedInv /\ ControlInv /\ SentInv /\ SegmentInv /\ CountInv /\ OfflineInv
<1>1. EventsIn(queue) = <<>>
  BY QueueEmpty DEF Init
<1>2. LoggedInv
  BY <1>1, EmptyRange DEF Init, LoggedInv, NoCall
<1>3. ControlInv
  BY DEF Init, ControlInv
<1>4. SentInv
  BY DEF Init, SentInv, NoCall
<1>5. SegmentInv
  <2>1. Seen = <<>> /\ wire = <<>> /\ sent = <<>> /\ ~linked
    BY <1>1 DEF Init, Seen, Live
  <2>2. <<>> \in Seq(EventLine)
    OBVIOUS
  <2>3. <<>> \o <<>> = <<>> /\ <<>> = (<<>> \o <<>>) \o <<>>
    BY <2>2, JoinedEmpty
  <2>4. Segment(<<>>, <<>>)
    BY <2>2, <2>3, Zenon DEF Segment
  <2>. QED BY <2>1, <2>3, <2>4, Zenon DEF SegmentInv
<1>6. CountInv
  BY DEF Init, CountInv
<1>7. OfflineInv
  BY DEF Init, OfflineInv
<1>. QED BY <1>2, <1>3, <1>4, <1>5, <1>6, <1>7

LEMMA DeliveryInit == Init => DeliveryInv
BY InitTyped, InitRecorder, InitViewer, Zenon DEF DeliveryInv

LEMMA DeliveryStep == ASSUME DeliveryInv, Next PROVE DeliveryInv'
<1>1. EngineTyped /\ RecorderTyped /\ ViewerTyped
  BY Zenon DEF DeliveryInv, DeliveryTyped
<1>2. /\ CallIsOfTheRun /\ StreamInv /\ OwnEvents /\ NotBegun /\ LogInv /\ LoggedInv
      /\ ControlInv /\ SentInv /\ SegmentInv /\ CountInv /\ OfflineInv /\ TableInv
  BY Zenon DEF DeliveryInv
<1>3. EngineTyped' /\ RecorderTyped' /\ ViewerTyped' /\ TableInv'
  BY <1>1, <1>2, EngineTypedStep, RecorderTypedStep, ViewerTypedStep, Zenon
<1>4. CallIsOfTheRun' /\ StreamInv' /\ OwnEvents' /\ NotBegun' /\ LogInv'
  BY <1>1, <1>2, CallStep, StreamStep, OwnStep, NotBegunStep, LogStep, Zenon
<1>5. LoggedInv' /\ ControlInv' /\ SentInv'
  BY <1>1, <1>2, LoggedStep, ControlStep, SentStep, Zenon
<1>6. SegmentInv' /\ CountInv' /\ OfflineInv'
  BY <1>1, <1>2, SegmentStep, CountStep, OfflineStep, Zenon
<1>. QED BY <1>3, <1>4, <1>5, <1>6, Zenon DEF DeliveryInv, DeliveryTyped

LEMMA DeliveryStays == ASSUME DeliveryInv, UNCHANGED vars PROVE DeliveryInv'
<1>. USE DEF vars, process, recorder, connection, window
<1>1. EngineTyped' /\ RecorderTyped' /\ ViewerTyped' /\ TableInv'
  <2>1. EngineTyped /\ RecorderTyped /\ ViewerTyped /\ TableInv
    BY DEF DeliveryInv, DeliveryTyped
  <2>. QED BY <2>1, EngineStays, RecorderStays, ViewerStays DEF TableInv
<1>2. CallIsOfTheRun' /\ StreamInv' /\ OwnEvents' /\ NotBegun'
  BY DEF DeliveryInv, CallIsOfTheRun, StreamInv, EventCalled, OwnEvents, NotBegun, Runs
<1>3. LogInv' /\ LoggedInv'
  BY DEF DeliveryInv, LogInv, LoggedInv, IsLogged, InProgress, MetadataCalled, Logged, Runs
<1>4. ControlInv' /\ SentInv' /\ CountInv'
  BY DEF DeliveryInv, ControlInv, None, SentInv, CountInv
<1>5. SegmentInv' /\ OfflineInv'
  BY DEF DeliveryInv, SegmentInv, OfflineInv, None, Seen, Told, Kept, Live
<1>. QED BY <1>1, <1>2, <1>3, <1>4, <1>5 DEF DeliveryInv, DeliveryTyped

\* All that the properties rest on: the types, the sink's line, the stream and the file, the
\* connection and its queue, what the window has been told, and the table.
THEOREM DeliveryInvariant == Spec => []DeliveryInv
<1>1. DeliveryInv /\ [Next]_vars => DeliveryInv'
  BY DeliveryStep, DeliveryStays
<1>. QED BY <1>1, DeliveryInit, PTL DEF Spec

-----------------------------------------------------------------------------
(***************************************************************************)
(* The properties.                                                         *)
(***************************************************************************)
\* What can be read back of a capture is how it began, with everything that record() wrote in
\* full, whatever number of processes crashed and of writes failed before, in or after it.
THEOREM LogPrefixes == Spec => []LogHoldsPrefixes
<1>1. DeliveryInv => LogHoldsPrefixes
  BY LogIsRead, Zenon DEF DeliveryInv, DeliveryTyped
<1>. QED BY <1>1, DeliveryInvariant, PTL

\* The file is never behind the window: record() returns before broadcast() is called, so an
\* event that is on its way, queued, kept back or shown can be read, unless writing failed.
THEOREM SeenLogged == Spec => []SeenIsLogged
<1>1. DeliveryInv => SeenIsLogged
  BY SeenIsLoaded, Zenon DEF DeliveryInv, DeliveryTyped
<1>. QED BY <1>1, DeliveryInvariant, PTL

\* Rows, what is kept back, what is queued and what is under way are together one stretch of what
\* the server sent to this connection, up to the last event of it while the connection lasts.
THEOREM TableSegment == Spec => []TableIsASegment
<1>1. DeliveryInv => TableIsASegment
  <2>1. DeliveryInv => SegmentTyped
    BY DEF DeliveryInv, DeliveryTyped, ViewerTyped, SegmentTyped
  <2>. QED BY <2>1, TableIsSegment, Zenon DEF DeliveryInv
<1>. QED BY <1>1, DeliveryInvariant, PTL

\* Until the user attaches again, the table shows nothing but the log that open_log_file() loaded, to
\* its last line, and what the connection it stopped had already posted to the window's thread; it
\* shows them all unless the user has cleared it or the log was opened before that connection's
\* `connected` had been handled, whose clear_all() takes the log away.
THEOREM OfflineLog == Spec => []OfflineShowsTheLog
<1>1. DeliveryInv => OfflineShowsTheLog
  <2>1. DeliveryInv => SegmentTyped /\ opened \in Seq(EventLine)
    BY DEF DeliveryInv, DeliveryTyped, ViewerTyped, SegmentTyped
  <2>. QED BY <2>1, LogIsShown, Zenon DEF DeliveryInv
<1>. QED BY <1>1, DeliveryInvariant, PTL

\* PacketTableModel names a derived event by its place among all the children of its parent, and
\* no two rows of an attached viewer have the same name.
THEOREM RowNames == Spec => []RowsAreTellable
<1>1. DeliveryInv => RowsAreTellable
  <2>1. DeliveryInv => SegmentTyped
    BY DEF DeliveryInv, DeliveryTyped, ViewerTyped, SegmentTyped
  <2>. QED BY <2>1, RowsTellable, Zenon DEF DeliveryInv
<1>. QED BY <1>1, DeliveryInvariant, PTL
====
