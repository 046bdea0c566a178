----------------------------- MODULE ViewerProofs -----------------------------
(***************************************************************************)
(* The viewer's connections, commands and buttons, for any number of       *)
(* connections and commands and whatever other viewers do, as long as its  *)
(* user lets one connection end before asking for the next, and asks for   *)
(* its end only when the button says Detach (Patient).                     *)
(***************************************************************************)
EXTENDS ViewerProperties, SequenceTheorems, TLAPS

-----------------------------------------------------------------------------
(***************************************************************************)
(* Sequences as sets of their elements                                     *)
(***************************************************************************)
LEMMA NoneInEmpty == Range(<<>>) = {}
  BY DEF Range

LEMMA Appended ==
  ASSUME NEW S, NEW s \in Seq(S), NEW e \in S
  PROVE  /\ Append(s, e) \in Seq(S) /\ s \o <<e>> = Append(s, e)
         /\ Range(Append(s, e)) = Range(s) \cup {e}
         /\ Append(s, e) # <<>> /\ Append(s, e)[Len(Append(s, e))] = e
<1>0. Append(s, e) \in Seq(S)
  OBVIOUS
<1>1. PICK t \in Seq(S) : t = Append(s, e)
  BY <1>0, Zenon
<1>2. PICK at : at = Len(s) + 1
  OBVIOUS
<1>3. DOMAIN s = 1..Len(s) /\ Len(s) \in Nat /\ Len(t) = at /\ DOMAIN t = 1..(Len(s) + 1)
  BY <1>1, <1>2
<1>4. t[at] = e /\ \A i \in DOMAIN s : t[i] = s[i]
  BY <1>1, <1>2
<1>5. DOMAIN t = DOMAIN s \cup {at}
  BY <1>2, <1>3
<1>6. Range(t) = Range(s) \cup {e}
  BY <1>4, <1>5 DEF Range
<1>7. s \o <<e>> = t
  BY <1>1
<1>8. t # <<>> /\ t[Len(t)] = e
  BY <1>3, <1>4
<1> QED
  BY <1>1, <1>6, <1>7, <1>8, Zenon

LEMMA Popped ==
  ASSUME NEW S, NEW s \in Seq(S), s # <<>>
  PROVE  /\ Tail(s) \in Seq(S) /\ Head(s) \in S
         /\ Range(s) = Range(Tail(s)) \cup {Head(s)}
         /\ Tail(s) # <<>> => Tail(s)[Len(Tail(s))] = s[Len(s)]
<1>0. Tail(s) \in Seq(S) /\ Head(s) \in S /\ Head(s) = s[1]
  OBVIOUS
<1>1. PICK t \in Seq(S) : t = Tail(s)
  BY <1>0, Zenon
<1>2. PICK n \in Nat : n = Len(s) - 1 /\ Len(t) = n /\ DOMAIN t = 1..n /\ DOMAIN s = 1..(n + 1)
  BY <1>1
<1>3. \A i \in 1..n : t[i] = s[i + 1]
  BY <1>1, <1>2
<1>4. ASSUME NEW x \in Range(s), x # Head(s)
      PROVE  x \in Range(t)
  <2>1. PICK i \in 1..(n + 1) : s[i] = x
    BY <1>2 DEF Range
  <2>2. PICK k : k = i - 1
    OBVIOUS
  <2>3. k \in 1..n /\ k + 1 = i
    BY <1>0, <1>2, <1>4, <2>1, <2>2
  <2>4. t[k] = x
    BY <1>3, <2>1, <2>3
  <2> QED
    BY <1>2, <2>3, <2>4 DEF Range
<1>5. ASSUME NEW x \in Range(t)
      PROVE  x \in Range(s)
  <2>1. PICK k \in 1..n : t[k] = x
    BY <1>2 DEF Range
  <2>2. PICK i : i = k + 1
    OBVIOUS
  <2>3. i \in DOMAIN s /\ s[i] = x
    BY <1>2, <1>3, <2>1, <2>2
  <2> QED
    BY <2>3 DEF Range
<1>6. Head(s) \in Range(s)
  BY <1>0, <1>2 DEF Range
<1>7. Range(s) = Range(t) \cup {Head(s)}
  BY <1>4, <1>5, <1>6
<1>8. t # <<>> => t[Len(t)] = s[Len(s)]
  <2>1. t # <<>> => n \in 1..n /\ Len(s) = n + 1
    BY <1>2
  <2> QED
    BY <1>2, <1>3, <2>1
<1> QED
  BY <1>0, <1>1, <1>7, <1>8, Zenon

-----------------------------------------------------------------------------
(***************************************************************************)
(* The signals in the queue: what posting and taking them changes          *)
(***************************************************************************)
LEMMA PostedOne ==
  ASSUME NEW q \in Seq(Signals), NEW s \in Signals
  PROVE  /\ q \o <<s>> \in Seq(Signals) /\ q \o <<s>> # <<>>
         /\ Range(q \o <<s>>) = Range(q) \cup {s}
         /\ ConnectingFirst(q) /\ (s.kind = "connecting" => q = <<>>) =>
               ConnectingFirst(q \o <<s>>)
         /\ EndsLast(q) /\ (\A t \in Range(q) : ~IsEnding(t)) => EndsLast(q \o <<s>>)
<1>1. PICK r \in Seq(Signals) : r = Append(q, s) /\ r = q \o <<s>> /\ r # <<>>
  BY Appended, Zenon
<1>2. Range(r) = Range(q) \cup {s}
  <2>1. Range(Append(q, s)) = Range(q) \cup {s}
    BY Appended
  <2> QED
    BY <1>1, <2>1, Zenon
<1>3. PICK at \in Nat : at = Len(q) + 1
  OBVIOUS
<1>4. /\ Len(q) \in Nat /\ DOMAIN q = 1..Len(q) /\ DOMAIN r = 1..at
      /\ r[at] = s /\ \A i \in DOMAIN q : r[i] = q[i]
  BY <1>1, <1>3
<1>5. DOMAIN r = DOMAIN q \cup {at} /\ \A i \in DOMAIN q : i < at
  BY <1>3, <1>4
<1>6. ConnectingFirst(q) /\ (s.kind = "connecting" => q = <<>>) => ConnectingFirst(r)
  <2>1. q = <<>> => at = 1
    BY <1>3
  <2> QED
    BY <2>1, <1>4, <1>5 DEF ConnectingFirst
<1>7. ASSUME EndsLast(q), \A t \in Range(q) : ~IsEnding(t)
      PROVE  EndsLast(r)
  <2>1. \A i \in DOMAIN q : ~IsEnding(r[i])
    BY <1>4, <1>7 DEF Range
  <2>2. \A i, j \in DOMAIN r : i < j => i \in DOMAIN q
    BY <1>3, <1>4
  <2> QED
    BY <2>1, <2>2, Zenon DEF EndsLast
<1> QED
  BY <1>1, <1>2, <1>6, <1>7, Zenon

LEMMA PostedEnd ==
  ASSUME NEW q \in Seq(Signals), NEW w \in Workers
  PROVE  /\ q \o Ended(w) \in Seq(Signals) /\ q \o Ended(w) # <<>>
         /\ Range(q \o Ended(w)) =
               Range(q) \cup {Signal(w, "disconnected"), Signal(w, "finished")}
         /\ ConnectingFirst(q) => ConnectingFirst(q \o Ended(w))
         /\ EndsLast(q) => EndsLast(q \o Ended(w))
         /\ (q \o Ended(w))[Len(q \o Ended(w))].kind = "finished"
<1> DEFINE d == Signal(w, "disconnected")
           f == Signal(w, "finished")
<1>1. d \in Signals /\ f \in Signals /\ d.kind = "disconnected" /\ f.kind = "finished"
  BY DEF Signal, Signals, Notices
<1> HIDE DEF d, f
<1>2. <<d, f>> \in Seq(Signals) /\ q \o <<d, f>> \in Seq(Signals)
  BY <1>1
<1>3. PICK r \in Seq(Signals) : r = q \o <<d, f>>
  BY <1>2, Zenon
<1>4. PICK at \in Nat, end \in Nat : at = Len(q) + 1 /\ end = at + 1
  OBVIOUS
<1>5. /\ Len(q) \in Nat /\ DOMAIN q = 1..Len(q) /\ Len(r) = end /\ DOMAIN r = 1..end
      /\ r[at] = d /\ r[end] = f /\ \A i \in DOMAIN q : r[i] = q[i]
  BY <1>2, <1>3, <1>4
<1>6. DOMAIN r = DOMAIN q \cup {at, end} /\ at < end /\ \A i \in DOMAIN q : i < at
  BY <1>4, <1>5
<1>7. Range(r) = Range(q) \cup {d, f}
  <2>1. \A x \in Range(r) : x \in Range(q) \cup {d, f}
    BY <1>5, <1>6 DEF Range
  <2>2. \A x \in Range(q) \cup {d, f} : x \in Range(r)
    BY <1>5, <1>6 DEF Range
  <2> QED
    BY <2>1, <2>2
<1>8. ConnectingFirst(q) => ConnectingFirst(r)
  BY <1>1, <1>5, <1>6 DEF ConnectingFirst
<1>9. EndsLast(q) => EndsLast(r)
  <2>1. IsEnding(r[at]) /\ IsEnding(r[end])
    BY <1>1, <1>5 DEF IsEnding
  <2>2. \A i, j \in DOMAIN r : i < j /\ j \in DOMAIN q => i \in DOMAIN q
    BY <1>4, <1>5
  <2> QED
    BY <2>1, <2>2, <1>5, <1>6, Zenon DEF EndsLast
<1>10. r # <<>> /\ r[Len(r)].kind = "finished"
  <2>1. Len(r) # 0
    BY <1>4, <1>5
  <2>2. r[Len(r)] = f
    BY <1>5, Zenon
  <2> QED
    BY <1>1, <2>1, <2>2
<1>11. r = q \o Ended(w)
  BY <1>3 DEF Ended, d, f
<1> QED
  BY <1>7, <1>8, <1>9, <1>10, <1>11, Zenon DEF d, f

LEMMA TakenOne ==
  ASSUME NEW q \in Seq(Signals), q # <<>>
  PROVE  /\ Tail(q) \in Seq(Signals) /\ Head(q) \in Signals
         /\ Range(q) = Range(Tail(q)) \cup {Head(q)}
         /\ ConnectingFirst(q) =>
               /\ ConnectingFirst(Tail(q))
               /\ \A s \in Range(Tail(q)) : s.kind # "connecting"
         /\ EndsLast(q) =>
               /\ EndsLast(Tail(q))
               /\ IsEnding(Head(q)) => \A s \in Range(q) : IsEnding(s)
         /\ Tail(q) # <<>> => Tail(q)[Len(Tail(q))] = q[Len(q)]
         /\ Tail(q) = <<>> => q[Len(q)] = Head(q)
<1>1. /\ Tail(q) \in Seq(Signals) /\ Head(q) \in Signals
      /\ Range(q) = Range(Tail(q)) \cup {Head(q)}
      /\ Tail(q) # <<>> => Tail(q)[Len(Tail(q))] = q[Len(q)]
  BY Popped
<1>2. PICK r \in Seq(Signals) : r = Tail(q)
  BY <1>1, Zenon
<1>3. PICK n \in Nat : n = Len(q) - 1 /\ DOMAIN r = 1..n /\ DOMAIN q = 1..(n + 1)
  BY <1>2
<1>4. ASSUME NEW i \in DOMAIN r
      PROVE  \E k \in DOMAIN q : k = i + 1 /\ r[i] = q[k] /\ k # 1
  BY <1>2, <1>3
<1>5. ASSUME ConnectingFirst(q)
      PROVE  ConnectingFirst(r) /\ \A s \in Range(r) : s.kind # "connecting"
  <2>1. \A i \in DOMAIN r : r[i].kind # "connecting"
    BY <1>4, <1>5 DEF ConnectingFirst
  <2> QED
    BY <2>1 DEF ConnectingFirst, Range
<1>6. ASSUME EndsLast(q)
      PROVE  EndsLast(r)
  <2> SUFFICES ASSUME NEW i \in DOMAIN r, NEW j \in DOMAIN r, i < j, IsEnding(r[i])
               PROVE  IsEnding(r[j])
    BY DEF EndsLast
  <2>1. PICK k \in DOMAIN q : k = i + 1 /\ r[i] = q[k]
    BY <1>4
  <2>2. PICK l \in DOMAIN q : l = j + 1 /\ r[j] = q[l]
    BY <1>4
  <2>3. k < l
    BY <1>3, <2>1, <2>2
  <2> QED
    BY <1>6, <2>1, <2>2, <2>3, Zenon DEF EndsLast
<1>7. ASSUME EndsLast(q), IsEnding(Head(q)), NEW s \in Range(q)
      PROVE  IsEnding(s)
  <2>1. PICK i \in DOMAIN q : s = q[i]
    BY DEF Range
  <2>2. PICK one \in DOMAIN q : one = 1 /\ Head(q) = q[one]
    BY <1>3
  <2>3. i = one \/ one < i
    BY <1>3, <2>2
  <2> QED
    BY <1>7, <2>1, <2>2, <2>3, Zenon DEF EndsLast
<1>8. Len(r) = Len(q) - 1
  BY <1>2
<1>9. r = <<>> => q[Len(q)] = Head(q)
  <2> SUFFICES ASSUME r = <<>>
               PROVE  q[Len(q)] = Head(q)
    OBVIOUS
  <2>1. Len(r) = 0
    OBVIOUS
  <2>2. PICK k \in Nat : k = Len(q)
    OBVIOUS
  <2>3. k = 1
    BY <1>8, <2>1, <2>2
  <2>4. q[k] = q[1]
    BY <2>3
  <2>5. Head(q) = q[1]
    OBVIOUS
  <2> QED
    BY <2>2, <2>4, <2>5, Zenon
<1> QED
  BY <1>1, <1>2, <1>5, <1>6, <1>7, <1>9, Zenon

-----------------------------------------------------------------------------
(***************************************************************************)
(* The window's helpers: the fields each one changes                       *)
(***************************************************************************)
\* u and v show the same connection.
Same(u, v) ==
    /\ v.worker = u.worker /\ v.connected = u.connected
    /\ v.pending = u.pending /\ v.attach = u.attach

SameButtons(u, v) == v.start = u.start /\ v.stop = u.stop /\ v.starting = u.starting

LEMMA ControlsSet ==
  ASSUME NEW u \in Windows, NEW c \in BOOLEAN
  PROVE  LET v == SetControls(u, c) IN
         v \in Windows /\ Same(u, v) /\ v.starting = u.starting
         /\ v.start = (~c /\ ~u.starting) /\ v.stop = c
  BY DEF Windows, SetControls, Same

LEMMA ControlsRestored ==
  ASSUME NEW u \in Windows
  PROVE  RestoreControls(u) \in Windows /\ Same(u, RestoreControls(u))
         /\ Startable(RestoreControls(u))
  BY DEF Windows, RestoreControls, SetControls, Same, Startable

LEMMA StateApplied ==
  ASSUME NEW u \in Windows, NEW state \in EngineStates
  PROVE  ApplyEngineState(u, state) \in Windows /\ Same(u, ApplyEngineState(u, state))
  BY DEF Windows, ApplyEngineState, SetControls, Same

LEMMA WasLaunched ==
  ASSUME NEW u \in Windows
  PROVE  Launched(u) \in Windows /\ Same(u, Launched(u))
  BY DEF Windows, Launched, SetControls, Same

Entry(w, op) == [id |-> ids[w] + 1, intent |-> op, via |-> w]

LEMMA Noted ==
  ASSUME TypeOK, NEW u \in Windows, NEW w \in Workers, NEW op \in Ops
  PROVE  /\ Entry(w, op) \in [id : Nat, intent : Ops, via : Workers]
         /\ LET v == Note(u, w, op) IN
            /\ v \in Windows /\ v.worker = u.worker /\ v.connected = u.connected
            /\ v.attach = u.attach /\ SameButtons(u, v)
            /\ v.pending = {p \in u.pending : p.id # ids[w] + 1} \cup {Entry(w, op)}
<1>1. Entry(w, op) \in [id : Nat, intent : Ops, via : Workers]
  BY DEF TypeOK, WiresOK, Entry
<1>2. Entry(w, op).id = ids[w] + 1
  BY DEF Entry
<1>3. PICK pending \in SUBSET [id : Nat, intent : Ops, via : Workers] :
           pending = {p \in u.pending : p.id # ids[w] + 1} \cup {Entry(w, op)}
  BY <1>1 DEF Windows
<1>4. Note(u, w, op) = [u EXCEPT !.pending = pending]
  BY <1>2, <1>3 DEF Note, Entry
<1>5. LET v == [u EXCEPT !.pending = pending] IN
      /\ v \in Windows /\ v.worker = u.worker /\ v.connected = u.connected
      /\ v.attach = u.attach /\ SameButtons(u, v) /\ v.pending = pending
  BY DEF Windows, SameButtons
<1> QED
  BY <1>1, <1>3, <1>4, <1>5, Zenon

LEMMA WasForgotten ==
  ASSUME NEW u \in Windows
  PROVE  LET v == Forget(u) IN
         /\ v \in Windows /\ v.worker = None /\ ~v.connected /\ v.pending = {}
         /\ v.attach = u.attach /\ SameButtons(u, v)
  BY DEF Windows, Forget, SameButtons, None

LEMMA WasDisconnected ==
  ASSUME NEW u \in Windows
  PROVE  LET v == Disconnected(u) IN
         /\ v \in Windows /\ v.worker = u.worker /\ ~v.connected /\ v.pending = {}
         /\ v.attach = "attach"
         /\ IF process = "none" THEN Startable(v) ELSE SameButtons(u, v)
<1>1. CASE process = "none"
  BY <1>1 DEF Windows, Disconnected, SetControls, Startable, EngineStates
<1>2. CASE process # "none"
  BY <1>2 DEF Windows, Disconnected, SameButtons
<1> QED
  BY <1>1, <1>2

-----------------------------------------------------------------------------
(***************************************************************************)
(* Types                                                                   *)
(***************************************************************************)
LEMMA SendTyped ==
  ASSUME TypeOK, NEW w \in Workers, NEW op \in Ops, Send(w, op)
  PROVE  WiresOK'
<1>1. ids' \in [Workers -> Nat]
  BY DEF TypeOK, WiresOK, Send
<1>2. [id |-> ids[w] + 1, op |-> op] \in Commands
  BY DEF TypeOK, WiresOK, Commands
<1>3. Append(up[w], [id |-> ids[w] + 1, op |-> op]) \in Seq(Commands)
  BY <1>2 DEF TypeOK, WiresOK
<1> QED
  BY <1>1, <1>3 DEF TypeOK, WiresOK, Send

LEMMA CloseTyped ==
  ASSUME TypeOK, NEW w \in Workers, CloseClient(w)
  PROVE  /\ client' \in [Workers -> {"none", "open", "stopped"}]
         /\ linked' \in [Workers -> BOOLEAN]
         /\ WiresOK'
<1>1. <<>> \in Seq(Commands) /\ <<>> \in Seq(Statuses \cup Replies)
  OBVIOUS
<1> QED
  BY <1>1 DEF TypeOK, ThreadsOK, WiresOK, CloseClient

LEMMA ConnectTyped ==
  ASSUME TypeOK, NEW u \in Windows, NEW w \in Workers, Connect(u, w)
  PROVE  ui' \in Windows /\ ThreadsOK' /\ WiresOK'
<1>1. ui' \in Windows
  BY DEF Connect, Windows
<1>2. ThreadsOK'
  BY DEF TypeOK, ThreadsOK, Connect
<1>3. WiresOK'
  BY DEF TypeOK, WiresOK, Connect, wires
<1> QED
  BY <1>1, <1>2, <1>3

LEMMA DisconnectTyped ==
  ASSUME TypeOK, Disconnect
  PROVE  ui' \in Windows /\ connector' \in BOOLEAN /\ ThreadsOK' /\ WiresOK'
<1>1. ui' \in Windows /\ connector' \in BOOLEAN
  BY WasForgotten DEF TypeOK, Disconnect
<1>2. CASE ui.worker = None
  BY <1>1, <1>2 DEF TypeOK, ThreadsOK, WiresOK, Disconnect, threads, wires
<1>3. CASE ui.worker # None
  <2>1. ui.worker \in Workers
    BY <1>3 DEF TypeOK, Windows
  <2>2. CloseClient(ui.worker) /\ running' = [running EXCEPT ![ui.worker] = FALSE]
        /\ UNCHANGED worker_at
    BY <1>3 DEF Disconnect
  <2>3. running' \in [Workers -> BOOLEAN]
    BY <2>2 DEF TypeOK, ThreadsOK
  <2> QED
    BY <1>1, <2>1, <2>2, <2>3, CloseTyped DEF TypeOK, ThreadsOK
<1> QED
  BY <1>2, <1>3

LEMMA EndsTyped ==
  ASSUME TypeOK, NEW u \in Windows, ProcessEnds(u)
  PROVE  /\ ui' \in Windows /\ process' = "none" /\ connector' \in BOOLEAN /\ engine' \in Engines
         /\ ThreadsOK' /\ WiresOK'
<1>1. ui' \in Windows
  <2>1. [u EXCEPT !.config = FALSE] \in Windows
    BY DEF Windows
  <2> QED
    BY <2>1, ControlsRestored, WasForgotten DEF ProcessEnds
<1>2. <<>> \in Seq(Commands) /\ <<>> \in Seq(Statuses \cup Replies)
  OBVIOUS
<1>3. running' \in [Workers -> BOOLEAN] /\ linked' \in [Workers -> BOOLEAN] /\ UNCHANGED worker_at
  BY DEF TypeOK, ThreadsOK, ProcessEnds
<1>4. client' \in [Workers -> {"none", "open", "stopped"}]
  BY DEF TypeOK, ThreadsOK, ProcessEnds
<1>5. WiresOK'
  BY <1>2 DEF TypeOK, WiresOK, ProcessEnds
<1>6. process' = "none" /\ connector' \in BOOLEAN /\ engine' \in Engines
  BY DEF ProcessEnds, Off, Engines
<1> QED
  BY <1>1, <1>3, <1>4, <1>5, <1>6 DEF TypeOK, ThreadsOK

LEMMA StopTyped ==
  ASSUME TypeOK, NEW u \in Windows, u.worker \in Workers, StopOverConnection(u)
  PROVE  ui' \in Windows /\ WiresOK' /\ UNCHANGED <<process, engine, threads>>
<1>1. [u EXCEPT !.stop = FALSE] \in Windows /\ "stop_capture" \in Ops
  BY DEF Windows, Ops
<1> QED
  BY <1>1, Noted, SendTyped DEF StopOverConnection

LEMMA KillTyped ==
  ASSUME TypeOK, NEW u \in Windows, KillProcess(u), UNCHANGED queue
  PROVE  TypeOK'
<1>1. CASE process = "none"
  BY <1>1, ControlsRestored
     DEF TypeOK, ThreadsOK, WiresOK, KillProcess, threads, wires
<1>2. CASE process # "none"
  BY <1>2, EndsTyped DEF TypeOK, KillProcess
<1> QED
  BY <1>1, <1>2

LEMMA TypeInit ==
  ASSUME Init
  PROVE  TypeOK
<1>1. <<>> \in Seq(Commands) /\ <<>> \in Seq(Statuses \cup Replies) /\ <<>> \in Seq(Signals)
  OBVIOUS
<1>2. ui \in Windows
  BY DEF Init, Windows, EngineStates
<1> QED
  BY <1>1, <1>2 DEF Init, TypeOK, ThreadsOK, WiresOK, Engines, Off

LEMMA UserTyped ==
  ASSUME TypeOK, User
  PROVE  TypeOK'
<1>1. ASSUME StartOverConnection
      PROVE  TypeOK'
  <2>1. ui.worker \in Workers /\ "configure" \in Ops /\ Launched(ui) \in Windows
    BY <1>1, WasLaunched DEF TypeOK, Windows, StartOverConnection, Connected, Ops
  <2>2. ui' \in Windows
    BY <1>1, <2>1, Noted DEF StartOverConnection
  <2>3. WiresOK'
    BY <1>1, <2>1, SendTyped DEF StartOverConnection
  <2> QED
    BY <1>1, <2>2, <2>3 DEF TypeOK, ThreadsOK, StartOverConnection, threads
<1>2. ASSUME StartWithoutConnection
      PROVE  TypeOK'
  <2> DEFINE u == [Launched(ui) EXCEPT !.config = TRUE]
  <2>1. u \in Windows /\ RestoreControls(u) \in Windows
    <3>1. u \in Windows
      BY WasLaunched DEF TypeOK, Windows
    <3> QED
      BY <3>1, ControlsRestored
  <2>2. UNCHANGED <<connector, engine, queue>>
    BY <1>2 DEF StartWithoutConnection
  <2> HIDE DEF u
  <2>3. \/ (\E w \in Workers : Connect(u, w)) /\ UNCHANGED process
        \/ process' = "starting" /\ ui' = u /\ UNCHANGED <<threads, wires>>
        \/ ui' = RestoreControls(u) /\ UNCHANGED <<process, threads, wires>>
    BY <1>2 DEF StartWithoutConnection, u
  <2>4. ui' \in Windows /\ ThreadsOK' /\ WiresOK'
    BY <2>1, <2>3, ConnectTyped DEF TypeOK, ThreadsOK, WiresOK, threads, wires
  <2> QED
    BY <2>2, <2>3, <2>4 DEF TypeOK
<1>3. ASSUME ClickStop
      PROVE  TypeOK'
  <2>1. CASE Connected
    <3>1. ui.worker \in Workers /\ StopOverConnection(ui) /\ UNCHANGED <<connector, queue>>
      BY <1>3, <2>1 DEF TypeOK, Windows, Connected, ClickStop
    <3> QED
      BY <3>1, StopTyped DEF TypeOK, ThreadsOK, threads
  <2>2. CASE ~Connected
    BY <1>3, <2>2, KillTyped DEF ClickStop, TypeOK
  <2> QED
    BY <2>1, <2>2
<1>4. ASSUME ClickAttach
      PROVE  TypeOK'
  BY <1>4, ConnectTyped DEF ClickAttach, TypeOK
<1>5. ASSUME Detach
      PROVE  TypeOK'
  BY <1>5, DisconnectTyped DEF Detach, TypeOK
<1> QED
  BY <1>1, <1>2, <1>3, <1>4, <1>5 DEF User

LEMMA ProcessTyped ==
  ASSUME TypeOK, Process
  PROVE  TypeOK'
<1>1. ASSUME ProcessStarted
      PROVE  TypeOK'
  BY <1>1 DEF ProcessStarted, TypeOK, ThreadsOK, WiresOK, threads, wires
<1>2. ASSUME ProcessStopped
      PROVE  TypeOK'
  BY <1>2, EndsTyped DEF ProcessStopped, TypeOK
<1>3. ASSUME SocketReady
      PROVE  TypeOK'
  BY <1>3, ConnectTyped DEF SocketReady, TypeOK
<1>4. ASSUME SocketFailed
      PROVE  TypeOK'
  <2> DEFINE u == [ui EXCEPT !.config = FALSE]
  <2>1. u \in Windows /\ u.worker = ui.worker
    BY DEF TypeOK, Windows
  <2> HIDE DEF u
  <2>2. CASE Connected
    <3>1. /\ RestoreControls(u) \in Windows /\ RestoreControls(u).worker \in Workers
      BY <2>1, <2>2, ControlsRestored DEF TypeOK, Windows, Connected, Same
    <3>2. StopOverConnection(RestoreControls(u)) /\ connector' = FALSE /\ UNCHANGED queue
      BY <1>4, <2>2 DEF SocketFailed, u
    <3> QED
      BY <3>1, <3>2, StopTyped DEF TypeOK, ThreadsOK, threads
  <2>3. CASE ~Connected
    BY <1>4, <2>1, <2>3, KillTyped DEF SocketFailed, u
  <2> QED
    BY <2>2, <2>3
<1>5. ASSUME EngineListens
      PROVE  TypeOK'
  BY <1>5 DEF EngineListens, TypeOK, ThreadsOK, WiresOK, Engines, threads, wires
<1> QED
  BY <1>1, <1>2, <1>3, <1>4, <1>5 DEF Process

LEMMA WorkerTyped ==
  ASSUME TypeOK, NEW w \in Workers, Worker(w) \/ LinkLost(w)
  PROVE  TypeOK'
<1>1. /\ Signal(w, "connecting") \in Signals
      /\ Signal(w, "connected") \in Signals
  BY DEF Signal, Signals, Notices
<1>2. ASSUME BeginRun(w)
      PROVE  TypeOK'
  <2>1. queue' \in Seq(Signals)
    BY <1>1, <1>2, PostedOne DEF TypeOK, BeginRun, Post
  <2> QED
    BY <1>2, <2>1 DEF BeginRun, Goto, Outside, TypeOK, ThreadsOK, WiresOK, wires
<1>3. ASSUME StartSync(w)
      PROVE  TypeOK'
  <2>1. queue' \in Seq(Signals)
    BY <1>1, <1>3, PostedOne DEF TypeOK, StartSync, Post
  <2> QED
    BY <1>3, <2>1 DEF StartSync, Goto, Outside, TypeOK, ThreadsOK, WiresOK, wires
<1>4. ASSUME StartSyncFails(w)
      PROVE  TypeOK'
  <2>1. queue' \in Seq(Signals)
    BY <1>4, PostedEnd DEF TypeOK, StartSyncFails, Post
  <2> QED
    BY <1>4, <2>1 DEF StartSyncFails, Goto, Outside, TypeOK, ThreadsOK, WiresOK, wires
<1>5. ASSUME LoopEnds(w)
      PROVE  TypeOK'
  BY <1>5 DEF LoopEnds, Goto, Outside, TypeOK, ThreadsOK, WiresOK, wires
<1>6. ASSUME Cleanup(w)
      PROVE  TypeOK'
  <2>1. queue' \in Seq(Signals)
    BY <1>6, PostedEnd DEF TypeOK, Cleanup, Post
  <2>2. CloseClient(w)
    BY <1>6 DEF Cleanup
  <2> QED
    BY <1>6, <2>1, <2>2, CloseTyped DEF Cleanup, Goto, Outside, TypeOK, ThreadsOK
<1>7. ASSUME Deliver(w)
      PROVE  TypeOK'
  <2>1. down[w] \in Seq(Statuses \cup Replies) /\ down[w] # <<>>
    BY <1>7 DEF Deliver, TypeOK, WiresOK
  <2>2. Head(down[w]) \in Signals /\ Tail(down[w]) \in Seq(Statuses \cup Replies)
    BY <2>1, Popped DEF Signals
  <2>3. queue' \in Seq(Signals)
    BY <1>7, <2>2, PostedOne DEF TypeOK, Deliver, Post
  <2> QED
    BY <1>7, <2>2, <2>3 DEF Deliver, Outside, TypeOK, ThreadsOK, WiresOK, threads
<1>8. ASSUME LinkLost(w)
      PROVE  TypeOK'
  BY <1>8 DEF LinkLost, Outside, TypeOK, ThreadsOK, WiresOK, wires
<1> QED
  BY <1>2, <1>3, <1>4, <1>5, <1>6, <1>7, <1>8 DEF Worker

LEMMA AfterTyped ==
  ASSUME NEW e \in Engines, NEW op \in Ops
  PROVE  After(e, op) \in Engines /\ After(e, op).up = e.up
         /\ [After(e, op) EXCEPT !.shared = TRUE] \in Engines
  BY DEF After, Engines, Ops

LEMMA HandleTyped ==
  ASSUME TypeOK, NEW w \in Workers, Handle(w)
  PROVE  TypeOK'
<1>1. up[w] \in Seq(Commands) /\ up[w] # <<>>
  BY DEF Handle, TypeOK, WiresOK
<1>2. Head(up[w]) \in Commands /\ Tail(up[w]) \in Seq(Commands)
  BY <1>1, Popped
<1>3. PICK c \in Commands : c = Head(up[w])
  BY <1>2
<1>4. c.op \in Ops /\ c.id \in Nat
  BY DEF Commands
<1>5. PICK ok \in Accepts(engine, c.op) :
        LET e == IF ok THEN After(engine, c.op) ELSE engine
            result == [kind |-> "result", via |-> w, id |-> c.id, op |-> c.op, ok |-> ok,
                       state |-> StateName(e.capturing)]
        IN  /\ engine' = e
            /\ down' = [v \in Workers |->
                  IF ~linked[v] THEN down[v]
                  ELSE down[v] \o (IF v = w THEN <<result>> ELSE <<>>)
                               \o (IF Announced(c.op, ok) THEN <<Status(v, e)>> ELSE <<>>)]
  BY <1>3 DEF Handle
<1>6. ok \in BOOLEAN
  BY <1>4 DEF Accepts, Ops, TypeOK, Engines
<1>7. engine' \in Engines
  BY <1>4, <1>5, AfterTyped DEF TypeOK
<1>8. StateName(engine'.capturing) \in EngineStates
  BY DEF StateName, EngineStates
<1>9. PICK result \in Replies :
        result = [kind |-> "result", via |-> w, id |-> c.id, op |-> c.op, ok |-> ok,
                  state |-> StateName(engine'.capturing)]
  BY <1>4, <1>6, <1>8 DEF Replies
<1>10. \A v \in Workers : Status(v, engine') \in Statuses
  BY <1>8 DEF Status, Statuses
<1>11. down' = [v \in Workers |->
                  IF ~linked[v] THEN down[v]
                  ELSE down[v] \o (IF v = w THEN <<result>> ELSE <<>>)
                               \o (IF Announced(c.op, ok) THEN <<Status(v, engine')>> ELSE <<>>)]
  BY <1>5, <1>9, Zenon
<1>12. ASSUME NEW v \in Workers
       PROVE  down[v] \o (IF v = w THEN <<result>> ELSE <<>>)
                      \o (IF Announced(c.op, ok) THEN <<Status(v, engine')>> ELSE <<>>)
                \in Seq(Statuses \cup Replies)
  <2>1. PICK one \in Seq(Statuses \cup Replies) : one = (IF v = w THEN <<result>> ELSE <<>>)
    <3>1. <<result>> \in Seq(Statuses \cup Replies) /\ <<>> \in Seq(Statuses \cup Replies)
      OBVIOUS
    <3> QED
      BY <3>1
  <2>2. PICK two \in Seq(Statuses \cup Replies) :
            two = (IF Announced(c.op, ok) THEN <<Status(v, engine')>> ELSE <<>>)
    <3>1. <<Status(v, engine')>> \in Seq(Statuses \cup Replies)
      BY <1>10
    <3>2. <<>> \in Seq(Statuses \cup Replies)
      OBVIOUS
    <3> QED
      BY <3>1, <3>2
  <2>3. down[v] \in Seq(Statuses \cup Replies)
    BY DEF TypeOK, WiresOK
  <2>4. (down[v] \o one) \o two \in Seq(Statuses \cup Replies)
    BY <2>3
  <2> QED
    BY <2>1, <2>2, <2>4, Zenon
<1>13. down' \in [Workers -> Seq(Statuses \cup Replies)]
  BY <1>11, <1>12 DEF TypeOK, WiresOK
<1> QED
  BY <1>2, <1>7, <1>13 DEF Handle, TypeOK, ThreadsOK, WiresOK, threads

LEMMA OthersTyped ==
  ASSUME TypeOK, OthersCommand
  PROVE  TypeOK'
<1>1. PICK op \in {"configure", "start_capture", "stop_capture"} :
          /\ engine' = [After(engine, op) EXCEPT !.shared = TRUE]
          /\ down' = [w \in Workers |->
                IF linked[w] THEN Append(down[w], Status(w, After(engine, op))) ELSE down[w]]
  BY DEF OthersCommand
<1>2. op \in Ops /\ engine' \in Engines
  BY <1>1, AfterTyped DEF Ops, TypeOK
<1>3. \A w \in Workers : Status(w, After(engine, op)) \in Statuses \cup Replies
  BY DEF Status, Statuses, StateName, EngineStates
<1>4. down' \in [Workers -> Seq(Statuses \cup Replies)]
  BY <1>1, <1>3 DEF TypeOK, WiresOK
<1> QED
  BY <1>2, <1>4 DEF OthersCommand, TypeOK, ThreadsOK, WiresOK, threads

LEMMA SlotResult ==
  ASSUME TypeOK, OnResult
  PROVE  \/ /\ ui.worker # None
            /\ \E u \in Windows :
                  /\ u.worker = ui.worker /\ u.connected = ui.connected /\ u.attach = ui.attach
                  /\ u.pending = ui.pending \ Answered
                  /\ ui' = Note(u, ui.worker, "start_capture")
            /\ Send(ui.worker, "start_capture")
         \/ /\ ui' \in Windows
            /\ ui'.worker = ui.worker /\ ui'.connected = ui.connected /\ ui'.attach = ui.attach
            /\ ui'.pending = ui.pending \ Answered
            /\ UNCHANGED wires
<1> DEFINE u == [ui EXCEPT !.pending = @ \ Answered]
           v == [u EXCEPT !.starting = FALSE]
           m == Head(queue)
           unlike(x) == /\ x \in Windows
                        /\ x.worker = ui.worker /\ x.connected = ui.connected
                        /\ x.attach = ui.attach /\ x.pending = ui.pending \ Answered
<1>1. unlike(u) /\ unlike(v) /\ u.engine_state \in EngineStates
  BY DEF TypeOK, Windows
<1>2. Intent \in Ops \cup {"none"}
  <2>1. CASE Answered = {}
    BY <2>1 DEF Intent
  <2>2. CASE Answered # {}
    <3>1. (CHOOSE p \in Answered : TRUE) \in ui.pending
      BY <2>2 DEF Answered
    <3> QED
      BY <2>2, <3>1 DEF Intent, TypeOK, Windows
  <2> QED
    BY <2>1, <2>2
<1>3. m.ok \in BOOLEAN /\ m.state \in EngineStates
  <2>1. queue # <<>> /\ m.kind = "result"
    BY DEF OnResult, Posted
  <2>2. m \in Signals
    BY <2>1, TakenOne DEF TypeOK
  <2>3. ASSUME NEW s \in Signals, s.kind = "result"
        PROVE  s.ok \in BOOLEAN /\ s.state \in EngineStates
    BY <2>3 DEF Signals, Notices, Statuses, Replies
  <2> HIDE DEF m
  <2> QED
    BY <2>1, <2>2, <2>3
<1>4. /\ unlike(RestoreControls(u)) /\ unlike(SetControls(v, FALSE))
      /\ \A state \in EngineStates :
            unlike(ApplyEngineState(u, state)) /\ unlike(ApplyEngineState(v, state))
  <2> HIDE DEF u, v
  <2>1. unlike(RestoreControls(u))
    BY <1>1, ControlsRestored DEF Same
  <2>2. unlike(SetControls(v, FALSE))
    BY <1>1, ControlsSet DEF Same
  <2>3. \A x \in Windows : \A state \in EngineStates : unlike(x) => unlike(ApplyEngineState(x, state))
    BY StateApplied DEF Same
  <2> HIDE DEF unlike
  <2>4. u \in Windows /\ v \in Windows
    BY <1>1 DEF unlike
  <2> QED
    BY <1>1, <2>1, <2>2, <2>3, <2>4
<1>5. \/ Intent = "configure" /\ m.ok /\ ui.worker # None
         /\ ui' = Note(u, ui.worker, "start_capture") /\ Send(ui.worker, "start_capture")
      \/ ui' = u /\ UNCHANGED wires
      \/ ui' = RestoreControls(u) /\ UNCHANGED wires
      \/ (ui' = ApplyEngineState(v, "capturing") \/ ui' = SetControls(v, FALSE)) /\ UNCHANGED wires
      \/ (ui' = ApplyEngineState(u, "idle") \/ ui' = ApplyEngineState(u, u.engine_state))
         /\ UNCHANGED wires
      \/ ui' = ApplyEngineState(u, m.state) /\ UNCHANGED wires
  <2> HIDE DEF u
  <2>1. CASE Intent = "configure"
    BY <1>3, <2>1 DEF OnResult, u
  <2>2. CASE Intent = "start_capture"
    BY <2>2 DEF OnResult, u
  <2>3. CASE Intent = "stop_capture"
    BY <2>3 DEF OnResult, u
  <2>4. CASE Intent = "get_status"
    BY <2>4 DEF OnResult, u
  <2>5. CASE Intent = "none"
    BY <2>5 DEF OnResult, u
  <2> QED
    BY <1>2, <2>1, <2>2, <2>3, <2>4, <2>5 DEF Ops
<1> HIDE DEF u, v, m
<1>6. "capturing" \in EngineStates /\ "idle" \in EngineStates
  BY DEF EngineStates
<1> QED
  BY <1>1, <1>3, <1>4, <1>5, <1>6

\* What OnConnected does: one command, if the window has a worker.
LEMMA SlotConnected ==
  ASSUME TypeOK, OnConnected
  PROVE  \E u \in Windows :
            /\ u.worker = ui.worker /\ u.connected /\ u.attach = "detach"
            /\ u.pending = ui.pending
            /\ \/ ui.worker = None /\ ui' = u /\ UNCHANGED wires
               \/ /\ ui.worker # None
                  /\ \E op \in Ops : ui' = Note(u, ui.worker, op) /\ Send(ui.worker, op)
<1> DEFINE wanted == ui.starting /\ ui.config
           op == IF wanted THEN "configure" ELSE "get_status"
           u == [ui EXCEPT !.connected = TRUE, !.attach = "detach", !.config = @ /\ ~wanted]
<1>1. /\ u \in Windows /\ u.worker = ui.worker /\ u.connected /\ u.attach = "detach"
      /\ u.pending = ui.pending /\ op \in Ops
  BY DEF TypeOK, Windows, Ops
<1>2. IF ui.worker = None THEN ui' = u /\ UNCHANGED wires
      ELSE ui' = Note(u, ui.worker, op) /\ Send(ui.worker, op)
  BY DEF OnConnected
<1> HIDE DEF u, op
<1> QED
  BY <1>1, <1>2

LEMMA TakenTyped ==
  ASSUME TypeOK, queue # <<>>, Taken, ui' \in Windows, WiresOK'
  PROVE  TypeOK'
  BY TakenOne DEF TypeOK, Taken, ThreadsOK, threads

LEMMA SlotTyped ==
  ASSUME TypeOK, Slot
  PROVE  TypeOK'
<1>1. UNCHANGED wires => WiresOK'
  BY DEF TypeOK, WiresOK, wires
<1>2. queue # <<>> /\ Taken
  BY DEF Slot, OnConnecting, OnConnected, OnDisconnected, OnWorkerFinished, OnStatus, OnResult,
         Posted
<1>3. ASSUME ui' \in Windows,
             UNCHANGED wires \/ (ui.worker # None /\ \E op \in Ops : Send(ui.worker, op))
      PROVE  TypeOK'
  <2>1. WiresOK'
    BY <1>1, <1>3, SendTyped DEF TypeOK, Windows
  <2> QED
    BY <1>2, <1>3, <2>1, TakenTyped
<1>4. CASE OnConnecting
  <2>1. ui' \in Windows /\ UNCHANGED wires
    BY <1>4 DEF OnConnecting, TypeOK, Windows
  <2> QED
    BY <2>1, <1>3
<1>5. CASE OnConnected
  <2>1. PICK u \in Windows :
            \/ ui' = u /\ UNCHANGED wires
            \/ /\ ui.worker # None
               /\ \E op \in Ops : ui' = Note(u, ui.worker, op) /\ Send(ui.worker, op)
    BY <1>5, SlotConnected
  <2>2. ui.worker # None => ui.worker \in Workers
    BY DEF TypeOK, Windows
  <2> QED
    BY <2>1, <2>2, <1>3, Noted
<1>6. CASE OnDisconnected
  BY <1>3, <1>6, WasDisconnected DEF OnDisconnected, TypeOK
<1>7. CASE OnWorkerFinished
  <2>1. Disconnected(ui) \in Windows
    BY WasDisconnected DEF TypeOK
  <2>2. [Disconnected(ui) EXCEPT !.worker = None] \in Windows
    BY <2>1 DEF Windows
  <2> QED
    BY <1>3, <1>7, <2>2 DEF OnWorkerFinished
<1>8. CASE OnStatus
  <2>1. Head(queue) \in Signals /\ Head(queue).kind = "status"
    BY <1>2, <1>8, TakenOne DEF OnStatus, Posted, TypeOK
  <2>2. ASSUME NEW s \in Signals, s.kind = "status"
        PROVE  s.state \in EngineStates
    BY <2>2 DEF Signals, Notices, Statuses, Replies
  <2>3. ApplyEngineState(ui, Head(queue).state) \in Windows
    BY <2>1, <2>2, StateApplied DEF TypeOK
  <2> QED
    BY <1>3, <1>8, <2>3 DEF OnStatus, TypeOK
<1>9. CASE OnResult
  <2>1. ui.worker # None => ui.worker \in Workers
    BY DEF TypeOK, Windows
  <2>2. "start_capture" \in Ops
    BY DEF Ops
  <2> QED
    BY <1>3, <1>9, <2>1, <2>2, SlotResult, Noted
<1> QED
  BY <1>4, <1>5, <1>6, <1>7, <1>8, <1>9 DEF Slot

LEMMA TypeStep ==
  ASSUME TypeOK, [Next]_vars
  PROVE  TypeOK'
<1>1. CASE UNCHANGED vars
  BY <1>1 DEF vars, threads, wires, TypeOK, ThreadsOK, WiresOK
<1>2. CASE Next
  BY <1>2, UserTyped, ProcessTyped, SlotTyped, OthersTyped, WorkerTyped, HandleTyped DEF Next
<1> QED
  BY <1>1, <1>2

\* Every variable of the viewer keeps its type: the window's fields, the
\* workers' threads, the lines under way and the signals in the queue.
THEOREM TypeCorrect == Spec => []TypeOK
<1>1. Init => TypeOK
  BY TypeInit
<1>2. TypeOK /\ [Next]_vars => TypeOK'
  BY TypeStep
<1> QED
  BY <1>1, <1>2, PTL DEF Spec

-----------------------------------------------------------------------------
(***************************************************************************)
(* The window alone: steps that leave the workers, the lines and the       *)
(* signals as they are                                                     *)
(***************************************************************************)
LEMMA Basics ==
  ASSUME TypeOK
  PROVE  /\ queue = <<>> <=> Range(queue) = {}
         /\ \A w \in Workers : w # None /\ (Alive(w) <=> worker_at[w] \notin {"none", "done"})
         /\ \A w \in Workers : down[w] = <<>> => Range(down[w]) = {}
         /\ ui.worker # None => ui.worker \in Workers
<1>1. queue = <<>> <=> Range(queue) = {}
  BY NoneInEmpty, TakenOne DEF TypeOK
<1>2. \A w \in Workers : w # None
  BY DEF Workers, None
<1> QED
  BY <1>1, <1>2, NoneInEmpty DEF Alive, TypeOK, Windows

LEMMA InvInit ==
  ASSUME Init
  PROVE  ViewerInv
<1>1. TypeOK
  BY TypeInit
<1>2. Range(queue) = {} /\ queue = <<>> /\ \A w \in Workers : ~Alive(w) /\ Range(down[w]) = {}
  BY NoneInEmpty DEF Init, Alive
<1>3. OneConnection /\ Wiring /\ Forgotten /\ Pending
  BY <1>1, <1>2, Basics
     DEF Init, Off, OneConnection, Wiring, Forgotten, Pending, PendingIsAnswered, None
<1>4. SignalOrder /\ Shown
  BY <1>2 DEF Init, SignalOrder, ConnectingFirst, EndsLast, Shown, Nobody, Waiting, Startable, None
<1> QED
  BY <1>3, <1>4 DEF ViewerInv

LEMMA ButtonsOnly ==
  ASSUME TypeOK, ViewerInv, Same(ui, ui'), connector' => connector,
         UNCHANGED <<process, engine, threads, wires, queue>>,
         Nobody /\ ~Waiting("disconnected") /\ process = "none" => Startable(ui')
  PROVE  ViewerInv'
<1> USE DEF threads, wires, Same, Nobody, Alive, Waiting
<1>1. OneConnection'
  BY DEF ViewerInv, OneConnection
<1>2. Wiring'
  BY DEF ViewerInv, Wiring
<1>3. Forgotten'
  BY DEF ViewerInv, Forgotten
<1>4. SignalOrder'
  BY DEF ViewerInv, SignalOrder
<1>5. Shown'
  BY DEF ViewerInv, Shown
<1>6. Pending'
  BY DEF ViewerInv, Pending, PendingIsAnswered, Answers
<1> QED
  BY <1>1, <1>2, <1>3, <1>4, <1>5, <1>6 DEF ViewerInv

\* A command that has just been sent over the window's connection is on its
\* way, unless the connection is ending.
LEMMA NotedIsAnswered ==
  ASSUME TypeOK, Pending, Wiring, NEW u \in Windows, u.worker = ui.worker, ui.worker \in Workers,
         u.pending \subseteq ui.pending, NEW op \in Ops,
         ui' = Note(u, ui.worker, op), Send(ui.worker, op), UNCHANGED threads,
         \A p \in u.pending : \A s \in Range(queue) :
            s.via = p.via /\ (Answers(s, p.id) \/ s.kind = "disconnected") => s \in Range(queue'),
         \/ worker_at[ui.worker] # "done"
         \/ \E s \in Range(queue') : s.via = ui.worker /\ s.kind = "disconnected"
  PROVE  Pending'
<1>1. /\ ui'.worker = ui.worker
      /\ ui'.pending = {p \in u.pending : p.id # ids[ui.worker] + 1} \cup {Entry(ui.worker, op)}
  BY Noted
<1>2. Entry(ui.worker, op).via = ui.worker /\ Entry(ui.worker, op).id = ids[ui.worker] + 1
  BY DEF Entry
<1>3. \A p \in ui'.pending : p.via = ui'.worker
  BY <1>1, <1>2 DEF Pending
<1>4. PICK c : c = [id |-> ids[ui.worker] + 1, op |-> op]
  OBVIOUS
<1>5. c \in Commands /\ c.id = ids[ui.worker] + 1
  BY <1>4 DEF TypeOK, WiresOK, Commands
<1>6. \A w \in Workers : Range(up[w]) \subseteq Range(up'[w])
  <2>1. up[ui.worker] \in Seq(Commands)
    BY DEF TypeOK, WiresOK
  <2>2. Range(Append(up[ui.worker], c)) = Range(up[ui.worker]) \cup {c}
    BY <1>5, <2>1, Appended
  <2>3. up' = up \/ up' = [up EXCEPT ![ui.worker] = Append(@, c)]
    BY <1>4 DEF Send
  <2> QED
    BY <2>2, <2>3 DEF TypeOK, WiresOK
<1>7. running[ui.worker] /\ linked[ui.worker] => c \in Range(up'[ui.worker])
  <2> SUFFICES ASSUME running[ui.worker], linked[ui.worker]
               PROVE  c \in Range(up'[ui.worker])
    OBVIOUS
  <2>1. client[ui.worker] = "open"
    BY DEF Wiring
  <2>2. up' = [up EXCEPT ![ui.worker] = Append(@, c)]
    BY <1>4, <2>1 DEF Send
  <2>3. up[ui.worker] \in Seq(Commands) /\ up'[ui.worker] = Append(up[ui.worker], c)
    BY <2>2 DEF TypeOK, WiresOK
  <2> QED
    BY <1>5, <2>3, Appended
<1>8. ASSUME NEW p \in u.pending
      PROVE  \/ \E d \in Range(up'[p.via]) : d.id = p.id
             \/ \E m \in Range(down'[p.via]) : Answers(m, p.id)
             \/ \E s \in Range(queue') : s.via = p.via /\ Answers(s, p.id)
             \/ worker_at'[p.via] # "done" /\ (~running'[p.via] \/ ~linked'[p.via])
             \/ \E s \in Range(queue') : s.via = p.via /\ s.kind = "disconnected"
  <2>1. p.via \in Workers
    BY DEF Windows
  <2>2. p \in ui.pending /\ down' = down
    BY DEF Send
  <2> QED
    BY <1>6, <2>1, <2>2 DEF Pending, PendingIsAnswered, threads
<1>9. PendingIsAnswered'
  <2> SUFFICES ASSUME NEW p \in ui'.pending
               PROVE  \/ \E d \in Range(up'[p.via]) : d.id = p.id
                      \/ \E m \in Range(down'[p.via]) : Answers(m, p.id)
                      \/ \E s \in Range(queue') : s.via = p.via /\ Answers(s, p.id)
                      \/ worker_at'[p.via] # "done" /\ (~running'[p.via] \/ ~linked'[p.via])
                      \/ \E s \in Range(queue') : s.via = p.via /\ s.kind = "disconnected"
    BY DEF PendingIsAnswered, Answers
  <2>1. CASE p = Entry(ui.worker, op)
    BY <1>2, <1>5, <1>7, <2>1 DEF threads
  <2>2. CASE p # Entry(ui.worker, op)
    BY <1>1, <1>8, <2>2
  <2> QED
    BY <2>1, <2>2
<1> QED
  BY <1>3, <1>9 DEF Pending

LEMMA Commanding ==
  ASSUME TypeOK, ViewerInv, Connected, NEW u \in Windows, Same(ui, u), NEW op \in Ops,
         ui' = Note(u, ui.worker, op), Send(ui.worker, op), connector' => connector,
         UNCHANGED <<process, engine, threads, queue>>
  PROVE  ViewerInv'
<1> USE DEF threads, Same, Nobody, Alive, Waiting
<1>1. ui.worker \in Workers /\ ui.connected /\ ui.worker # None
  BY DEF Connected, TypeOK, Windows
<1>2. ui'.worker = ui.worker /\ ui'.connected = ui.connected /\ ui'.attach = ui.attach
  BY <1>1, Noted
<1>3. down' = down
  BY DEF Send
<1>4. OneConnection'
  BY <1>2 DEF ViewerInv, OneConnection
<1>5. Wiring'
  BY <1>3 DEF ViewerInv, Wiring
<1>6. Forgotten'
  BY <1>2 DEF ViewerInv, Forgotten
<1>7. SignalOrder'
  BY <1>3 DEF ViewerInv, SignalOrder
<1>8. Shown'
  BY <1>1, <1>2 DEF ViewerInv, Shown
<1>9. Pending'
  <2>1. ASSUME worker_at[ui.worker] = "done"
        PROVE  \E s \in Range(queue') : s.via = ui.worker /\ s.kind = "disconnected"
    <3>1. Nobody
      BY <1>1, <2>1 DEF ViewerInv, OneConnection
    <3>2. Waiting("disconnected")
      BY <1>1, <3>1 DEF ViewerInv, Shown
    <3> QED
      BY <1>1, <3>2 DEF ViewerInv, OneConnection
  <2>2. Pending /\ Wiring
    BY DEF ViewerInv
  <2> QED
    BY <1>1, <2>1, <2>2, NotedIsAnswered
<1> QED
  BY <1>4, <1>5, <1>6, <1>7, <1>8, <1>9 DEF ViewerInv

LEMMA Connecting ==
  ASSUME TypeOK, ViewerInv, Nobody, queue = <<>>, NEW u \in Windows, Same(ui, u),
         NEW w \in Workers, Connect(u, w), ~connector', process # "starting",
         UNCHANGED <<process, engine, queue>>
  PROVE  ViewerInv'
<1> USE DEF Nobody, Alive, Waiting, None
<1>1. Range(queue) = {} /\ \A v \in Workers : v # None
  BY Basics
<1>2. ui.worker = None /\ ~ui.connected /\ ui.pending = {} /\ ui.attach = "attach"
  BY <1>1 DEF ViewerInv, Shown
<1>3. ui'.worker = w /\ ~ui'.connected /\ ui'.pending = {} /\ ui'.attach = "attach"
  BY <1>2 DEF Connect, Windows, Same
<1>4. /\ worker_at[w] = "none" /\ worker_at' = [worker_at EXCEPT ![w] = "new"]
      /\ UNCHANGED <<running, client, linked, ids, up, down>>
  BY DEF Connect, Fresh, wires
<1>5. \A v \in Workers : v # w => worker_at'[v] = worker_at[v] /\ worker_at[v] \in {"none", "done"}
  BY <1>4 DEF TypeOK, ThreadsOK
<1>6. worker_at'[w] = "new"
  BY <1>4 DEF TypeOK, ThreadsOK
<1>7. OneConnection'
  BY <1>1, <1>3, <1>5, <1>6 DEF OneConnection
<1>8. Wiring'
  BY <1>4, <1>5, <1>6 DEF ViewerInv, Wiring
<1>9. Forgotten'
  BY <1>3, <1>5, <1>6 DEF Forgotten
<1>10. SignalOrder'
  BY <1>1, <1>4, <1>5, <1>6 DEF ViewerInv, SignalOrder
<1>11. Shown'
  BY <1>1, <1>3, <1>5, <1>6 DEF Shown
<1>12. Pending'
  BY <1>3 DEF Pending, PendingIsAnswered
<1> QED
  BY <1>7, <1>8, <1>9, <1>10, <1>11, <1>12 DEF ViewerInv

LEMMA Ending ==
  ASSUME TypeOK, ViewerInv, NEW u \in Windows, Same(ui, u), ProcessEnds(u), UNCHANGED queue
  PROVE  ViewerInv'
<1> USE DEF Nobody, Alive, Waiting
<1>1. /\ ui'.worker = None /\ ~ui'.connected /\ ui'.pending = {}
      /\ ui'.attach = ui.attach /\ Startable(ui')
  <2>1. [u EXCEPT !.config = FALSE] \in Windows /\ Same(u, [u EXCEPT !.config = FALSE])
    BY DEF Windows, Same
  <2>2. PICK v \in Windows : v = RestoreControls([u EXCEPT !.config = FALSE])
    BY <2>1, ControlsRestored
  <2>3. Same(ui, v) /\ Startable(v)
    BY <2>1, <2>2, ControlsRestored DEF Same
  <2> QED
    BY <2>2, <2>3, WasForgotten DEF ProcessEnds, Same, SameButtons, Startable
<1>2. process' = "none" /\ ~connector' /\ ~engine'.up /\ UNCHANGED worker_at
  BY DEF ProcessEnds, Off
<1>3. \A w \in Workers :
        /\ running'[w] = (running[w] /\ w # ui.worker)
        /\ ~linked'[w]
        /\ client'[w] = IF w = ui.worker /\ client[w] = "open" THEN "stopped" ELSE client[w]
        /\ down'[w] = IF w = ui.worker THEN <<>> ELSE down[w]
  BY DEF ProcessEnds, Same, TypeOK, ThreadsOK, WiresOK
<1>4. OneConnection'
  BY <1>1, <1>2 DEF ViewerInv, OneConnection
<1>5. Wiring'
  <2>1. ASSUME NEW w \in Workers
        PROVE  /\ client'[w] = "none" <=> worker_at[w] \in {"none", "new"}
               /\ client'[w] = "open" => client[w] = "open"
               /\ down'[w] # <<>> => down'[w] = down[w] /\ client'[w] = client[w]
               /\ \A m \in Range(down'[w]) : m.via = w
    BY <1>3, NoneInEmpty DEF ViewerInv, Wiring
  <2> QED
    BY <1>2, <1>3, <2>1 DEF ViewerInv, Wiring
<1>6. Forgotten'
  BY <1>2, <1>3 DEF ViewerInv, Forgotten
<1>7. SignalOrder'
  BY <1>2, <1>3 DEF ViewerInv, SignalOrder
<1>8. Shown'
  BY <1>1, <1>2 DEF ViewerInv, Shown, None, Workers
<1>9. Pending'
  BY <1>1 DEF Pending, PendingIsAnswered
<1> QED
  BY <1>4, <1>5, <1>6, <1>7, <1>8, <1>9 DEF ViewerInv

LEMMA Detaching ==
  ASSUME Patient, TypeOK, ViewerInv, Detach
  PROVE  ViewerInv'
<1> USE DEF Nobody, Alive, Waiting
<1>1. ui.worker \in Workers /\ ui.worker # None /\ worker_at[ui.worker] \notin {"none", "done"}
  BY DEF Detach, TypeOK, Windows
<1>2. /\ UNCHANGED <<process, engine, queue, worker_at>> /\ ~connector'
      /\ running' = [running EXCEPT ![ui.worker] = FALSE] /\ CloseClient(ui.worker)
  BY <1>1 DEF Detach, Disconnect
<1>3. ui'.worker = None /\ ~ui'.connected /\ ui'.pending = {} /\ ui'.attach = ui.attach
  BY WasForgotten DEF Detach, Disconnect, TypeOK
<1>4. \A w \in Workers :
        /\ running'[w] = (running[w] /\ w # ui.worker)
        /\ linked'[w] = (linked[w] /\ w # ui.worker)
        /\ client'[w] = IF w = ui.worker /\ client[w] = "open" THEN "stopped" ELSE client[w]
        /\ down'[w] = IF w = ui.worker THEN <<>> ELSE down[w]
  BY <1>1, <1>2 DEF CloseClient, TypeOK, ThreadsOK, WiresOK
<1>5. OneConnection'
  BY <1>2, <1>3 DEF ViewerInv, OneConnection
<1>6. Wiring'
  <2>1. ASSUME NEW w \in Workers
        PROVE  /\ client'[w] = "none" <=> worker_at[w] \in {"none", "new"}
               /\ client'[w] = "open" => client[w] = "open"
               /\ linked'[w] \/ down'[w] # <<>> =>
                    (linked[w] \/ down[w] # <<>>) /\ client'[w] = client[w]
               /\ linked'[w] => linked[w]
               /\ \A m \in Range(down'[w]) : m.via = w
    BY <1>4, NoneInEmpty DEF ViewerInv, Wiring
  <2> QED
    BY <1>2, <2>1 DEF ViewerInv, Wiring
<1>7. Forgotten'
  BY <1>1, <1>2, <1>4 DEF ViewerInv, OneConnection, Shown, Detach, Forgotten
<1>8. SignalOrder'
  BY <1>2, <1>4 DEF ViewerInv, SignalOrder
<1>9. Shown'
  BY <1>1, <1>2, <1>3 DEF ViewerInv, Shown, None, Workers
<1>10. Pending'
  BY <1>3 DEF Pending, PendingIsAnswered
<1> QED
  BY <1>5, <1>6, <1>7, <1>8, <1>9, <1>10 DEF ViewerInv

\* The process has been asked for, or runs from now on: nothing is connected.
LEMMA Launching ==
  ASSUME TypeOK, ViewerInv, Nobody, queue = <<>>, Same(ui, ui'), process' \in {"starting", "running"},
         engine.up => process' = "running", connector' => process' = "running",
         UNCHANGED <<engine, threads, wires, queue>>
  PROVE  ViewerInv'
<1> USE DEF threads, wires, Same, Nobody, Alive, Waiting
<1>1. OneConnection'
  BY DEF ViewerInv, OneConnection
<1>2. Wiring'
  BY DEF ViewerInv, Wiring
<1>3. Forgotten'
  BY Basics DEF ViewerInv, Forgotten
<1>4. SignalOrder'
  BY DEF ViewerInv, SignalOrder
<1>5. Shown'
  BY DEF ViewerInv, Shown
<1>6. Pending'
  BY DEF ViewerInv, Pending, PendingIsAnswered, Answers
<1> QED
  BY <1>1, <1>2, <1>3, <1>4, <1>5, <1>6 DEF ViewerInv

LEMMA Killing ==
  ASSUME TypeOK, ViewerInv, NEW u \in Windows, Same(ui, u), KillProcess(u), UNCHANGED queue
  PROVE  ViewerInv'
<1>1. CASE process = "none"
  <2>1. Same(u, ui') /\ Startable(ui')
    BY <1>1, ControlsRestored DEF KillProcess
  <2> QED
    BY <1>1, <2>1, ButtonsOnly DEF KillProcess, Same
<1>2. CASE process # "none"
  BY <1>2, Ending DEF KillProcess
<1> QED
  BY <1>1, <1>2

LEMMA Stopping ==
  ASSUME TypeOK, ViewerInv, Connected, NEW u \in Windows, Same(ui, u), StopOverConnection(u),
         connector' => connector, UNCHANGED queue
  PROVE  ViewerInv'
<1>1. PICK v \in Windows : v = [u EXCEPT !.stop = FALSE] /\ Same(ui, v)
  <2>1. [u EXCEPT !.stop = FALSE] \in Windows /\ Same(ui, [u EXCEPT !.stop = FALSE])
    BY DEF Windows, Same
  <2> QED
    BY <2>1
<1>2. u.worker = ui.worker
  BY DEF Same
<1>3. "stop_capture" \in Ops
  BY DEF Ops
<1>4. /\ ui' = Note(v, ui.worker, "stop_capture") /\ Send(ui.worker, "stop_capture")
      /\ UNCHANGED <<process, engine, threads>>
  BY <1>1, <1>2 DEF StopOverConnection
<1> QED
  BY <1>1, <1>3, <1>4, Commanding

LEMMA UserSteps ==
  ASSUME Patient, TypeOK, ViewerInv, User
  PROVE  ViewerInv'
<1>1. CASE StartOverConnection
  <2>1. Launched(ui) \in Windows /\ Same(ui, Launched(ui)) /\ "configure" \in Ops
    BY WasLaunched DEF TypeOK, Ops
  <2>2. UNCHANGED <<process, engine, threads, queue>> /\ Connected /\ connector' = connector
    BY <1>1 DEF StartOverConnection
  <2> QED
    BY <1>1, <2>1, <2>2, Commanding DEF StartOverConnection
<1>2. CASE StartWithoutConnection
  <2>1. PICK u \in Windows : u = [Launched(ui) EXCEPT !.config = TRUE] /\ Same(ui, u)
    <3>1. PICK v \in Windows : v = Launched(ui) /\ Same(ui, v)
      BY WasLaunched DEF TypeOK
    <3>2. [v EXCEPT !.config = TRUE] \in Windows /\ Same(ui, [v EXCEPT !.config = TRUE])
      BY <3>1 DEF Windows, Same
    <3> QED
      BY <3>1, <3>2
  <2>2. Settled /\ UNCHANGED <<connector, engine, queue>>
    BY <1>2 DEF StartWithoutConnection
  <2>3. Nobody /\ queue = <<>> /\ ~connector /\ process # "starting"
    BY <2>2 DEF Settled, Nobody
  <2>4. ASSUME \E w \in Workers : Connect(u, w), UNCHANGED process
        PROVE  ViewerInv'
    BY <2>1, <2>2, <2>3, <2>4, Connecting
  <2>5. ASSUME process = "none", process' = "starting", ui' = u, UNCHANGED <<threads, wires>>
        PROVE  ViewerInv'
    <3>1. ~engine.up
      BY <2>5 DEF ViewerInv, Wiring
    <3> QED
      BY <2>1, <2>2, <2>3, <2>5, <3>1, Launching
  <2>6. ASSUME ui' = RestoreControls(u), UNCHANGED <<process, threads, wires>>
        PROVE  ViewerInv'
    <3>1. Same(u, ui') /\ Startable(ui')
      BY <2>1, <2>6, ControlsRestored
    <3> QED
      BY <2>1, <2>2, <2>6, <3>1, ButtonsOnly DEF Same
  <2> QED
    BY <1>2, <2>1, <2>4, <2>5, <2>6 DEF StartWithoutConnection
<1>3. CASE ClickStop
  <2>1. ui \in Windows /\ Same(ui, ui)
    BY DEF TypeOK, Same
  <2>2. CASE Connected
    BY <1>3, <2>1, <2>2, Stopping DEF ClickStop
  <2>3. CASE ~Connected
    BY <1>3, <2>1, <2>3, Killing DEF ClickStop
  <2> QED
    BY <2>2, <2>3
<1>4. CASE ClickAttach
  <2>1. ui \in Windows /\ Same(ui, ui)
    BY DEF TypeOK, Same
  <2>2. Nobody /\ queue = <<>> /\ ~connector /\ process # "starting"
    BY <1>4 DEF ClickAttach, Settled, Nobody
  <2> QED
    BY <1>4, <2>1, <2>2, Connecting DEF ClickAttach
<1>5. CASE Detach
  BY <1>5, Detaching
<1> QED
  BY <1>1, <1>2, <1>3, <1>4, <1>5 DEF User

LEMMA ProcessSteps ==
  ASSUME TypeOK, ViewerInv, Process
  PROVE  ViewerInv'
<1>0. ui \in Windows /\ Same(ui, ui)
  BY DEF TypeOK, Same
<1>1. CASE ProcessStarted
  <2>1. Nobody /\ queue = <<>> /\ Same(ui, ui')
    BY <1>1 DEF ProcessStarted, ViewerInv, OneConnection, Same
  <2> QED
    BY <1>1, <2>1, Launching DEF ProcessStarted
<1>2. CASE ProcessStopped
  BY <1>0, <1>2, Ending DEF ProcessStopped
<1>3. CASE SocketReady
  <2>1. Nobody /\ queue = <<>> /\ process # "starting"
    BY <1>3 DEF SocketReady, ViewerInv, OneConnection, Wiring
  <2> QED
    BY <1>0, <1>3, <2>1, Connecting DEF SocketReady
<1>4. CASE SocketFailed
  <2>1. PICK u \in Windows : u = [ui EXCEPT !.config = FALSE] /\ Same(ui, u)
    <3>1. [ui EXCEPT !.config = FALSE] \in Windows /\ Same(ui, [ui EXCEPT !.config = FALSE])
      BY DEF TypeOK, Windows, Same
    <3> QED
      BY <3>1
  <2>2. CASE Connected
    <3>1. RestoreControls(u) \in Windows /\ Same(ui, RestoreControls(u))
      BY <2>1, ControlsRestored DEF Same
    <3>2. StopOverConnection(RestoreControls(u)) /\ connector' = FALSE /\ UNCHANGED queue
      BY <1>4, <2>1, <2>2 DEF SocketFailed
    <3> QED
      BY <2>2, <3>1, <3>2, Stopping
  <2>3. CASE ~Connected
    BY <1>4, <2>1, <2>3, Killing DEF SocketFailed
  <2> QED
    BY <2>2, <2>3
<1>5. CASE EngineListens
  <2> USE <1>5 DEF EngineListens, threads, wires, Nobody, Alive, Waiting
  <2>1. engine'.up
    BY DEF TypeOK, Engines
  <2>2. OneConnection'
    BY DEF ViewerInv, OneConnection
  <2>3. Wiring'
    BY <2>1 DEF ViewerInv, Wiring
  <2>4. Forgotten'
    BY DEF ViewerInv, Forgotten
  <2>5. SignalOrder'
    BY DEF ViewerInv, SignalOrder
  <2>6. Shown'
    BY DEF ViewerInv, Shown
  <2>7. Pending'
    BY DEF ViewerInv, Pending, PendingIsAnswered, Answers
  <2> QED
    BY <2>2, <2>3, <2>4, <2>5, <2>6, <2>7 DEF ViewerInv
<1> QED
  BY <1>1, <1>2, <1>3, <1>4, <1>5 DEF Process

-----------------------------------------------------------------------------
(***************************************************************************)
(* The worker threads                                                      *)
(***************************************************************************)
LEMMA SignalsOf ==
  ASSUME NEW w \in Workers, NEW kind \in {"connecting", "connected", "disconnected", "finished"}
  PROVE  \E s \in Signals : s = Signal(w, kind) /\ s.kind = kind /\ s.via = w
<1>1. Signal(w, kind) \in Signals /\ Signal(w, kind).kind = kind /\ Signal(w, kind).via = w
  BY DEF Signal, Signals, Notices
<1> QED
  BY <1>1

\* Only the worker that is alive can be up, and nothing comes to any other.
LEMMA OthersAreOver ==
  ASSUME TypeOK, ViewerInv, NEW w \in Workers, Alive(w)
  PROVE  /\ ~Nobody
         /\ \A v \in Workers : v # w => worker_at[v] \in {"none", "done"} /\ ~linked[v] /\ down[v] = <<>>
         /\ worker_at[w] \in {"new", "connecting"} => ~linked[w] /\ down[w] = <<>>
<1>1. \A v \in Workers : v # w => worker_at[v] \in {"none", "done"}
  BY Basics DEF ViewerInv, OneConnection
<1> QED
  BY <1>1 DEF Nobody, ViewerInv, Wiring

LEMMA Beginning ==
  ASSUME TypeOK, ViewerInv, NEW w \in Workers, BeginRun(w)
  PROVE  ViewerInv'
<1> USE DEF Nobody, Alive, Waiting
<1>1. /\ worker_at[w] = "new" /\ queue = <<>> /\ Range(queue) = {} /\ w # None
      /\ UNCHANGED <<ui, process, connector, engine, linked, ids, up, down>>
  BY Basics DEF BeginRun, Outside, wires, ViewerInv, SignalOrder
<1>2. PICK s \in Signals : s = Signal(w, "connecting") /\ s.kind = "connecting" /\ s.via = w
  BY SignalsOf
<1>3. queue' = queue \o <<s>>
  BY <1>2 DEF BeginRun, Post
<1>4. /\ Range(queue') = {s} /\ queue' # <<>>
      /\ ConnectingFirst(queue) => ConnectingFirst(queue')
      /\ EndsLast(queue) => EndsLast(queue')
  BY <1>1, <1>3, PostedOne DEF TypeOK
<1>5. \A v \in Workers :
        /\ worker_at'[v] = IF v = w THEN "connecting" ELSE worker_at[v]
        /\ running'[v] = (running[v] \/ v = w)
        /\ client'[v] = IF v = w THEN "open" ELSE client[v]
  BY DEF BeginRun, Goto, TypeOK, ThreadsOK
<1>6. \A v \in Workers : Alive(v)' <=> Alive(v)
  BY <1>1, <1>5
<1>7. OneConnection'
  BY <1>1, <1>2, <1>4, <1>5, <1>6, Basics DEF ViewerInv, OneConnection
<1>8. Wiring'
  BY <1>1, <1>5 DEF ViewerInv, Wiring
<1>9. Forgotten'
  BY <1>1, <1>5 DEF ViewerInv, Forgotten
<1>10. SignalOrder'
  <2>1. /\ \A v \in Workers : v # w => worker_at[v] \in {"none", "done"} /\ ~linked[v] /\ down[v] = <<>>
        /\ ~linked[w] /\ down[w] = <<>>
    BY <1>1, OthersAreOver
  <2>2. ~Nobody'
    BY <1>1, <1>6
  <2> QED
    BY <1>1, <1>2, <1>4, <1>5, <2>1, <2>2 DEF ViewerInv, SignalOrder
<1>11. Shown'
  BY <1>1, <1>4, <1>5, <1>6 DEF ViewerInv, Shown
<1>12. Pending'
  BY <1>1 DEF ViewerInv, Shown, Pending, PendingIsAnswered
<1> QED
  BY <1>7, <1>8, <1>9, <1>10, <1>11, <1>12 DEF ViewerInv

LEMMA Syncing ==
  ASSUME TypeOK, ViewerInv, NEW w \in Workers, StartSync(w)
  PROVE  ViewerInv'
<1> USE DEF Nobody, Alive, Waiting
<1>1. /\ worker_at[w] = "connecting" /\ engine.up /\ client[w] = "open" /\ w # None
      /\ UNCHANGED <<ui, process, connector, engine, running, client, ids, up, down>>
  BY Basics DEF StartSync, Outside, wires
<1>2. PICK s \in Signals : s = Signal(w, "connected") /\ s.kind = "connected" /\ s.via = w
  BY SignalsOf
<1>3. queue' = queue \o <<s>>
  BY <1>2 DEF StartSync, Post
<1>4. \A t \in Range(queue) : t.kind = "connecting" /\ ~IsEnding(t)
  BY <1>1 DEF ViewerInv, SignalOrder, IsEnding
<1>5. /\ Range(queue') = Range(queue) \cup {s} /\ queue' # <<>>
      /\ ConnectingFirst(queue) => ConnectingFirst(queue')
      /\ EndsLast(queue) => EndsLast(queue')
  BY <1>2, <1>3, <1>4, PostedOne DEF TypeOK
<1>6. \A v \in Workers :
        /\ worker_at'[v] = IF v = w THEN "live" ELSE worker_at[v]
        /\ linked'[v] = (linked[v] \/ v = w)
  BY DEF StartSync, Goto, TypeOK, ThreadsOK
<1>7. \A v \in Workers : Alive(v)' <=> Alive(v)
  BY <1>1, <1>6
<1>8. OneConnection'
  BY <1>1, <1>2, <1>5, <1>6, <1>7 DEF ViewerInv, OneConnection
<1>9. Wiring'
  BY <1>1, <1>6 DEF ViewerInv, Wiring
<1>10. Forgotten'
  BY <1>1, <1>6 DEF ViewerInv, Wiring, Forgotten
<1>11. SignalOrder'
  <2>1. \A t \in Range(queue') : ~IsEnding(t)
    BY <1>2, <1>4, <1>5 DEF IsEnding
  <2>2. \A v \in Workers : v # w => worker_at[v] \in {"none", "done"}
    BY <1>1, OthersAreOver
  <2>3. ~Nobody'
    BY <1>1, <1>7
  <2> QED
    BY <1>5, <1>6, <2>1, <2>2, <2>3 DEF ViewerInv, SignalOrder
<1>12. Shown'
  BY <1>1, <1>2, <1>5, <1>6, <1>7 DEF ViewerInv, Shown
<1>13. Pending'
  BY <1>1 DEF ViewerInv, Shown, Pending, PendingIsAnswered
<1> QED
  BY <1>8, <1>9, <1>10, <1>11, <1>12, <1>13 DEF ViewerInv

\* A worker posts the end of its connection.
LEMMA EndPosted ==
  ASSUME TypeOK, NEW w \in Workers, Post(Ended(w)), ConnectingFirst(queue), EndsLast(queue)
  PROVE  /\ ConnectingFirst(queue') /\ EndsLast(queue') /\ queue' # <<>>
         /\ queue'[Len(queue')].kind = "finished"
         /\ Range(queue) \subseteq Range(queue')
         /\ \A s \in Range(queue') : s \in Range(queue) \/ (s.via = w /\ IsEnding(s))
         /\ \E s \in Range(queue') : s.via = w /\ s.kind = "disconnected"
<1>1. PICK q : q = queue /\ q \in Seq(Signals)
  BY DEF TypeOK
<1>2. PICK d : d = Signal(w, "disconnected") /\ d.via = w /\ d.kind = "disconnected"
  BY SignalsOf
<1>3. PICK f : f = Signal(w, "finished") /\ f.via = w /\ f.kind = "finished"
  BY SignalsOf
<1>4. PICK r : r = queue' /\ r = q \o Ended(w)
  BY <1>1 DEF Post
<1>5. /\ r # <<>> /\ Range(r) = Range(q) \cup {d, f} /\ r[Len(r)].kind = "finished"
      /\ ConnectingFirst(r) /\ EndsLast(r)
  BY <1>1, <1>2, <1>3, <1>4, PostedEnd
<1> QED
  BY <1>1, <1>2, <1>3, <1>4, <1>5 DEF IsEnding

LEMMA Failing ==
  ASSUME TypeOK, ViewerInv, NEW w \in Workers, StartSyncFails(w)
  PROVE  ViewerInv'
<1> USE DEF Nobody, Alive, Waiting
<1>1. /\ worker_at[w] = "connecting" /\ w # None
      /\ UNCHANGED <<ui, process, connector, engine, running, client, linked, ids, up, down>>
  BY Basics DEF StartSyncFails, Outside, wires
<1>2. /\ ConnectingFirst(queue') /\ EndsLast(queue') /\ queue' # <<>>
      /\ \A s \in Range(queue') : s \in Range(queue) \/ (s.via = w /\ IsEnding(s))
  BY EndPosted DEF StartSyncFails, ViewerInv, SignalOrder
<1>3. \A v \in Workers : worker_at'[v] = IF v = w THEN "closing" ELSE worker_at[v]
  BY DEF StartSyncFails, Goto, TypeOK, ThreadsOK
<1>4. \A v \in Workers : Alive(v)' <=> Alive(v)
  BY <1>1, <1>3
<1>5. \A v \in Workers :
        /\ Alive(v) => v = w
        /\ worker_at'[v] \notin {"new", "connecting", "live"} /\ ~linked'[v] /\ down'[v] = <<>>
  BY <1>1, <1>3, OthersAreOver
<1>6. OneConnection'
  BY <1>1, <1>2, <1>3, <1>4, <1>5 DEF ViewerInv, OneConnection
<1>7. Wiring'
  BY <1>1, <1>3 DEF ViewerInv, Wiring
<1>8. Forgotten'
  BY <1>1, <1>3 DEF ViewerInv, Forgotten
<1>9. ~Nobody'
  BY <1>1, <1>4
<1>10. SignalOrder'
  BY <1>2, <1>5, <1>9 DEF SignalOrder
<1>11. Shown'
  BY <1>5, <1>9 DEF Shown
<1>12. Pending'
  BY <1>1 DEF ViewerInv, Shown, Pending, PendingIsAnswered
<1> QED
  BY <1>6, <1>7, <1>8, <1>10, <1>11, <1>12 DEF ViewerInv

LEMMA LoopEnding ==
  ASSUME TypeOK, ViewerInv, NEW w \in Workers, LoopEnds(w)
  PROVE  ViewerInv'
<1> USE DEF Nobody, Alive, Waiting
<1>1. /\ worker_at[w] = "live" /\ w # None
      /\ UNCHANGED <<ui, process, connector, engine, client, linked, ids, up, down, queue>>
  BY Basics DEF LoopEnds, Outside, wires
<1>2. \A v \in Workers :
        /\ worker_at'[v] = IF v = w THEN "closing" ELSE worker_at[v]
        /\ running'[v] = (running[v] /\ v # w)
  BY DEF LoopEnds, Goto, TypeOK, ThreadsOK
<1>3. \A v \in Workers : Alive(v)' <=> Alive(v)
  BY <1>1, <1>2
<1>4. OneConnection'
  BY <1>1, <1>2, <1>3 DEF ViewerInv, OneConnection
<1>5. Wiring'
  BY <1>1, <1>2 DEF ViewerInv, Wiring
<1>6. Forgotten'
  BY <1>1, <1>2 DEF ViewerInv, Forgotten
<1>7. SignalOrder'
  BY <1>1, <1>2, <1>3 DEF ViewerInv, SignalOrder
<1>8. Shown'
  BY <1>1, <1>2, <1>3 DEF ViewerInv, Shown
<1>9. Pending'
  <2>1. \A p \in ui.pending : p.via \in Workers
    BY DEF TypeOK, Windows
  <2> QED
    BY <1>1, <1>2, <2>1 DEF ViewerInv, Pending, PendingIsAnswered, Answers
<1> QED
  BY <1>4, <1>5, <1>6, <1>7, <1>8, <1>9 DEF ViewerInv

LEMMA LosingLink ==
  ASSUME TypeOK, ViewerInv, NEW w \in Workers, LinkLost(w)
  PROVE  ViewerInv'
<1> USE DEF Nobody, Alive, Waiting
<1>1. /\ worker_at[w] \in {"live", "closing"} /\ w # None
      /\ UNCHANGED <<ui, process, connector, engine, worker_at, running, client, ids, up, down, queue>>
  BY Basics DEF LinkLost, Outside, wires, ViewerInv, Wiring
<1>2. \A v \in Workers : linked'[v] = (linked[v] /\ v # w)
  BY DEF LinkLost, TypeOK, ThreadsOK
<1>3. OneConnection'
  BY <1>1 DEF ViewerInv, OneConnection
<1>4. Wiring'
  BY <1>1, <1>2 DEF ViewerInv, Wiring
<1>5. Forgotten'
  BY <1>1 DEF ViewerInv, Forgotten
<1>6. SignalOrder'
  BY <1>1, <1>2 DEF ViewerInv, SignalOrder
<1>7. Shown'
  BY <1>1 DEF ViewerInv, Shown
<1>8. Pending'
  <2>1. \A p \in ui.pending : p.via \in Workers
    BY DEF TypeOK, Windows
  <2> QED
    BY <1>1, <1>2, <2>1 DEF ViewerInv, Pending, PendingIsAnswered, Answers
<1> QED
  BY <1>3, <1>4, <1>5, <1>6, <1>7, <1>8 DEF ViewerInv

LEMMA CleaningUp ==
  ASSUME TypeOK, ViewerInv, NEW w \in Workers, Cleanup(w)
  PROVE  ViewerInv'
<1> USE DEF Nobody, Alive, Waiting
<1>1. /\ worker_at[w] = "closing" /\ w # None
      /\ UNCHANGED <<ui, process, connector, engine, running>>
  BY Basics DEF Cleanup, Outside
<1>2. /\ ConnectingFirst(queue') /\ EndsLast(queue') /\ queue' # <<>>
      /\ queue'[Len(queue')].kind = "finished"
      /\ \A s \in Range(queue') : s \in Range(queue) \/ (s.via = w /\ IsEnding(s))
      /\ \E s \in Range(queue') : s.via = w /\ s.kind = "disconnected"
  BY EndPosted DEF Cleanup, ViewerInv, SignalOrder
<1>3. \A v \in Workers :
        /\ worker_at'[v] = IF v = w THEN "done" ELSE worker_at[v]
        /\ linked'[v] = (linked[v] /\ v # w)
        /\ client'[v] = IF v = w /\ client[v] = "open" THEN "stopped" ELSE client[v]
        /\ down'[v] = IF v = w THEN <<>> ELSE down[v]
  BY DEF Cleanup, Goto, CloseClient, TypeOK, ThreadsOK, WiresOK
<1>4. /\ \A v \in Workers : v # w => worker_at[v] \in {"none", "done"} /\ ~linked[v] /\ down[v] = <<>>
      /\ ~Nobody
  BY <1>1, OthersAreOver
<1>5. \A v \in Workers :
        ~Alive(v)' /\ worker_at'[v] \in {"none", "done"} /\ ~linked'[v] /\ down'[v] = <<>>
  BY <1>3, <1>4
<1>6. OneConnection'
  <2>1. process # "starting" /\ ~connector
    BY <1>4 DEF ViewerInv, OneConnection
  <2>2. \A s \in Range(queue) : s.via = w
    BY <1>1 DEF ViewerInv, OneConnection
  <2>3. ui.worker # None => ui.worker = w
    BY <1>1 DEF ViewerInv, OneConnection
  <2>4. \A s \in Range(queue') : s.via = w
    BY <1>2, <2>2
  <2> QED
    BY <1>1, <1>3, <1>5, <2>1, <2>3, <2>4 DEF OneConnection
<1>7. Wiring'
  <2>1. ASSUME NEW v \in Workers
        PROVE  /\ client'[v] = "none" <=> worker_at'[v] \in {"none", "new"}
               /\ client'[v] # "open"
               /\ \A m \in Range(down'[v]) : m.via = v
    BY <1>1, <1>3, <1>4, <1>5, NoneInEmpty DEF ViewerInv, Wiring
  <2> QED
    BY <1>1, <1>5, <2>1 DEF ViewerInv, Wiring
<1>8. Forgotten'
  BY <1>5 DEF Forgotten
<1>9. SignalOrder'
  BY <1>2, <1>5 DEF SignalOrder
<1>10. Shown'
  BY <1>2, <1>5 DEF Shown
<1>11. Pending'
  <2>1. \A p \in ui.pending : p.via = w
    BY <1>1 DEF ViewerInv, Pending, OneConnection, TypeOK, Windows, None, Workers
  <2> QED
    BY <1>1, <1>2, <2>1 DEF ViewerInv, Pending, PendingIsAnswered
<1> QED
  BY <1>6, <1>7, <1>8, <1>9, <1>10, <1>11 DEF ViewerInv

LEMMA Delivering ==
  ASSUME TypeOK, ViewerInv, NEW w \in Workers, Deliver(w)
  PROVE  ViewerInv'
<1> USE DEF Nobody, Alive, Waiting
<1>1. /\ worker_at[w] \in {"live", "closing"} /\ w # None /\ down[w] # <<>>
      /\ \A s \in Range(queue) : ~IsEnding(s)
      /\ UNCHANGED <<ui, process, connector, engine, threads, ids, up>>
  BY Basics DEF Deliver, Outside, ViewerInv, Wiring, SignalOrder
<1>2. PICK d \in Seq(Statuses \cup Replies) : d = down[w] /\ d # <<>>
  BY <1>1 DEF TypeOK, WiresOK
<1>3. PICK m \in Statuses \cup Replies : m = Head(d)
  BY <1>2, Popped
<1>4. Range(d) = Range(Tail(d)) \cup {m} /\ m.via = w
  BY <1>2, <1>3, Popped DEF ViewerInv, Wiring
<1>5. m \in Signals /\ m.kind \in {"status", "result"} /\ ~IsEnding(m)
  BY DEF Signals, Statuses, Replies, IsEnding
<1>6. queue' = queue \o <<m>> /\ down' = [down EXCEPT ![w] = Tail(d)]
  BY <1>2, <1>3 DEF Deliver, Post
<1>7. /\ Range(queue') = Range(queue) \cup {m} /\ queue' # <<>>
      /\ ConnectingFirst(queue) => ConnectingFirst(queue')
      /\ EndsLast(queue) => EndsLast(queue')
  BY <1>1, <1>5, <1>6, PostedOne DEF TypeOK
<1>8. \A v \in Workers : down'[v] = IF v = w THEN Tail(d) ELSE down[v]
  BY <1>6 DEF TypeOK, WiresOK
<1>9. /\ ~Nobody
      /\ \A v \in Workers : v # w => worker_at[v] \in {"none", "done"} /\ ~linked[v] /\ down[v] = <<>>
  BY <1>1, OthersAreOver
<1>10. OneConnection'
  <2>1. process # "starting" /\ ~connector
    BY <1>9 DEF ViewerInv, OneConnection
  <2>2. \A s \in Range(queue') : s.via = w
    BY <1>1, <1>4, <1>7 DEF ViewerInv, OneConnection
  <2> QED
    BY <1>1, <2>1, <2>2 DEF ViewerInv, OneConnection, threads
<1>11. Wiring'
  <2>1. ASSUME NEW v \in Workers
        PROVE  /\ \A x \in Range(down'[v]) : x.via = v
               /\ down'[v] # <<>> => down[v] # <<>>
    BY <1>2, <1>4, <1>8 DEF ViewerInv, Wiring
  <2> QED
    BY <1>1, <2>1 DEF ViewerInv, Wiring, threads
<1>12. Forgotten'
  BY <1>1 DEF ViewerInv, Forgotten, threads
<1>13. SignalOrder'
  <2>1. \A s \in Range(queue') : ~IsEnding(s)
    BY <1>1, <1>5, <1>7
  <2>2. \A v \in Workers : worker_at[v] \notin {"new", "connecting"}
    BY <1>1, <1>9
  <2> QED
    BY <1>1, <1>7, <1>9, <2>1, <2>2 DEF ViewerInv, SignalOrder, threads
<1>14. Shown'
  BY <1>1, <1>5, <1>7, <1>9 DEF ViewerInv, Shown, threads
<1>15. Pending'
  <2> SUFFICES ASSUME NEW p \in ui.pending
               PROVE  \/ \E c \in Range(up[p.via]) : c.id = p.id
                      \/ \E x \in Range(down'[p.via]) : Answers(x, p.id)
                      \/ \E s \in Range(queue') : s.via = p.via /\ Answers(s, p.id)
                      \/ worker_at[p.via] # "done" /\ (~running[p.via] \/ ~linked[p.via])
                      \/ \E s \in Range(queue') : s.via = p.via /\ s.kind = "disconnected"
    BY <1>1 DEF ViewerInv, Pending, PendingIsAnswered, Answers, threads
  <2>1. p.via \in Workers
    BY DEF TypeOK, Windows
  <2>2. \A x \in Range(down[p.via]) : x \in Range(down'[p.via]) \/ (x = m /\ p.via = w)
    BY <1>2, <1>4, <1>8, <2>1
  <2> QED
    BY <1>4, <1>7, <2>2 DEF ViewerInv, Pending, PendingIsAnswered
<1> QED
  BY <1>10, <1>11, <1>12, <1>13, <1>14, <1>15 DEF ViewerInv

-----------------------------------------------------------------------------
(***************************************************************************)
(* The engine: what its lines mean for the connections they go to          *)
(***************************************************************************)
LEMMA Single ==
  ASSUME NEW S, NEW e \in S
  PROVE  <<e>> \in Seq(S) /\ Range(<<e>>) = {e} /\ <<>> \in Seq(S)
<1>1. <<e>> \in Seq(S) /\ <<>> \in Seq(S)
  OBVIOUS
<1>2. PICK t \in Seq(S) : t = <<e>>
  BY <1>1, Zenon
<1>3. DOMAIN t = {1} /\ t[1] = e
  BY <1>2
<1>4. Range(t) = {e}
  BY <1>3 DEF Range
<1> QED
  BY <1>1, <1>2, <1>4, Zenon

LEMMA StatusOf ==
  ASSUME NEW w \in Workers, NEW e
  PROVE  \E s \in Statuses \cup Replies : s = Status(w, e) /\ s.via = w
<1>1. StateName(e.capturing) \in EngineStates
  BY DEF StateName, EngineStates
<1>2. Status(w, e) \in Statuses /\ Status(w, e).via = w
  BY <1>1 DEF Status, Statuses
<1> QED
  BY <1>2

LEMMA Joined ==
  ASSUME NEW S, NEW s \in Seq(S), NEW t \in Seq(S)
  PROVE  s \o t \in Seq(S) /\ Range(s \o t) = Range(s) \cup Range(t)
<1>0. s \o t \in Seq(S)
  OBVIOUS
<1>1. PICK r \in Seq(S) : r = s \o t
  BY <1>0, Zenon
<1>2. PICK n \in Nat, m \in Nat : n = Len(s) /\ m = Len(t)
  OBVIOUS
<1>3. DOMAIN s = 1..n /\ DOMAIN t = 1..m /\ DOMAIN r = 1..(n + m)
  BY <1>1, <1>2
<1>4. \A i \in 1..n : r[i] = s[i]
  BY <1>1, <1>2
<1>5. \A i \in (n + 1)..(n + m) : r[i] = t[i - n]
  BY <1>1, <1>2
<1>6. ASSUME NEW x \in Range(r)
      PROVE  x \in Range(s) \cup Range(t)
  <2>1. PICK i \in 1..(n + m) : r[i] = x
    BY <1>3 DEF Range
  <2>2. CASE i \in 1..n
    BY <1>3, <1>4, <2>1, <2>2 DEF Range
  <2>3. CASE i \in (n + 1)..(n + m)
    <3>1. PICK j : j = i - n
      OBVIOUS
    <3>2. j \in 1..m /\ t[j] = x
      BY <1>5, <2>1, <2>3, <3>1
    <3> QED
      BY <1>3, <3>2 DEF Range
  <2> QED
    BY <2>2, <2>3
<1>7. ASSUME NEW x \in Range(s)
      PROVE  x \in Range(r)
  BY <1>3, <1>4 DEF Range
<1>8. ASSUME NEW x \in Range(t)
      PROVE  x \in Range(r)
  <2>1. PICK j \in 1..m : t[j] = x
    BY <1>3 DEF Range
  <2>2. PICK i : i = n + j
    OBVIOUS
  <2>3. i \in (n + 1)..(n + m) /\ i - n = j /\ i \in 1..(n + m)
    BY <2>2
  <2>4. r[i] = x
    BY <1>5, <2>1, <2>3
  <2> QED
    BY <1>3, <2>3, <2>4 DEF Range
<1> QED
  BY <1>1, <1>6, <1>7, <1>8, Zenon

LEMMA EngineAnswers ==
  ASSUME TypeOK, ViewerInv, engine'.up = engine.up,
         UNCHANGED <<ui, process, connector, threads, ids, queue>>,
         \A v \in Workers :
            /\ ~linked[v] => down'[v] = down[v]
            /\ \A m \in Range(down[v]) : m \in Range(down'[v])
            /\ \A m \in Range(down'[v]) : m.via = v
            /\ linked[v] => \A c \in Range(up[v]) :
                  c \in Range(up'[v]) \/ \E m \in Range(down'[v]) : Answers(m, c.id)
  PROVE  ViewerInv'
<1> USE DEF Nobody, Alive, Waiting, threads
<1>1. OneConnection'
  BY DEF ViewerInv, OneConnection
<1>2. Wiring'
  BY DEF ViewerInv, Wiring
<1>3. Forgotten'
  BY DEF ViewerInv, Forgotten
<1>4. SignalOrder'
  <2>1. \A v \in Workers : down'[v] # <<>> => linked[v] \/ down[v] # <<>>
    OBVIOUS
  <2> QED
    BY <2>1 DEF ViewerInv, SignalOrder
<1>5. Shown'
  BY DEF ViewerInv, Shown
<1>6. Pending'
  <2> SUFFICES ASSUME NEW p \in ui.pending
               PROVE  \/ \E c \in Range(up'[p.via]) : c.id = p.id
                      \/ \E m \in Range(down'[p.via]) : Answers(m, p.id)
                      \/ \E s \in Range(queue) : s.via = p.via /\ Answers(s, p.id)
                      \/ worker_at[p.via] # "done" /\ (~running[p.via] \/ ~linked[p.via])
                      \/ \E s \in Range(queue) : s.via = p.via /\ s.kind = "disconnected"
    BY DEF ViewerInv, Pending, PendingIsAnswered, Answers
  <2>1. p.via \in Workers /\ p.via = ui.worker
    BY DEF TypeOK, Windows, ViewerInv, Pending
  <2>2. p.via # None
    BY <2>1, Basics
  <2>3. CASE worker_at[p.via] = "done"
    <3>1. Nobody
      BY <2>1, <2>2, <2>3 DEF ViewerInv, OneConnection
    <3>2. Waiting("disconnected")
      BY <3>1 DEF ViewerInv, Shown
    <3> QED
      BY <2>1, <2>2, <3>2 DEF ViewerInv, OneConnection
  <2>4. CASE worker_at[p.via] # "done" /\ ~linked[p.via]
    BY <2>4
  <2>5. CASE linked[p.via]
    BY <2>1, <2>5 DEF ViewerInv, Pending, PendingIsAnswered
  <2> QED
    BY <2>3, <2>4, <2>5
<1> QED
  BY <1>1, <1>2, <1>3, <1>4, <1>5, <1>6 DEF ViewerInv

LEMMA Handling ==
  ASSUME TypeOK, ViewerInv, NEW w \in Workers, Handle(w)
  PROVE  ViewerInv'
<1> DEFINE Lines == Statuses \cup Replies
<1>1. PICK c \in Commands : /\ c = Head(up[w])
                            /\ Range(up[w]) = Range(Tail(up[w])) \cup {c}
  BY Popped DEF Handle, TypeOK, WiresOK
<1>2. PICK ok \in BOOLEAN :
        /\ engine' = IF ok THEN After(engine, c.op) ELSE engine
        /\ LET e == IF ok THEN After(engine, c.op) ELSE engine
               result == [kind |-> "result", via |-> w, id |-> c.id, op |-> c.op, ok |-> ok,
                          state |-> StateName(e.capturing)]
           IN  down' = [v \in Workers |->
                  IF ~linked[v] THEN down[v]
                  ELSE down[v] \o (IF v = w THEN <<result>> ELSE <<>>)
                               \o (IF Announced(c.op, ok) THEN <<Status(v, e)>> ELSE <<>>)]
  <2>1. Accepts(engine, c.op) \subseteq BOOLEAN
    BY DEF Accepts, Ops, Commands, TypeOK, Engines
  <2> QED
    BY <1>1, <2>1 DEF Handle
<1>3. c.op \in Ops /\ c.id \in Nat
  BY DEF Commands
<1>4. engine'.up = engine.up
  BY <1>2, <1>3, AfterTyped DEF TypeOK
<1>5. PICK result \in Lines :
        /\ result = [kind |-> "result", via |-> w, id |-> c.id, op |-> c.op, ok |-> ok,
                     state |-> StateName(engine'.capturing)]
        /\ result.kind = "result" /\ result.via = w /\ result.id = c.id
  <2>1. StateName(engine'.capturing) \in EngineStates
    BY DEF StateName, EngineStates
  <2>2. PICK r \in Replies :
          r = [kind |-> "result", via |-> w, id |-> c.id, op |-> c.op, ok |-> ok,
               state |-> StateName(engine'.capturing)]
    BY <1>3, <2>1 DEF Replies
  <2> QED
    BY <2>2
<1>6. ASSUME NEW v \in Workers
      PROVE  /\ ~linked[v] => down'[v] = down[v]
             /\ \A m \in Range(down[v]) : m \in Range(down'[v])
             /\ \A m \in Range(down'[v]) : m.via = v
             /\ linked[v] /\ v = w => result \in Range(down'[v])
  <2>1. CASE ~linked[v]
    <3>1. down'[v] = down[v]
      BY <1>2, <2>1
    <3> QED
      BY <2>1, <3>1 DEF ViewerInv, Wiring
  <2>2. CASE linked[v]
    <3>1. PICK one \in Seq(Lines) :
            /\ one = (IF v = w THEN <<result>> ELSE <<>>)
            /\ Range(one) = IF v = w THEN {result} ELSE {}
      <4> HIDE DEF Lines
      <4>1. <<result>> \in Seq(Lines) /\ Range(<<result>>) = {result} /\ <<>> \in Seq(Lines)
        BY Single
      <4> QED
        BY <4>1, NoneInEmpty
    <3>2. PICK two \in Seq(Lines) :
            /\ two = (IF Announced(c.op, ok) THEN <<Status(v, engine')>> ELSE <<>>)
            /\ \A m \in Range(two) : m.via = v
      <4>1. PICK s \in Lines : s = Status(v, engine') /\ s.via = v
        BY StatusOf
      <4> HIDE DEF Lines
      <4>2. <<s>> \in Seq(Lines) /\ Range(<<s>>) = {s} /\ <<>> \in Seq(Lines)
        BY Single
      <4> QED
        BY <4>1, <4>2, NoneInEmpty
    <3>3. PICK d \in Seq(Lines) : d = down[v] /\ \A m \in Range(d) : m.via = v
      BY DEF TypeOK, WiresOK, ViewerInv, Wiring
    <3>4. d \o one \in Seq(Lines) /\ Range(d \o one) = Range(d) \cup Range(one)
      BY Joined
    <3>5. Range((d \o one) \o two) = Range(d \o one) \cup Range(two)
      <4>1. PICK x \in Seq(Lines) : x = d \o one
        BY <3>4
      <4>2. Range(x \o two) = Range(x) \cup Range(two)
        BY Joined
      <4> QED
        BY <4>1, <4>2, Zenon
    <3>6. down'[v] = (d \o one) \o two
      <4>1. down'[v] = down[v] \o (IF v = w THEN <<result>> ELSE <<>>)
                               \o (IF Announced(c.op, ok) THEN <<Status(v, engine')>> ELSE <<>>)
        <5> HIDE DEF Lines
        <5> QED
          BY <1>2, <1>5, <2>2
      <4> QED
        BY <3>1, <3>2, <3>3, <4>1, Zenon
    <3>7. Range(down'[v]) = Range(down[v]) \cup Range(one) \cup Range(two)
      BY <3>3, <3>4, <3>5, <3>6, Zenon
    <3> QED
      BY <1>5, <2>2, <3>1, <3>2, <3>3, <3>7
  <2> QED
    BY <2>1, <2>2
<1>7. \A v \in Workers : up'[v] = IF v = w THEN Tail(up[v]) ELSE up[v]
  BY DEF Handle, TypeOK, WiresOK
<1>8. ASSUME NEW v \in Workers, linked[v], NEW x \in Range(up[v])
      PROVE  x \in Range(up'[v]) \/ \E m \in Range(down'[v]) : Answers(m, x.id)
  BY <1>1, <1>5, <1>6, <1>7, <1>8 DEF Answers
<1>9. UNCHANGED <<ui, process, connector, threads, ids, queue>>
  BY DEF Handle
<1> QED
  BY <1>4, <1>6, <1>8, <1>9, EngineAnswers

LEMMA OthersHandled ==
  ASSUME TypeOK, ViewerInv, OthersCommand
  PROVE  ViewerInv'
<1>1. PICK op \in {"configure", "start_capture", "stop_capture"} :
          /\ engine' = [After(engine, op) EXCEPT !.shared = TRUE]
          /\ down' = [w \in Workers |->
                IF linked[w] THEN Append(down[w], Status(w, After(engine, op))) ELSE down[w]]
  BY DEF OthersCommand
<1>2. PICK e \in Engines : e = After(engine, op) /\ e.up = engine.up
  BY AfterTyped DEF Ops, TypeOK
<1>3. engine'.up = engine.up
  BY <1>1, <1>2 DEF Engines
<1>4. ASSUME NEW v \in Workers
      PROVE  /\ ~linked[v] => down'[v] = down[v]
             /\ \A m \in Range(down[v]) : m \in Range(down'[v])
             /\ \A m \in Range(down'[v]) : m.via = v
  <2>1. PICK s \in Statuses \cup Replies : s = Status(v, e) /\ s.via = v
    BY StatusOf
  <2>2. PICK d \in Seq(Statuses \cup Replies) : d = down[v] /\ \A m \in Range(d) : m.via = v
    BY DEF TypeOK, WiresOK, ViewerInv, Wiring
  <2>3. Range(Append(d, s)) = Range(d) \cup {s}
    BY Appended
  <2>4. down'[v] = IF linked[v] THEN Append(d, s) ELSE d
    BY <1>1, <1>2, <2>1, <2>2
  <2> QED
    BY <2>1, <2>2, <2>3, <2>4
<1>5. UNCHANGED <<ui, process, connector, threads, ids, up, queue>>
  BY DEF OthersCommand
<1> QED
  BY <1>3, <1>4, <1>5, EngineAnswers

-----------------------------------------------------------------------------
(***************************************************************************)
(* The window's slots                                                      *)
(***************************************************************************)
LEMMA Taking ==
  ASSUME TypeOK, ViewerInv, queue # <<>>, Taken
  PROVE  /\ Head(queue) \in Range(queue)
         /\ \A s \in Range(queue) : s = Head(queue) \/ s \in Range(queue')
         /\ \A s \in Range(queue') : s \in Range(queue) /\ s.kind # "connecting"
         /\ ConnectingFirst(queue') /\ EndsLast(queue')
         /\ IsEnding(Head(queue)) => \A s \in Range(queue) : IsEnding(s)
         /\ queue' # <<>> => queue'[Len(queue')] = queue[Len(queue)]
         /\ queue' = <<>> => Head(queue) = queue[Len(queue)] /\ Range(queue') = {}
         /\ UNCHANGED <<process, connector, engine, worker_at, running, client, linked>>
<1>1. PICK q : q = queue /\ q \in Seq(Signals) /\ ConnectingFirst(q) /\ EndsLast(q)
  BY DEF TypeOK, ViewerInv, SignalOrder
<1>2. queue' = Tail(q) /\ UNCHANGED <<process, connector, engine, worker_at, running, client, linked>>
  BY <1>1 DEF Taken, threads
<1>3. /\ Range(q) = Range(queue') \cup {Head(q)}
      /\ ConnectingFirst(queue') /\ \A s \in Range(queue') : s.kind # "connecting"
      /\ EndsLast(queue') /\ (IsEnding(Head(q)) => \A s \in Range(q) : IsEnding(s))
      /\ queue' # <<>> => queue'[Len(queue')] = q[Len(q)]
      /\ queue' = <<>> => q[Len(q)] = Head(q)
  BY <1>1, <1>2, TakenOne
<1> QED
  BY <1>1, <1>2, <1>3, NoneInEmpty

\* The slot of a signal that is not the end of a connection.
LEMMA Noticing ==
  ASSUME TypeOK, ViewerInv, queue # <<>>, Taken, ~IsEnding(Head(queue)),
         ui'.worker = ui.worker, UNCHANGED down,
         Head(queue).kind = "connecting" =>
            ~ui'.connected /\ ui'.attach = "connecting" /\ ui'.pending = ui.pending,
         Head(queue).kind = "connected" => ui'.connected,
         Head(queue).kind \notin {"connecting", "connected"} => ui'.connected = ui.connected
  PROVE  OneConnection' /\ Wiring' /\ Forgotten' /\ SignalOrder' /\ Shown'
<1> USE DEF Nobody, Alive, Waiting
<1>1. PICK h : h = Head(queue) /\ h \in Range(queue) /\ ~IsEnding(h) /\ h.kind # "disconnected"
  BY Taking DEF IsEnding
<1>2. /\ \A s \in Range(queue) : s = h \/ s \in Range(queue')
      /\ \A s \in Range(queue') : s \in Range(queue) /\ s.kind # "connecting"
      /\ ConnectingFirst(queue') /\ EndsLast(queue')
      /\ queue' # <<>> => queue'[Len(queue')] = queue[Len(queue)]
      /\ queue' = <<>> => Range(queue') = {}
      /\ UNCHANGED <<process, connector, engine, worker_at, running, client, linked>>
  BY <1>1, Taking
<1>3. /\ h.kind = "connecting" =>
            ~ui'.connected /\ ui'.attach = "connecting" /\ ui'.pending = ui.pending
      /\ h.kind = "connected" => ui'.connected
      /\ h.kind \notin {"connecting", "connected"} => ui'.connected = ui.connected
  BY <1>1
<1>4. Nobody => Waiting("disconnected")' /\ queue' # <<>>
  BY <1>1, <1>2 DEF ViewerInv, SignalOrder
<1>5. OneConnection'
  BY <1>2 DEF ViewerInv, OneConnection
<1>6. Wiring'
  BY <1>2 DEF ViewerInv, Wiring
<1>7. Forgotten'
  BY <1>2 DEF ViewerInv, Forgotten
<1>8. SignalOrder'
  BY <1>2, <1>4 DEF ViewerInv, SignalOrder
<1>9. Shown'
  <2>1. ASSUME NEW w \in Workers, worker_at[w] \in {"new", "connecting"}
        PROVE  /\ ~ui'.connected /\ ui'.pending = {}
               /\ ui'.worker = w => ui'.attach = "connecting"
    <3>1. h.kind = "connecting"
      BY <1>1, <2>1 DEF ViewerInv, SignalOrder
    <3> QED
      BY <1>3, <2>1, <3>1 DEF ViewerInv, Shown
  <2>2. ASSUME NEW w \in Workers, worker_at[w] = "live", ui.worker = w
        PROVE  Waiting("connected")' \/ (ui'.connected /\ ~Waiting("connecting")')
    <3>1. Waiting("connected") \/ (ui.connected /\ ~Waiting("connecting"))
      BY <2>2 DEF ViewerInv, Shown
    <3> QED
      BY <1>1, <1>2, <1>3, <3>1
  <2> QED
    BY <1>2, <1>4, <2>1, <2>2 DEF Shown
<1> QED
  BY <1>5, <1>6, <1>7, <1>8, <1>9

\* The slot of the end of a connection.
LEMMA Closing ==
  ASSUME TypeOK, ViewerInv, queue # <<>>, Taken, IsEnding(Head(queue)), UNCHANGED wires,
         ~ui'.connected, ui'.attach = "attach", ui'.pending = {},
         process = "none" => Startable(ui'),
         ui'.worker # None => ui'.worker = ui.worker /\ Head(queue).kind = "disconnected"
  PROVE  ViewerInv'
<1> USE DEF Nobody, Alive, Waiting, wires
<1>1. PICK h : h = Head(queue) /\ h \in Range(queue) /\ IsEnding(h)
  BY Taking
<1>2. /\ \A s \in Range(queue) : IsEnding(s)
      /\ \A s \in Range(queue') : s \in Range(queue)
      /\ ConnectingFirst(queue') /\ EndsLast(queue')
      /\ queue' # <<>> => queue'[Len(queue')] = queue[Len(queue)]
      /\ queue' = <<>> => h = queue[Len(queue)]
      /\ UNCHANGED <<process, connector, engine, worker_at, running, client, linked>>
  BY <1>1, Taking
<1>3. \A w \in Workers :
        worker_at[w] \notin {"new", "connecting", "live"} /\ ~linked[w] /\ down[w] = <<>>
  BY <1>1 DEF ViewerInv, SignalOrder, IsEnding
<1>4. OneConnection'
  BY <1>2 DEF ViewerInv, OneConnection
<1>5. Wiring'
  BY <1>2 DEF ViewerInv, Wiring
<1>6. Forgotten'
  BY <1>2, <1>3 DEF Forgotten
<1>7. SignalOrder'
  BY <1>2, <1>3 DEF ViewerInv, SignalOrder
<1>8. Shown'
  <2>1. ui'.worker # None /\ Nobody => queue' # <<>>
    BY <1>1, <1>2 DEF ViewerInv, SignalOrder
  <2> QED
    BY <1>2, <1>3, <2>1 DEF Shown
<1>9. Pending'
  BY DEF Pending, PendingIsAnswered
<1> QED
  BY <1>4, <1>5, <1>6, <1>7, <1>8, <1>9 DEF ViewerInv

\* No pending command loses its answer to a slot that adds none.
LEMMA StillPending ==
  ASSUME TypeOK, ViewerInv, queue # <<>>, Taken, UNCHANGED wires, ui'.worker = ui.worker,
         ui'.pending \subseteq ui.pending, Head(queue).kind # "disconnected",
         \A p \in ui'.pending : ~Answers(Head(queue), p.id)
  PROVE  Pending'
<1>1. \A p \in ui'.pending : p \in ui.pending
  OBVIOUS
<1>2. /\ \A s \in Range(queue) : s = Head(queue) \/ s \in Range(queue')
      /\ UNCHANGED <<worker_at, running, linked, up, down>>
  BY Taking DEF wires
<1> QED
  BY <1>1, <1>2 DEF ViewerInv, Pending, PendingIsAnswered, Answers

\* Nor to one that sends another, whose own answer is to come.
LEMMA OneMorePending ==
  ASSUME TypeOK, ViewerInv, queue # <<>>, Taken, ~IsEnding(Head(queue)), ui.worker # None,
         NEW u \in Windows, u.worker = ui.worker, u.pending \subseteq ui.pending,
         \A p \in u.pending : ~Answers(Head(queue), p.id),
         NEW op \in Ops, ui' = Note(u, ui.worker, op), Send(ui.worker, op)
  PROVE  Pending'
<1> USE DEF Nobody, Alive, Waiting
<1>1. ui.worker \in Workers /\ Head(queue).kind # "disconnected"
  BY Basics DEF IsEnding
<1>2. /\ Head(queue) \in Range(queue)
      /\ \A s \in Range(queue) : s = Head(queue) \/ s \in Range(queue')
  BY Taking
<1>3. UNCHANGED threads
  BY DEF Taken
<1>4. \A p \in u.pending : \A s \in Range(queue) :
        s.via = p.via /\ (Answers(s, p.id) \/ s.kind = "disconnected") => s \in Range(queue')
  BY <1>1, <1>2
<1>5. \/ worker_at[ui.worker] # "done"
      \/ \E s \in Range(queue') : s.via = ui.worker /\ s.kind = "disconnected"
  <2> SUFFICES ASSUME worker_at[ui.worker] = "done"
               PROVE  \E s \in Range(queue') : s.via = ui.worker /\ s.kind = "disconnected"
    OBVIOUS
  <2>1. Nobody
    BY <1>1 DEF ViewerInv, OneConnection
  <2>2. Waiting("disconnected")
    BY <1>2, <2>1 DEF ViewerInv, SignalOrder
  <2>3. \A s \in Range(queue) : s.via = ui.worker
    BY DEF ViewerInv, OneConnection
  <2> QED
    BY <1>1, <1>2, <2>2, <2>3
<1>6. Pending /\ Wiring
  BY DEF ViewerInv
<1> QED
  BY <1>1, <1>3, <1>4, <1>5, <1>6, NotedIsAnswered

LEMMA SlotSteps ==
  ASSUME TypeOK, ViewerInv, Slot
  PROVE  ViewerInv'
<1>1. queue # <<>> /\ Taken /\ ui \in Windows
  BY DEF Slot, OnConnecting, OnConnected, OnDisconnected, OnWorkerFinished, OnStatus, OnResult,
         Posted, TypeOK
<1>2. CASE OnConnecting
  <2>1. /\ Head(queue).kind = "connecting" /\ UNCHANGED wires
        /\ ui'.worker = ui.worker /\ ui'.pending = ui.pending
        /\ ~ui'.connected /\ ui'.attach = "connecting"
    BY <1>1, <1>2 DEF OnConnecting, Posted, Windows
  <2>2. ~IsEnding(Head(queue)) /\ \A id : ~Answers(Head(queue), id)
    BY <2>1 DEF IsEnding, Answers
  <2>3. OneConnection' /\ Wiring' /\ Forgotten' /\ SignalOrder' /\ Shown'
    BY <1>1, <2>1, <2>2, Noticing DEF wires
  <2>4. Pending'
    BY <1>1, <2>1, <2>2, StillPending
  <2> QED
    BY <2>3, <2>4 DEF ViewerInv
<1>3. CASE OnConnected
  <2>1. Head(queue).kind = "connected"
    BY <1>3 DEF OnConnected, Posted
  <2>2. ~IsEnding(Head(queue)) /\ \A id : ~Answers(Head(queue), id)
    BY <2>1 DEF IsEnding, Answers
  <2>3. PICK u \in Windows :
            /\ u.worker = ui.worker /\ u.connected /\ u.attach = "detach"
            /\ u.pending = ui.pending
            /\ \/ ui.worker = None /\ ui' = u /\ UNCHANGED wires
               \/ /\ ui.worker # None
                  /\ \E op \in Ops : ui' = Note(u, ui.worker, op) /\ Send(ui.worker, op)
    BY <1>3, SlotConnected
  <2>4. CASE ui.worker = None
    <3>1. ui' = u /\ UNCHANGED wires
      BY <2>3, <2>4
    <3>2. OneConnection' /\ Wiring' /\ Forgotten' /\ SignalOrder' /\ Shown'
      BY <1>1, <2>1, <2>2, <2>3, <3>1, Noticing DEF wires
    <3>3. Pending'
      BY <1>1, <2>1, <2>2, <2>3, <3>1, StillPending
    <3> QED
      BY <3>2, <3>3 DEF ViewerInv
  <2>5. CASE ui.worker # None
    <3>1. PICK op \in Ops : ui' = Note(u, ui.worker, op) /\ Send(ui.worker, op)
      BY <2>3, <2>5
    <3>2. ui.worker \in Workers
      BY <2>5, Basics
    <3>3. ui'.worker = ui.worker /\ ui'.connected = u.connected
      BY <2>3, <3>1, <3>2, Noted
    <3>4. UNCHANGED down
      BY <3>1 DEF Send
    <3>5. OneConnection' /\ Wiring' /\ Forgotten' /\ SignalOrder' /\ Shown'
      BY <1>1, <2>1, <2>2, <2>3, <3>3, <3>4, Noticing
    <3>6. Pending'
      BY <1>1, <2>2, <2>3, <2>5, <3>1, OneMorePending
    <3> QED
      BY <3>5, <3>6 DEF ViewerInv
  <2> QED
    BY <2>4, <2>5
<1>4. CASE OnDisconnected
  <2>1. PICK v \in Windows : v = Disconnected(ui) /\ v.worker = ui.worker /\ ~v.connected
                             /\ v.pending = {} /\ v.attach = "attach"
                             /\ (process = "none" => Startable(v))
    BY <1>1, WasDisconnected
  <2>2. ui' = v /\ Head(queue).kind = "disconnected" /\ UNCHANGED wires
    BY <1>4, <2>1 DEF OnDisconnected, Posted
  <2> QED
    BY <1>1, <2>1, <2>2, Closing DEF IsEnding
<1>5. CASE OnWorkerFinished
  <2>1. PICK v \in Windows : v = Disconnected(ui) /\ ~v.connected
                             /\ v.pending = {} /\ v.attach = "attach"
                             /\ (process = "none" => Startable(v))
    BY <1>1, WasDisconnected
  <2>2. /\ ui' = [v EXCEPT !.worker = None] /\ Head(queue).kind = "finished"
        /\ UNCHANGED wires
    BY <1>5, <2>1 DEF OnWorkerFinished, Posted
  <2>3. /\ ui'.worker = None /\ ~ui'.connected /\ ui'.pending = {} /\ ui'.attach = "attach"
        /\ (process = "none" => Startable(ui'))
    BY <2>1, <2>2 DEF Windows, Startable
  <2> QED
    BY <1>1, <2>2, <2>3, Closing DEF IsEnding
<1>6. CASE OnStatus
  <2>1. Head(queue).kind = "status" /\ UNCHANGED wires
    BY <1>6 DEF OnStatus, Posted
  <2>2. ~IsEnding(Head(queue)) /\ \A id : ~Answers(Head(queue), id)
    BY <2>1 DEF IsEnding, Answers
  <2>3. Head(queue).state \in EngineStates
    <3>1. Head(queue) \in Signals
      BY <1>1, TakenOne DEF TypeOK
    <3>2. ASSUME NEW s \in Signals, s.kind = "status"
          PROVE  s.state \in EngineStates
      BY <3>2 DEF Signals, Notices, Statuses, Replies
    <3> QED
      BY <2>1, <3>1, <3>2
  <2>4. Same(ui, ui')
    BY <1>1, <1>6, <2>3, StateApplied DEF OnStatus, Same
  <2>5. OneConnection' /\ Wiring' /\ Forgotten' /\ SignalOrder' /\ Shown'
    BY <1>1, <2>1, <2>2, <2>4, Noticing DEF wires, Same
  <2>6. Pending'
    BY <1>1, <2>1, <2>2, <2>4, StillPending DEF Same
  <2> QED
    BY <2>5, <2>6 DEF ViewerInv
<1>7. CASE OnResult
  <2>1. Head(queue).kind = "result"
    BY <1>7 DEF OnResult, Posted
  <2>2. ~IsEnding(Head(queue))
    BY <2>1 DEF IsEnding
  <2>3. \A p \in ui.pending \ Answered : p \in ui.pending /\ ~Answers(Head(queue), p.id)
    BY DEF Answered, Answers
  <2>4. CASE /\ ui'.worker = ui.worker /\ ui'.connected = ui.connected
             /\ ui'.pending = ui.pending \ Answered
             /\ UNCHANGED wires
    <3>1. OneConnection' /\ Wiring' /\ Forgotten' /\ SignalOrder' /\ Shown'
      BY <1>1, <2>1, <2>2, <2>4, Noticing DEF wires
    <3>2. Pending'
      BY <1>1, <2>1, <2>3, <2>4, StillPending
    <3> QED
      BY <3>1, <3>2 DEF ViewerInv
  <2>5. CASE /\ ui.worker # None
             /\ \E u \in Windows :
                   /\ u.worker = ui.worker /\ u.connected = ui.connected
                   /\ u.pending = ui.pending \ Answered
                   /\ ui' = Note(u, ui.worker, "start_capture")
             /\ Send(ui.worker, "start_capture")
    <3>1. PICK u \in Windows :
            /\ u.worker = ui.worker /\ u.connected = ui.connected
            /\ u.pending = ui.pending \ Answered
            /\ ui' = Note(u, ui.worker, "start_capture")
      BY <2>5
    <3>2. ui.worker \in Workers /\ "start_capture" \in Ops
      BY <2>5, Basics DEF Ops
    <3>3. ui'.worker = ui.worker /\ ui'.connected = ui.connected
      BY <3>1, <3>2, Noted
    <3>4. UNCHANGED down
      BY <2>5 DEF Send
    <3>5. OneConnection' /\ Wiring' /\ Forgotten' /\ SignalOrder' /\ Shown'
      BY <1>1, <2>1, <2>2, <3>3, <3>4, Noticing
    <3>6. u.pending \subseteq ui.pending /\ \A p \in u.pending : ~Answers(Head(queue), p.id)
      BY <2>3, <3>1
    <3>7. Pending'
      BY <1>1, <2>2, <2>5, <3>1, <3>2, <3>6, OneMorePending
    <3> QED
      BY <3>5, <3>7 DEF ViewerInv
  <2> QED
    BY <1>7, <2>4, <2>5, SlotResult
<1> QED
  BY <1>2, <1>3, <1>4, <1>5, <1>6, <1>7 DEF Slot

-----------------------------------------------------------------------------
(***************************************************************************)
(* The invariant and what it says                                          *)
(***************************************************************************)
LEMMA InvStutter ==
  ASSUME ViewerInv, UNCHANGED vars
  PROVE  ViewerInv'
<1> USE DEF vars, threads, wires, Nobody, Alive, Waiting
<1>1. OneConnection' /\ Wiring' /\ Forgotten'
  BY DEF ViewerInv, OneConnection, Wiring, Forgotten
<1>2. SignalOrder'
  BY DEF ViewerInv, SignalOrder
<1>3. Shown'
  BY DEF ViewerInv, Shown
<1>4. Pending'
  BY DEF ViewerInv, Pending, PendingIsAnswered, Answers
<1> QED
  BY <1>1, <1>2, <1>3, <1>4 DEF ViewerInv

LEMMA InvStep ==
  ASSUME Patient, TypeOK, ViewerInv, [Next]_vars
  PROVE  ViewerInv'
<1>1. CASE UNCHANGED vars
  BY <1>1, InvStutter
<1>2. ASSUME NEW w \in Workers, Worker(w) \/ LinkLost(w) \/ Handle(w)
      PROVE  ViewerInv'
  BY <1>2, Beginning, Syncing, Failing, LoopEnding, CleaningUp, Delivering, LosingLink, Handling
     DEF Worker
<1>3. CASE User \/ Process \/ Slot \/ OthersCommand
  BY <1>3, UserSteps, ProcessSteps, SlotSteps, OthersHandled
<1> QED
  BY <1>1, <1>2, <1>3 DEF Next

\* A user who asks for a connection when the last has ended, and for its end when
\* the button says Detach, has one connection at a time, whose signals come in order,
\* which the window knows unless it is ending, and which answers or forgets
\* what is pending.
THEOREM Invariant == Patient => (Spec => []ViewerInv)
<1> SUFFICES ASSUME Patient
             PROVE  Spec => []ViewerInv
  OBVIOUS
<1>1. Init => TypeOK /\ ViewerInv
  BY TypeInit, InvInit
<1>2. TypeOK /\ ViewerInv /\ [Next]_vars => (TypeOK /\ ViewerInv)'
  BY TypeStep, InvStep
<1> QED
  BY <1>1, <1>2, PTL DEF Spec

\* No command stays in the table of pending commands with nothing to take it
\* off: its line, its result or the end of its connection is under way.
THEOREM PendingAnswered == Patient => (Spec => []PendingIsAnswered)
<1> SUFFICES ASSUME Patient
             PROVE  Spec => []PendingIsAnswered
  OBVIOUS
<1>1. ViewerInv => PendingIsAnswered
  BY DEF ViewerInv, Pending
<1> QED
  BY <1>1, Invariant, PTL

\* When the engine process is gone and every signal has been handled, the user
\* can start again: on_disconnected() and on_capture_stopped() between them
\* have undone whatever was going on.
THEOREM StartIsBack == Patient => (Spec => []StartComesBack)
<1> SUFFICES ASSUME Patient
             PROVE  Spec => []StartComesBack
  OBVIOUS
<1>1. TypeOK /\ ViewerInv => StartComesBack
  <2> SUFFICES ASSUME TypeOK, ViewerInv, Quiet, process = "none"
               PROVE  /\ Startable(ui) /\ ui.attach = "attach"
                      /\ ui.worker = None /\ ui.pending = {}
    BY DEF StartComesBack, Startable
  <2>1. Range(queue) = {} /\ queue = <<>>
    BY Basics DEF Quiet
  <2>2. Nobody
    BY Basics DEF Quiet, Nobody, ViewerInv, Wiring
  <2> QED
    BY <2>1, <2>2 DEF ViewerInv, Shown, Waiting
<1> QED
  BY <1>1, Invariant, TypeCorrect, PTL

\* A connection that is up when everything has been handled is the one a patient
\* user's window shows: neither a slot nor the signal of an earlier worker took
\* it away.  The click that stops a worker before its thread has begun, which
\* run() does not notice (ipc_client.py:49), is the one that Patient leaves out.
THEOREM ConnectionOwned == Patient => (Spec => []ConnectionIsOwned)
<1> SUFFICES ASSUME Patient
             PROVE  Spec => []ConnectionIsOwned
  OBVIOUS
<1>1. TypeOK /\ ViewerInv => ConnectionIsOwned
  <2> SUFFICES ASSUME TypeOK, ViewerInv, Quiet, NEW w \in Workers, worker_at[w] = "live"
               PROVE  ui.connected /\ ui.worker = w
    BY DEF ConnectionIsOwned
  <2>1. Range(queue) = {}
    BY Basics DEF Quiet
  <2>2. ui.worker = w
    BY DEF Quiet, ViewerInv, Forgotten
  <2> QED
    BY <2>1, <2>2 DEF ViewerInv, Shown, Waiting
<1> QED
  BY <1>1, Invariant, TypeCorrect, PTL

-----------------------------------------------------------------------------
(***************************************************************************)
(* Lines in the order of their numbers, and what follows an answer         *)
(***************************************************************************)
LEMMA OrderAppended ==
  ASSUME NEW q \in Seq(Commands), NEW n \in Nat, InOrder(q, n), NEW c \in Commands, c.id = n + 1
  PROVE  InOrder(Append(q, c), n + 1)
<1>1. PICK r \in Seq(Commands) : r = Append(q, c)
  BY Appended, Zenon
<1>2. PICK at \in Nat : at = Len(q) + 1
  OBVIOUS
<1>3. /\ DOMAIN q = 1..Len(q) /\ Len(q) \in Nat /\ DOMAIN r = 1..at
      /\ r[at] = c /\ \A i \in DOMAIN q : r[i] = q[i]
  BY <1>1, <1>2
<1>4. DOMAIN r = DOMAIN q \cup {at} /\ \A i \in DOMAIN r : ~(at < i)
  BY <1>2, <1>3
<1>5. \A i \in DOMAIN q : q[i] \in Commands /\ q[i].id \in Nat /\ q[i].id <= n
  <2> TAKE i \in DOMAIN q
  <2>1. q[i] \in Commands
    BY <1>3
  <2>2. q[i].id \in Nat
    BY <2>1 DEF Commands
  <2>3. q[i].id <= n
    BY DEF InOrder, Range
  <2> QED
    BY <2>1, <2>2, <2>3
<1>6. \A i \in DOMAIN q : r[i].id < r[at].id /\ r[i].id <= n + 1
  <2> TAKE i \in DOMAIN q
  <2>1. q[i].id \in Nat /\ q[i].id <= n /\ r[i] = q[i] /\ r[at].id = n + 1
    BY <1>3, <1>5
  <2> QED
    BY <2>1
<1>7. \A i, j \in DOMAIN r : i < j => r[i].id < r[j].id
  <2> SUFFICES ASSUME NEW i \in DOMAIN r, NEW j \in DOMAIN r, i < j
               PROVE  r[i].id < r[j].id
    OBVIOUS
  <2>1. i \in DOMAIN q
    BY <1>2, <1>3, <1>4
  <2>2. CASE j = at
    BY <1>6, <2>1, <2>2
  <2>3. CASE j \in DOMAIN q
    BY <1>3, <2>1, <2>3 DEF InOrder
  <2> QED
    BY <1>4, <2>2, <2>3
<1>8. \A i \in DOMAIN r : r[i].id <= n + 1
  <2>1. r[at].id = n + 1 /\ n + 1 <= n + 1
    BY <1>3
  <2>2. \A i \in DOMAIN q : r[i].id <= n + 1
    BY <1>6
  <2> QED
    BY <1>4, <2>1, <2>2
<1>9. InOrder(r, n + 1)
  BY <1>7, <1>8 DEF InOrder, Range
<1> QED
  BY <1>1, <1>9

LEMMA OrderTail ==
  ASSUME NEW q \in Seq(Commands), q # <<>>, NEW n \in Nat, InOrder(q, n)
  PROVE  /\ InOrder(Tail(q), n)
         /\ Head(q) \in Range(q) /\ Range(Tail(q)) \subseteq Range(q)
         /\ \A c \in Range(Tail(q)) : Head(q).id < c.id
<1>1. Range(q) = Range(Tail(q)) \cup {Head(q)} /\ Tail(q) \in Seq(Commands)
  BY Popped
<1>2. PICK r \in Seq(Commands) : r = Tail(q)
  BY <1>1, Zenon
<1>3. PICK k \in Nat : k = Len(q) - 1 /\ DOMAIN r = 1..k /\ DOMAIN q = 1..(k + 1)
  BY <1>2
<1>4. PICK one \in DOMAIN q : one = 1 /\ Head(q) = q[one]
  BY <1>3
<1>5. ASSUME NEW i \in DOMAIN r
      PROVE  \E l \in DOMAIN q : l = i + 1 /\ r[i] = q[l] /\ one < l
  BY <1>2, <1>3, <1>4
<1>6. ASSUME NEW i \in DOMAIN r, NEW j \in DOMAIN r, i < j
      PROVE  r[i].id < r[j].id
  <2>1. PICK a \in DOMAIN q : a = i + 1 /\ r[i] = q[a]
    BY <1>5
  <2>2. PICK b \in DOMAIN q : b = j + 1 /\ r[j] = q[b]
    BY <1>5
  <2>3. a < b
    BY <1>3, <1>6, <2>1, <2>2
  <2>4. q[a].id < q[b].id
    BY <2>3 DEF InOrder
  <2> QED
    BY <2>1, <2>2, <2>4
<1>7. \A c \in Range(r) : Head(q).id < c.id
  <2> SUFFICES ASSUME NEW i \in DOMAIN r
               PROVE  Head(q).id < r[i].id
    BY DEF Range
  <2>1. PICK l \in DOMAIN q : r[i] = q[l] /\ one < l
    BY <1>5
  <2>2. q[one].id < q[l].id
    BY <2>1 DEF InOrder
  <2> QED
    BY <1>4, <2>1, <2>2
<1>8. InOrder(r, n)
  BY <1>1, <1>2, <1>6 DEF InOrder
<1> QED
  BY <1>1, <1>2, <1>7, <1>8

LEMMA OrderEmpty == \A n : InOrder(<<>>, n)
  BY NoneInEmpty DEF InOrder

LEMMA AfterAppended ==
  ASSUME NEW S, NEW q \in Seq(S), NEW m \in S, NEW id, AfterAnswer(q, id),
         AnswerIn(q, id) => Current(m)
  PROVE  AfterAnswer(Append(q, m), id)
<1>1. PICK r \in Seq(S) : r = Append(q, m)
  BY Appended, Zenon
<1>2. PICK at \in Nat : at = Len(q) + 1
  OBVIOUS
<1>3. /\ DOMAIN q = 1..Len(q) /\ Len(q) \in Nat /\ DOMAIN r = 1..at
      /\ r[at] = m /\ \A i \in DOMAIN q : r[i] = q[i]
  BY <1>1, <1>2
<1>4. /\ DOMAIN r = DOMAIN q \cup {at}
      /\ \A i, j \in DOMAIN r : i < j => i \in DOMAIN q
  BY <1>2, <1>3
<1>5. ASSUME NEW i \in DOMAIN r, NEW j \in DOMAIN r, i < j, Answers(r[i], id)
      PROVE  Current(r[j])
  <2>1. i \in DOMAIN q /\ r[i] = q[i]
    BY <1>3, <1>4, <1>5
  <2>2. CASE j = at
    <3>1. AnswerIn(q, id)
      BY <1>5, <2>1 DEF AnswerIn, Range
    <3> QED
      BY <1>3, <2>2, <3>1
  <2>3. CASE j \in DOMAIN q
    BY <1>3, <1>5, <2>1, <2>3 DEF AfterAnswer
  <2> QED
    BY <1>4, <2>2, <2>3
<1> QED
  BY <1>1, <1>5 DEF AfterAnswer

LEMMA AfterTail ==
  ASSUME NEW S, NEW q \in Seq(S), q # <<>>, NEW id, AfterAnswer(q, id)
  PROVE  AfterAnswer(Tail(q), id) /\ (Answers(Head(q), id) => AllCurrent(Tail(q)))
<1>1. PICK r \in Seq(S) : r = Tail(q)
  BY Popped, Zenon
<1>2. PICK k \in Nat : k = Len(q) - 1 /\ DOMAIN r = 1..k /\ DOMAIN q = 1..(k + 1)
  BY <1>1
<1>3. PICK one \in DOMAIN q : one = 1 /\ Head(q) = q[one]
  BY <1>2
<1>4. ASSUME NEW i \in DOMAIN r
      PROVE  \E l \in DOMAIN q : l = i + 1 /\ r[i] = q[l] /\ one < l
  BY <1>1, <1>2, <1>3
<1>5. ASSUME NEW i \in DOMAIN r, NEW j \in DOMAIN r, i < j, Answers(r[i], id)
      PROVE  Current(r[j])
  <2>1. PICK a \in DOMAIN q : a = i + 1 /\ r[i] = q[a]
    BY <1>4
  <2>2. PICK b \in DOMAIN q : b = j + 1 /\ r[j] = q[b]
    BY <1>4
  <2>3. a < b
    BY <1>2, <1>5, <2>1, <2>2
  <2>4. Current(q[b])
    BY <1>5, <2>1, <2>3 DEF AfterAnswer
  <2> QED
    BY <2>2, <2>4
<1>6. ASSUME Answers(Head(q), id), NEW i \in DOMAIN r
      PROVE  Current(r[i])
  <2>1. PICK l \in DOMAIN q : r[i] = q[l] /\ one < l
    BY <1>4
  <2>2. Current(q[l])
    BY <1>3, <1>6, <2>1 DEF AfterAnswer
  <2> QED
    BY <2>1, <2>2
<1> QED
  BY <1>1, <1>5, <1>6 DEF AfterAnswer, AllCurrent, Range

LEMMA AfterNone ==
  ASSUME NEW q, NEW id, ~AnswerIn(q, id)
  PROVE  AfterAnswer(q, id)
  BY DEF AfterAnswer, AnswerIn, Range

LEMMA AfterEmpty == /\ \A id : AfterAnswer(<<>>, id) /\ ~AnswerIn(<<>>, id)
                    /\ AllCurrent(<<>>)
  BY NoneInEmpty, AfterNone DEF AnswerIn, AllCurrent

-----------------------------------------------------------------------------
(***************************************************************************)
(* The window's commands: what a step keeps                                *)
(***************************************************************************)
LEMMA WindowOnly ==
  ASSUME TypeOK, ViewerInv
  PROVE  /\ ui \in Windows
         /\ \A p \in ui.pending :
               p.via = ui.worker /\ p.via \in Workers /\ p.id \in Nat /\ p.intent \in Ops
         /\ ui.worker # None => ui.worker \in Workers
         /\ ui.pending # {} => ui.worker # None
         /\ ui.worker # None =>
               /\ \A w \in Workers : down[w] # <<>> => w = ui.worker
               /\ \A s \in Range(queue) : s.via = ui.worker
<1>1. ui \in Windows /\ (ui.worker # None => ui.worker \in Workers)
  BY Basics DEF TypeOK
<1>2. \A p \in ui.pending : p.via = ui.worker /\ p.via \in Workers /\ p.id \in Nat /\ p.intent \in Ops
  BY <1>1 DEF Windows, ViewerInv, Pending
<1>3. \A w \in Workers : down[w] # <<>> => Alive(w)
  BY Basics DEF ViewerInv, Wiring
<1>4. \A w \in Workers : w # None
  BY Basics
<1>5. ui.worker # None =>
        /\ \A w \in Workers : down[w] # <<>> => w = ui.worker
        /\ \A s \in Range(queue) : s.via = ui.worker
  BY <1>3 DEF ViewerInv, OneConnection
<1> QED
  BY <1>1, <1>2, <1>4, <1>5

LEMMA WiresTyped ==
  ASSUME TypeOK
  PROVE  \A w \in Workers :
            up[w] \in Seq(Commands) /\ ids[w] \in Nat /\ down[w] \in Seq(Statuses \cup Replies)
  BY DEF TypeOK, WiresOK

LEMMA ResultTyped ==
  ASSUME TypeOK, NEW w \in Workers, NEW m \in Results(w)
  PROVE  m \in Replies
<1>1. m \in Statuses \cup Replies \/ m \in Signals
  BY DEF Results, TypeOK, WiresOK, Range
<1>2. m.kind = "result"
  BY DEF Results
<1>3. \A x \in Notices \cup Statuses : x.kind # "result"
  BY DEF Notices, Statuses
<1> QED
  BY <1>1, <1>2, <1>3 DEF Signals

LEMMA NumbersKept ==
  ASSUME TypeOK, ViewerInv, Numbered, Matched, ids' = ids, ui'.pending \subseteq ui.pending,
         \A w \in Workers : up'[w] = up[w] \/ up'[w] = <<>>,
         \A w \in Workers : Results(w)' \subseteq Results(w)
  PROVE  Numbered' /\ Matched'
<1>1. \A w \in Workers : Range(up'[w]) \subseteq Range(up[w])
  BY NoneInEmpty
<1>2. \A p \in ui'.pending : p \in ui.pending /\ p.via \in Workers
  BY WindowOnly
<1>3. \A w \in Workers : InOrder(up'[w], ids[w])
  BY OrderEmpty DEF Numbered
<1>4. Numbered'
  <2>1. \A p \in ui'.pending : p.id <= ids'[p.via]
    BY <1>2 DEF Numbered
  <2>2. \A p, q \in ui'.pending : p.id = q.id => p = q
    BY <1>2 DEF Numbered
  <2>3. \A w \in Workers : \A m \in Results(w)' : m.id <= ids'[w] /\ \A c \in Range(up'[w]) : m.id < c.id
    BY <1>1 DEF Numbered
  <2>4. \A w \in Workers : InOrder(up'[w], ids'[w])
    BY <1>3
  <2> QED
    BY <2>1, <2>2, <2>3, <2>4 DEF Numbered, InOrder
<1>5. Matched'
  BY <1>1, <1>2 DEF Matched
<1> QED
  BY <1>4, <1>5

Line(w, op) == [id |-> ids[w] + 1, op |-> op]

LEMMA LineSent ==
  ASSUME TypeOK, NEW w \in Workers, NEW op \in Ops, Send(w, op)
  PROVE  /\ Line(w, op) \in Commands /\ Line(w, op).id = ids[w] + 1 /\ Line(w, op).op = op
         /\ ids' = [ids EXCEPT ![w] = @ + 1] /\ ids'[w] = ids[w] + 1
         /\ \A v \in Workers : v # w => ids'[v] = ids[v] /\ up'[v] = up[v]
         /\ up'[w] = up[w] \/ (linked[w] /\ up'[w] = Append(up[w], Line(w, op)))
         /\ UNCHANGED down
<1>1. Line(w, op) \in Commands /\ Line(w, op).id = ids[w] + 1 /\ Line(w, op).op = op
  BY DEF TypeOK, WiresOK, Commands, Line
<1>2. up' = up \/ (linked[w] /\ up' = [up EXCEPT ![w] = Append(@, Line(w, op))])
  BY DEF Send, Line
<1>3. ids' = [ids EXCEPT ![w] = @ + 1] /\ UNCHANGED down
  BY DEF Send
<1> QED
  BY <1>1, <1>2, <1>3 DEF TypeOK, WiresOK

\* A command that the window notes and sends has a number of its own.
LEMMA NumbersNoted ==
  ASSUME TypeOK, ViewerInv, Numbered, Matched, NEW w \in Workers, w = ui.worker, NEW op \in Ops,
         NEW P, P \subseteq ui.pending,
         ui'.pending = {p \in P : p.id # ids[w] + 1} \cup {Entry(w, op)}, Send(w, op),
         \A v \in Workers : Results(v)' \subseteq Results(v)
  PROVE  /\ Numbered' /\ Matched'
         /\ ui'.pending = P \cup {Entry(w, op)}
         /\ \A v \in Workers : \A c \in Range(up'[v]) : c \in Range(up[v]) \/ (v = w /\ c = Line(w, op))
         /\ \A m \in Results(w)' : m.id # ids[w] + 1
<1>1. PICK e : e = Entry(w, op)
  OBVIOUS
<1>2. e.id = ids[w] + 1 /\ e.intent = op /\ e.via = w
  BY <1>1 DEF Entry
<1>3. PICK n \in Nat : n = ids[w]
  BY WiresTyped
<1>4. PICK l \in Commands : l = Line(w, op) /\ l.id = n + 1 /\ l.op = op
  BY <1>3, LineSent
<1>5. \A p \in ui.pending : p.id \in Nat /\ p.id <= n /\ p.via = w
  BY <1>3, WindowOnly DEF Numbered
<1>6. \A p \in ui.pending : p.id # n + 1
  BY <1>5
<1>7. ui'.pending = P \cup {e}
  BY <1>1, <1>3, <1>6
<1>8. \A v \in Workers : \A c \in Range(up'[v]) : c \in Range(up[v]) \/ (v = w /\ c = l)
  <2>1. up[w] \in Seq(Commands)
    BY WiresTyped
  <2>2. Range(Append(up[w], l)) = Range(up[w]) \cup {l}
    BY <2>1, Appended
  <2>3. /\ \A v \in Workers : v # w => up'[v] = up[v]
        /\ up'[w] = up[w] \/ up'[w] = Append(up[w], l)
    BY <1>4, LineSent
  <2> QED
    BY <2>2, <2>3
<1>9. \A v \in Workers : \A m \in Results(v)' : m \in Results(v) /\ m.id \in Nat /\ m.id <= ids[v]
  <2> SUFFICES ASSUME NEW v \in Workers, NEW m \in Results(v)'
               PROVE  m \in Results(v) /\ m.id \in Nat /\ m.id <= ids[v]
    OBVIOUS
  <2>1. m \in Results(v)
    OBVIOUS
  <2>2. m \in Replies
    BY <2>1, ResultTyped
  <2> QED
    BY <2>1, <2>2 DEF Numbered, Replies
<1>10. \A c \in Range(up[w]) : c \in Commands /\ c.id \in Nat /\ c.id <= n
  <2>1. \A c \in Range(up[w]) : c \in Commands
    BY WiresTyped DEF Range
  <2>2. \A c \in Range(up[w]) : c.id <= n
    BY <1>3 DEF Numbered, InOrder
  <2> QED
    BY <2>1, <2>2 DEF Commands
<1>11. /\ ids'[w] = n + 1
       /\ \A v \in Workers : v # w => ids'[v] = ids[v] /\ up'[v] = up[v]
       /\ up'[w] = up[w] \/ up'[w] = Append(up[w], l)
  BY <1>3, <1>4, LineSent
<1>12. \A v \in Workers : InOrder(up'[v], ids'[v])
  <2>1. InOrder(up[w], n) /\ \A v \in Workers : InOrder(up[v], ids[v])
    BY <1>3 DEF Numbered
  <2>2. InOrder(up[w], n + 1)
    <3>1. \A c \in Range(up[w]) : c.id <= n + 1
      BY <1>10
    <3> QED
      BY <2>1, <3>1 DEF InOrder
  <2>3. InOrder(Append(up[w], l), n + 1)
    BY <1>4, <2>1, OrderAppended, WiresTyped
  <2> QED
    BY <1>11, <2>1, <2>2, <2>3
<1>13. \A v \in Workers : \A m \in Results(v)' : m.id <= ids'[v] /\ \A c \in Range(up'[v]) : m.id < c.id
  <2> SUFFICES ASSUME NEW v \in Workers, NEW m \in Results(v)'
               PROVE  m.id <= ids'[v] /\ \A c \in Range(up'[v]) : m.id < c.id
    OBVIOUS
  <2>1. m.id \in Nat /\ m.id <= ids[v] /\ \A c \in Range(up[v]) : m.id < c.id
    BY <1>9 DEF Numbered
  <2>2. CASE v # w
    BY <1>11, <2>1, <2>2
  <2>3. CASE v = w
    <3>1. m.id <= n
      BY <1>3, <2>1, <2>3
    <3>2. m.id <= n + 1 /\ m.id < n + 1
      BY <2>1, <3>1
    <3> QED
      BY <1>4, <1>8, <1>11, <2>1, <2>3, <3>2
  <2> QED
    BY <2>2, <2>3
<1>14. \A m \in Results(w)' : m.id # n + 1
  <2> TAKE m \in Results(w)'
  <2>1. m.id \in Nat /\ m.id <= n
    BY <1>3, <1>9
  <2> QED
    BY <2>1
<1>15. Numbered'
  <2>1. \A p \in ui'.pending : p.id <= ids'[p.via]
    <3>1. \A p \in ui.pending : p.id <= n + 1
      BY <1>5
    <3> QED
      BY <1>2, <1>3, <1>5, <1>7, <1>11, <3>1
  <2>2. \A p, q \in ui'.pending : p.id = q.id => p = q
    BY <1>2, <1>3, <1>6, <1>7 DEF Numbered
  <2> QED
    BY <1>12, <1>13, <2>1, <2>2 DEF Numbered, InOrder
<1>16. Matched'
  <2>1. \A p \in ui'.pending : \A c \in Range(up'[p.via]) : c.id = p.id => c.op = p.intent
    <3> SUFFICES ASSUME NEW p \in ui'.pending, NEW c \in Range(up'[p.via]), c.id = p.id
                 PROVE  c.op = p.intent
      OBVIOUS
    <3>1. p.via = w /\ (p = e \/ p \in ui.pending)
      BY <1>2, <1>5, <1>7
    <3>2. c \in Range(up[w]) \/ c = l
      BY <1>8, <3>1
    <3>3. CASE p = e
      <4>1. ~(c \in Range(up[w]))
        <5>1. c.id = n + 1
          BY <1>2, <1>3, <3>3
        <5> QED
          BY <1>10, <5>1
      <4> QED
        BY <1>2, <1>4, <3>2, <3>3, <4>1
    <3>4. CASE p \in ui.pending
      <4>1. c # l
        BY <1>4, <1>6, <3>4
      <4> QED
        BY <3>1, <3>2, <3>4, <4>1 DEF Matched
    <3> QED
      BY <3>1, <3>3, <3>4
  <2>2. \A p \in ui'.pending : \A m \in Results(p.via)' : m.id = p.id => m.op = p.intent
    <3> SUFFICES ASSUME NEW p \in ui'.pending, NEW m \in Results(p.via)', m.id = p.id
                 PROVE  m.op = p.intent
      OBVIOUS
    <3>1. p.via = w /\ (p = e \/ p \in ui.pending)
      BY <1>2, <1>5, <1>7
    <3>2. p # e
      BY <1>2, <1>3, <1>14, <3>1
    <3> QED
      BY <1>9, <3>1, <3>2 DEF Matched
  <2>3. \A v \in Workers : \A m \in Results(v)' : m.op = "stop_capture" => m.state = "idle"
    BY <1>9 DEF Matched
  <2> QED
    BY <2>1, <2>2, <2>3 DEF Matched
<1> QED
  BY <1>1, <1>3, <1>4, <1>7, <1>8, <1>14, <1>15, <1>16

-----------------------------------------------------------------------------
(***************************************************************************)
(* The start under way, the engine meanwhile, and what is still to come    *)
(***************************************************************************)
LEMMA StartKept ==
  ASSUME OneStart, Starts' \subseteq Starts,
         \A w \in Workers : StartLines(w)' \subseteq StartLines(w),
         ui'.starting = ui.starting, ui'.config => ui.config,
         process' # "none" /\ ui'.config => ui'.starting
  PROVE  OneStart'
<1>1. \A p, q \in Starts' : p = q
  BY DEF OneStart
<1>2. Starts' # {} => ui'.starting /\ ~ui'.config
  BY DEF OneStart
<1>3. \A w \in Workers : \A c \in StartLines(w)' :
          /\ ui'.starting /\ ~ui'.config
          /\ \A p \in Starts' : p.via = w /\ p.id = c.id
          /\ \A v \in Workers : \A d \in StartLines(v)' : v = w /\ d = c
  BY DEF OneStart
<1> QED
  BY <1>1, <1>2, <1>3, Zenon DEF OneStart

LEMMA StartOver ==
  ASSUME Starts' = {}, \A w \in Workers : StartLines(w)' = {},
         process' # "none" /\ ui'.config => ui'.starting
  PROVE  OneStart'
  BY DEF OneStart

LEMMA StartBegun ==
  ASSUME NEW w \in Workers, NEW e, NEW c, Starts' \subseteq {e}, e.via = w, c.id = e.id,
         \A v \in Workers : \A d \in StartLines(v)' : v = w /\ d = c,
         ui'.starting, ~ui'.config
  PROVE  OneStart'
<1>1. \A p \in Starts' : p = e
  OBVIOUS
<1>2. \A v \in Workers : \A d \in StartLines(v)' :
          /\ \A p \in Starts' : p.via = v /\ p.id = d.id
          /\ \A x \in Workers : \A y \in StartLines(x)' : x = v /\ y = d
  BY <1>1
<1> QED
  BY <1>1, <1>2 DEF OneStart

LEMMA IdleKept ==
  ASSUME IdleForStart, engine' = engine, Starts' \subseteq Starts,
         \A w \in Workers : StartLines(w)' \subseteq StartLines(w),
         \A p \in Starts : Results(p.via)' \subseteq Results(p.via),
         ui'.config /\ ui'.starting => ui.config /\ ui.starting,
         ui'.start => ui.start \/ engine.shared \/ ~engine.capturing
  PROVE  IdleForStart'
<1> SUFFICES ASSUME ~engine.shared
             PROVE  /\ (\E w \in Workers : StartLines(w)' # {}) => ~engine.capturing
                    /\ ui'.config /\ ui'.starting => ~engine.capturing
                    /\ \A p \in Starts' : p.intent = "configure" => ~engine.capturing
                    /\ \A p \in Starts' : \A m \in Results(p.via)' :
                          m.id = p.id /\ ~m.ok => ~engine.capturing
                    /\ ui'.start => ~engine.capturing
  BY DEF IdleForStart
<1>1. (\E w \in Workers : StartLines(w)' # {}) => ~engine.capturing
  BY DEF IdleForStart
<1>2. \A p \in Starts' : p.intent = "configure" => ~engine.capturing
  BY DEF IdleForStart
<1>3. \A p \in Starts' : \A m \in Results(p.via)' :
          m.id = p.id /\ ~m.ok => ~engine.capturing
  BY DEF IdleForStart
<1> QED
  BY <1>1, <1>2, <1>3 DEF IdleForStart

LEMMA IdleBegun ==
  ASSUME ~engine'.shared => ~engine'.capturing,
         ~engine'.shared => \A p \in Starts' : \A m \in Results(p.via)' : m.id # p.id
  PROVE  IdleForStart'
  BY DEF IdleForStart

LEMMA NoneStale ==
  ASSUME ~engine'.shared => ~engine'.capturing
  PROVE  NothingStale'
  BY DEF NothingStale

\* What r brings to the window, after q.
NoNews(q, r) ==
  /\ \A id : AfterAnswer(q, id) => AfterAnswer(r, id)
  /\ \A id : AnswerIn(r, id) => AnswerIn(q, id)
  /\ AllCurrent(q) => AllCurrent(r)

LEMMA NoNewsOfOne ==
  ASSUME NEW q \in Seq(Signals), NEW s \in Signals, s.kind \notin {"status", "result"}
  PROVE  NoNews(q, q \o <<s>>)
<1>1. q \o <<s>> = Append(q, s) /\ Range(Append(q, s)) = Range(q) \cup {s}
  BY Appended
<1>2. Current(s) /\ \A id : ~Answers(s, id)
  BY DEF Current, Answers
<1>3. \A id : AfterAnswer(q, id) => AfterAnswer(Append(q, s), id)
  BY <1>2, AfterAppended
<1>4. \A id : AnswerIn(Append(q, s), id) => AnswerIn(q, id)
  BY <1>1, <1>2 DEF AnswerIn
<1>5. AllCurrent(q) => AllCurrent(Append(q, s))
  BY <1>1, <1>2 DEF AllCurrent
<1> QED
  BY <1>1, <1>3, <1>4, <1>5, Zenon DEF NoNews

LEMMA PairAppended ==
  ASSUME NEW S, NEW d \in S, NEW f \in S
  PROVE  Append(<<d>>, f) = <<d, f>>
<1>1. <<d>> \in Seq(S) /\ <<d, f>> \in Seq(S)
  OBVIOUS
<1>2. Len(<<d>>) = 1 /\ Len(<<d, f>>) = 2
  OBVIOUS
<1>3. Append(<<d>>, f) \in Seq(S) /\ Len(Append(<<d>>, f)) = 2
  BY <1>1, <1>2, AppendProperties
<1>4. \A i \in 1..2 : Append(<<d>>, f)[i] = <<d, f>>[i]
  <2>1. Append(<<d>>, f)[1] = d /\ Append(<<d>>, f)[2] = f
    BY <1>1, <1>2, AppendProperties
  <2>2. <<d, f>>[1] = d /\ <<d, f>>[2] = f
    OBVIOUS
  <2> QED
    BY <2>1, <2>2
<1> QED
  BY <1>1, <1>2, <1>3, <1>4, SeqEqual

LEMMA NoNewsOfEnd ==
  ASSUME NEW q \in Seq(Signals), NEW w \in Workers
  PROVE  NoNews(q, q \o Ended(w))
<1> DEFINE d == Signal(w, "disconnected")
           f == Signal(w, "finished")
<1>1. d \in Signals /\ f \in Signals /\ d.kind = "disconnected" /\ f.kind = "finished"
  BY DEF Signal, Signals, Notices
<1>2. Ended(w) = <<d, f>>
  BY DEF Ended
<1> HIDE DEF d, f
<1>3. PICK r \in Seq(Signals) : r = q \o <<d>>
  <2>1. q \o <<d>> \in Seq(Signals)
    BY <1>1, PostedOne
  <2> QED
    BY <2>1, Zenon
<1>4. r \o <<f>> = q \o Ended(w)
  <2>1. <<d>> \in Seq(Signals) /\ <<f>> \in Seq(Signals) /\ <<d>> \o <<f>> = <<d, f>>
    <3>1. <<d>> \in Seq(Signals) /\ <<f>> \in Seq(Signals)
      BY <1>1
    <3>2. <<d>> \o <<f>> = Append(<<d>>, f)
      BY <1>1, <3>1, Appended
    <3>3. Append(<<d>>, f) = <<d, f>>
      BY <1>1, PairAppended
    <3> QED
      BY <3>1, <3>2, <3>3, Zenon
  <2>2. (q \o <<d>>) \o <<f>> = q \o (<<d>> \o <<f>>)
    BY <2>1, ConcatAssociative
  <2> QED
    BY <1>2, <1>3, <2>1, <2>2, Zenon
<1>5. NoNews(q, r) /\ NoNews(r, r \o <<f>>)
  BY <1>1, <1>3, NoNewsOfOne
<1>6. NoNews(q, r \o <<f>>)
  BY <1>5, Zenon DEF NoNews
<1> QED
  BY <1>4, <1>6

LEMMA NoNewsOfNone ==
  ASSUME NEW q \in Seq(Signals)
  PROVE  NoNews(q, q) /\ (q # <<>> => NoNews(q, Tail(q)))
<1>1. NoNews(q, q)
  BY DEF NoNews
<1>2. ASSUME q # <<>>
      PROVE  NoNews(q, Tail(q))
  <2>1. Range(Tail(q)) \subseteq Range(q)
    BY <1>2, Popped
  <2>2. \A id : AfterAnswer(q, id) => AfterAnswer(Tail(q), id)
    BY <1>2, AfterTail
  <2>3. \A id : AnswerIn(Tail(q), id) => AnswerIn(q, id)
    BY <2>1 DEF AnswerIn
  <2>4. AllCurrent(q) => AllCurrent(Tail(q))
    BY <2>1 DEF AllCurrent
  <2> QED
    BY <2>2, <2>3, <2>4, Zenon DEF NoNews
<1> QED
  BY <1>1, <1>2

LEMMA StaleKept ==
  ASSUME TypeOK, ViewerInv, NothingStale, engine' = engine, ~ui'.starting => ~ui.starting,
         Starts' \subseteq Starts, NoNews(queue, queue'),
         \A w \in Workers : down'[w] = down[w] \/ down'[w] = <<>>
  PROVE  NothingStale'
<1> SUFFICES ASSUME ~engine.shared, engine.capturing
             PROVE  /\ ~ui'.starting => AllCurrent(queue') /\ \A w \in Workers : AllCurrent(down'[w])
                    /\ \A p \in Starts' : p.intent = "start_capture" =>
                          /\ AfterAnswer(queue', p.id) /\ AfterAnswer(down'[p.via], p.id)
                          /\ AnswerIn(queue', p.id) => AllCurrent(down'[p.via])
  BY DEF NothingStale, AllCurrent, AfterAnswer, AnswerIn, Current, Answers
<1>1. \A w \in Workers : AllCurrent(down[w]) => AllCurrent(down'[w])
  BY AfterEmpty
<1>2. \A w \in Workers : \A id : AfterAnswer(down[w], id) => AfterAnswer(down'[w], id)
  BY AfterEmpty
<1>3. \A p \in Starts : p.via \in Workers
  BY WindowOnly DEF Starts
<1>4. ~ui'.starting => AllCurrent(queue') /\ \A w \in Workers : AllCurrent(down'[w])
  BY <1>1 DEF NothingStale, NoNews
<1>5. ASSUME NEW p \in Starts', p.intent = "start_capture"
      PROVE  /\ AfterAnswer(queue', p.id) /\ AfterAnswer(down'[p.via], p.id)
             /\ AnswerIn(queue', p.id) => AllCurrent(down'[p.via])
  <2>1. p \in Starts /\ p.via \in Workers
    BY <1>3
  <2>2. /\ AfterAnswer(queue, p.id) /\ AfterAnswer(down[p.via], p.id)
        /\ AnswerIn(queue, p.id) => AllCurrent(down[p.via])
    BY <1>5, <2>1 DEF NothingStale
  <2> QED
    BY <1>1, <1>2, <2>1, <2>2 DEF NoNews
<1> QED
  BY <1>4, <1>5

LEMMA StartsOf ==
  ASSUME ui'.pending \subseteq ui.pending
  PROVE  Starts' \subseteq Starts
  BY DEF Starts

LEMMA LinesKept ==
  ASSUME NEW w \in Workers, up'[w] = up[w] \/ up'[w] = <<>>
  PROVE  StartLines(w)' \subseteq StartLines(w)
<1>1. Range(up'[w]) \subseteq Range(up[w])
  BY NoneInEmpty
<1> QED
  BY <1>1 DEF StartLines

LEMMA ResultsKept ==
  ASSUME NEW w \in Workers, down'[w] = down[w] \/ down'[w] = <<>>,
         \A s \in Range(queue') : s.kind = "result" => s \in Range(queue)
  PROVE  Results(w)' \subseteq Results(w)
<1>1. Range(down'[w]) \subseteq Range(down[w])
  BY NoneInEmpty
<1> QED
  BY <1>1 DEF Results

\* A step of a worker that tells the window nothing of the engine.
LEMMA WorkerOnly ==
  ASSUME TypeOK, ViewerInv, ControlsInv, UNCHANGED <<ui, process, engine, ids>>,
         \A w \in Workers : up'[w] = up[w] \/ up'[w] = <<>>,
         \A w \in Workers : down'[w] = down[w] \/ down'[w] = <<>>,
         NoNews(queue, queue'),
         \A s \in Range(queue') : s.kind = "result" => s \in Range(queue),
         \A s \in Range(queue') : s.kind = "connected" => s \in Range(queue) \/ process # "none"
  PROVE  ControlsInv'
<1>1. EngineGone /\ Numbered /\ Matched /\ OneStart /\ Buttons /\ IdleForStart /\ NothingStale
  BY DEF ControlsInv
<1>2. \A w \in Workers : Results(w)' \subseteq Results(w)
  BY ResultsKept
<1>3. \A w \in Workers : StartLines(w)' \subseteq StartLines(w)
  BY LinesKept
<1>4. Starts' = Starts
  BY DEF Starts
<1>5. EngineGone'
  BY <1>1 DEF EngineGone, Waiting, Off
<1>6. Numbered' /\ Matched'
  BY <1>1, <1>2, NumbersKept
<1>7. OneStart'
  <2>1. process # "none" /\ ui.config => ui.starting
    BY <1>1 DEF OneStart
  <2> QED
    BY <1>1, <1>3, <1>4, <2>1, StartKept
<1>8. Buttons'
  BY <1>1 DEF Buttons, Connected
<1>9. IdleForStart'
  <2>1. \A p \in Starts : Results(p.via)' \subseteq Results(p.via)
    BY <1>2, WindowOnly DEF Starts
  <2> QED
    BY <1>1, <1>3, <1>4, <2>1, IdleKept
<1>10. NothingStale'
  BY <1>1, <1>4, StaleKept
<1> QED
  BY <1>5, <1>6, <1>7, <1>8, <1>9, <1>10 DEF ControlsInv

LEMMA WorkerControls ==
  ASSUME TypeOK, ViewerInv, ControlsInv, NEW w \in Workers,
         \/ BeginRun(w) \/ StartSync(w) \/ StartSyncFails(w) \/ LoopEnds(w) \/ Cleanup(w) \/ LinkLost(w)
  PROVE  ControlsInv'
<1> USE DEF Outside, threads, wires
<1>1. queue \in Seq(Signals) /\ NoNews(queue, queue)
  BY NoNewsOfNone DEF TypeOK
<1>2. ASSUME NEW kind \in {"connecting", "connected"}, Post(<<Signal(w, kind)>>)
      PROVE  /\ NoNews(queue, queue') /\ Range(queue') = Range(queue) \cup {Signal(w, kind)}
             /\ Signal(w, kind).kind = kind
  <2>1. PICK s \in Signals : s = Signal(w, kind) /\ s.kind = kind
    BY SignalsOf
  <2>2. NoNews(queue, queue \o <<s>>)
    BY <1>1, <2>1, NoNewsOfOne
  <2>3. Range(queue \o <<s>>) = Range(queue) \cup {s}
    BY <1>1, PostedOne
  <2>4. queue' = queue \o <<s>>
    BY <1>2, <2>1 DEF Post
  <2> QED
    BY <2>1, <2>2, <2>3, <2>4, Zenon
<1>3. ASSUME Post(Ended(w))
      PROVE  /\ NoNews(queue, queue')
             /\ Range(queue') = Range(queue) \cup {Signal(w, "disconnected"), Signal(w, "finished")}
             /\ Signal(w, "disconnected").kind = "disconnected"
             /\ Signal(w, "finished").kind = "finished"
  <2>1. queue' = queue \o Ended(w)
    BY <1>3 DEF Post
  <2>2. NoNews(queue, queue \o Ended(w))
    BY <1>1, NoNewsOfEnd
  <2>3. Range(queue \o Ended(w)) = Range(queue) \cup {Signal(w, "disconnected"), Signal(w, "finished")}
    BY <1>1, PostedEnd
  <2>4. Signal(w, "disconnected").kind = "disconnected" /\ Signal(w, "finished").kind = "finished"
    BY DEF Signal
  <2> QED
    BY <2>1, <2>2, <2>3, <2>4, Zenon
<1>4. CASE BeginRun(w)
  <2>1. Post(<<Signal(w, "connecting")>>) /\ UNCHANGED <<ui, process, engine, ids, up, down>>
    BY <1>4 DEF BeginRun
  <2> QED
    BY <1>2, <2>1, WorkerOnly
<1>5. CASE StartSync(w)
  <2>1. /\ Post(<<Signal(w, "connected")>>) /\ UNCHANGED <<ui, process, engine, ids, up, down>>
        /\ engine.up
    BY <1>5 DEF StartSync
  <2>2. process # "none"
    BY <2>1 DEF ViewerInv, Wiring
  <2> QED
    BY <1>2, <2>1, <2>2, WorkerOnly
<1>6. CASE StartSyncFails(w)
  <2>1. Post(Ended(w)) /\ UNCHANGED <<ui, process, engine, ids, up, down>>
    BY <1>6 DEF StartSyncFails
  <2> QED
    BY <1>3, <2>1, WorkerOnly
<1>7. CASE LoopEnds(w) \/ LinkLost(w)
  <2>1. UNCHANGED <<ui, process, engine, ids, up, down, queue>>
    BY <1>7 DEF LoopEnds, LinkLost
  <2> QED
    BY <1>1, <2>1, WorkerOnly
<1>8. CASE Cleanup(w)
  <2>1. Post(Ended(w)) /\ UNCHANGED <<ui, process, engine, ids>>
    BY <1>8 DEF Cleanup, CloseClient
  <2>2. /\ \A v \in Workers : up'[v] = up[v] \/ up'[v] = <<>>
        /\ \A v \in Workers : down'[v] = down[v] \/ down'[v] = <<>>
    BY <1>8 DEF Cleanup, CloseClient, TypeOK, WiresOK
  <2> QED
    BY <1>3, <2>1, <2>2, WorkerOnly
<1> QED
  BY <1>4, <1>5, <1>6, <1>7, <1>8

LEMMA DeliverControls ==
  ASSUME TypeOK, ViewerInv, ControlsInv, NEW w \in Workers, Deliver(w)
  PROVE  ControlsInv'
<1> DEFINE Lines == Statuses \cup Replies
<1>1. EngineGone /\ Numbered /\ Matched /\ OneStart /\ Buttons /\ IdleForStart /\ NothingStale
  BY DEF ControlsInv
<1>2. /\ down[w] \in Seq(Lines) /\ down[w] # <<>> /\ UNCHANGED <<ui, process, engine, ids, up>>
      /\ \A v \in Workers : down'[v] = IF v = w THEN Tail(down[w]) ELSE down[v]
  BY DEF Deliver, Outside, TypeOK, WiresOK
<1>3. PICK m \in Lines : m = Head(down[w]) /\ Range(down[w]) = Range(Tail(down[w])) \cup {m}
  BY <1>2, Popped
<1>4. m \in Signals /\ m.kind \in {"status", "result"}
  BY DEF Signals, Statuses, Replies
<1>5. m.via = w
  BY <1>3 DEF ViewerInv, Wiring
<1>6. /\ queue \in Seq(Signals) /\ queue' = queue \o <<m>> /\ queue' = Append(queue, m)
      /\ Range(queue') = Range(queue) \cup {m}
  <2>1. queue \in Seq(Signals) /\ queue' = queue \o <<m>>
    BY <1>3 DEF Deliver, Post, TypeOK
  <2>2. queue \o <<m>> = Append(queue, m) /\ Range(Append(queue, m)) = Range(queue) \cup {m}
    BY <1>4, <2>1, Appended
  <2> QED
    BY <2>1, <2>2, Zenon
<1>7. \A v \in Workers : Range(down'[v]) \subseteq Range(down[v])
  BY <1>2, <1>3
<1>8. \A v \in Workers : Results(v)' \subseteq Results(v)
  <2> SUFFICES ASSUME NEW v \in Workers, NEW x \in Results(v)'
               PROVE  x \in Results(v)
    OBVIOUS
  <2>1. \/ x \in Range(down'[v]) /\ x.kind = "result"
        \/ x \in Range(queue') /\ x.via = v /\ x.kind = "result"
    BY DEF Results
  <2> QED
    BY <1>3, <1>5, <1>6, <1>7, <2>1 DEF Results
<1>9. \A v \in Workers : StartLines(v)' = StartLines(v)
  BY <1>2 DEF StartLines
<1>10. Starts' = Starts
  BY <1>2 DEF Starts
<1>11. EngineGone'
  BY <1>1, <1>2, <1>4, <1>6 DEF EngineGone, Waiting, Off
<1>12. Numbered' /\ Matched'
  BY <1>1, <1>2, <1>8, NumbersKept
<1>13. OneStart'
  <2>1. process # "none" /\ ui.config => ui.starting
    BY <1>1 DEF OneStart
  <2> QED
    BY <1>1, <1>2, <1>9, <1>10, <2>1, StartKept
<1>14. Buttons'
  BY <1>1, <1>2 DEF Buttons, Connected
<1>15. IdleForStart'
  <2>1. \A p \in Starts : Results(p.via)' \subseteq Results(p.via)
    BY <1>8, WindowOnly DEF Starts
  <2> QED
    BY <1>1, <1>2, <1>9, <1>10, <2>1, IdleKept
<1>16. NothingStale'
  <2> SUFFICES ASSUME ~engine.shared, engine.capturing
               PROVE  /\ ~ui.starting => AllCurrent(queue') /\ \A v \in Workers : AllCurrent(down'[v])
                      /\ \A p \in Starts : p.intent = "start_capture" =>
                            /\ AfterAnswer(queue', p.id) /\ AfterAnswer(down'[p.via], p.id)
                            /\ AnswerIn(queue', p.id) => AllCurrent(down'[p.via])
    BY <1>2, <1>10 DEF NothingStale, AllCurrent, AfterAnswer, AnswerIn, Current, Answers
  <2>1. ~ui.starting => AllCurrent(queue') /\ \A v \in Workers : AllCurrent(down'[v])
    BY <1>1, <1>3, <1>6, <1>7 DEF NothingStale, AllCurrent
  <2>2. ASSUME NEW p \in Starts, p.intent = "start_capture"
        PROVE  /\ AfterAnswer(queue', p.id) /\ AfterAnswer(down'[p.via], p.id)
               /\ AnswerIn(queue', p.id) => AllCurrent(down'[p.via])
    <3>1. p.via = w
      BY <1>2, WindowOnly DEF Starts
    <3>2. /\ AfterAnswer(queue, p.id) /\ AfterAnswer(down[w], p.id)
          /\ AnswerIn(queue, p.id) => AllCurrent(down[w])
      BY <1>1, <2>2, <3>1 DEF NothingStale
    <3>3. AnswerIn(queue, p.id) => Current(m)
      BY <1>3, <3>2 DEF AllCurrent
    <3>4. AfterAnswer(queue', p.id)
      BY <1>4, <1>6, <3>2, <3>3, AfterAppended
    <3>5. down'[w] = Tail(down[w])
      BY <1>2
    <3>6. AfterAnswer(Tail(down[w]), p.id) /\ (Answers(m, p.id) => AllCurrent(Tail(down[w])))
      BY <1>2, <1>3, <3>2, AfterTail
    <3>7. AnswerIn(queue', p.id) => AnswerIn(queue, p.id) \/ Answers(m, p.id)
      BY <1>6 DEF AnswerIn
    <3>8. AllCurrent(down[w]) => AllCurrent(Tail(down[w]))
      BY <1>3 DEF AllCurrent
    <3> QED
      BY <3>1, <3>2, <3>4, <3>5, <3>6, <3>7, <3>8
  <2> QED
    BY <2>1, <2>2
<1> QED
  BY <1>11, <1>12, <1>13, <1>14, <1>15, <1>16 DEF ControlsInv

-----------------------------------------------------------------------------
(***************************************************************************)
(* The engine's answers and the buttons                                    *)
(***************************************************************************)
\* A line, if there is one, comes after those before it.
Grows(d, e, isSent, x) ==
  /\ \A m \in Range(e) : m \in Range(d) \/ (isSent /\ m = x)
  /\ \A id : AfterAnswer(d, id) /\ (isSent /\ AnswerIn(d, id) => Current(x)) => AfterAnswer(e, id)

LEMMA Growing ==
  ASSUME NEW S, NEW d \in Seq(S), NEW x \in S, NEW isSent \in BOOLEAN, NEW one,
         one = IF isSent THEN <<x>> ELSE <<>>
  PROVE  d \o one \in Seq(S) /\ Grows(d, d \o one, isSent, x)
<1>1. CASE isSent
  <2>1. /\ one = <<x>> /\ d \o <<x>> = Append(d, x) /\ Append(d, x) \in Seq(S)
        /\ Range(Append(d, x)) = Range(d) \cup {x}
    BY <1>1, Appended
  <2>2. \A id : AfterAnswer(d, id) /\ (AnswerIn(d, id) => Current(x)) => AfterAnswer(Append(d, x), id)
    BY AfterAppended
  <2>3. Grows(d, Append(d, x), isSent, x)
    BY <1>1, <2>1, <2>2 DEF Grows
  <2> QED
    BY <2>1, <2>3, Zenon
<1>2. CASE ~isSent
  <2>1. one = <<>>
    BY <1>2
  <2>2. d \o <<>> = d
    BY ConcatEmptySeq
  <2>3. Grows(d, d, isSent, x)
    BY <1>2 DEF Grows
  <2> QED
    BY <2>1, <2>2, <2>3, Zenon
<1> QED
  BY <1>1, <1>2

\* What a command does: its result, then a status if it changed something.
LEMMA HandledAs ==
  ASSUME TypeOK, ViewerInv, NEW w \in Workers, Handle(w)
  PROVE  \E c \in Commands, ok \in BOOLEAN, result \in Replies :
            /\ c = Head(up[w]) /\ up[w] # <<>> /\ ok \in Accepts(engine, c.op)
            /\ engine' = (IF ok THEN After(engine, c.op) ELSE engine)
            /\ result.kind = "result" /\ result.via = w /\ result.id = c.id /\ result.op = c.op
            /\ result.ok = ok /\ result.state = StateName(engine'.capturing)
            /\ \A v \in Workers :
                  \/ down'[v] = down[v]
                  \/ \E e : /\ Grows(down[v], e, v = w, result)
                            /\ Grows(e, down'[v], Announced(c.op, ok), Status(v, engine'))
<1> DEFINE Lines == Statuses \cup Replies
<1>1. PICK c \in Commands : c = Head(up[w]) /\ up[w] # <<>>
  BY Popped DEF Handle, TypeOK, WiresOK
<1>2. PICK ok \in BOOLEAN :
        /\ ok \in Accepts(engine, c.op)
        /\ engine' = IF ok THEN After(engine, c.op) ELSE engine
        /\ LET e == IF ok THEN After(engine, c.op) ELSE engine
               result == [kind |-> "result", via |-> w, id |-> c.id, op |-> c.op, ok |-> ok,
                          state |-> StateName(e.capturing)]
           IN  down' = [v \in Workers |->
                  IF ~linked[v] THEN down[v]
                  ELSE down[v] \o (IF v = w THEN <<result>> ELSE <<>>)
                               \o (IF Announced(c.op, ok) THEN <<Status(v, e)>> ELSE <<>>)]
  <2>1. Accepts(engine, c.op) \subseteq BOOLEAN
    BY DEF Accepts, Ops, Commands, TypeOK, Engines
  <2> QED
    BY <1>1, <2>1 DEF Handle
<1>3. PICK result \in Replies :
        /\ result = [kind |-> "result", via |-> w, id |-> c.id, op |-> c.op, ok |-> ok,
                     state |-> StateName(engine'.capturing)]
        /\ result.kind = "result" /\ result.via = w /\ result.id = c.id /\ result.op = c.op
        /\ result.ok = ok /\ result.state = StateName(engine'.capturing)
  <2>1. StateName(engine'.capturing) \in EngineStates /\ c.op \in Ops /\ c.id \in Nat
    BY DEF StateName, EngineStates, Commands
  <2>2. PICK state \in EngineStates : state = StateName(engine'.capturing)
    BY <2>1
  <2>3. PICK r \in Replies :
          r = [kind |-> "result", via |-> w, id |-> c.id, op |-> c.op, ok |-> ok, state |-> state]
    BY <2>1 DEF Replies
  <2>4. r.kind = "result" /\ r.via = w /\ r.id = c.id /\ r.op = c.op /\ r.ok = ok /\ r.state = state
    BY <2>3
  <2> QED
    BY <2>2, <2>3, <2>4
<1>4. ASSUME NEW v \in Workers, linked[v]
      PROVE  \E e : /\ Grows(down[v], e, v = w, result)
                    /\ Grows(e, down'[v], Announced(c.op, ok), Status(v, engine'))
  <2>1. PICK x \in Lines : x = Status(v, engine')
    BY StatusOf
  <2> HIDE DEF Lines
  <2>2. down[v] \in Seq(Lines) /\ result \in Lines
    BY DEF Lines, TypeOK, WiresOK
  <2>3. PICK one : one = (IF v = w THEN <<result>> ELSE <<>>)
    OBVIOUS
  <2>4. PICK two : two = (IF Announced(c.op, ok) THEN <<x>> ELSE <<>>)
    OBVIOUS
  <2>5. down[v] \o one \in Seq(Lines) /\ Grows(down[v], down[v] \o one, v = w, result)
    <3>1. (v = w) \in BOOLEAN
      OBVIOUS
    <3> QED
      BY <2>2, <2>3, <3>1, Growing
  <2>6. PICK e \in Seq(Lines) : e = down[v] \o one
    BY <2>5, Zenon
  <2>7. Grows(e, e \o two, Announced(c.op, ok), x)
    <3>1. Announced(c.op, ok) \in BOOLEAN
      BY DEF Announced
    <3> QED
      BY <2>4, <3>1, Growing
  <2>8. down'[v] = e \o two
    <3>1. down'[v] = down[v] \o (IF v = w THEN <<result>> ELSE <<>>)
                             \o (IF Announced(c.op, ok) THEN <<Status(v, engine')>> ELSE <<>>)
      BY <1>2, <1>3, <1>4
    <3> QED
      BY <2>1, <2>3, <2>4, <2>6, <3>1, Zenon
  <2> QED
    BY <2>1, <2>5, <2>6, <2>7, <2>8, Zenon
<1>5. ASSUME NEW v \in Workers, ~linked[v]
      PROVE  down'[v] = down[v]
  BY <1>2, <1>5
<1>6. \A v \in Workers :
         \/ down'[v] = down[v]
         \/ \E e : /\ Grows(down[v], e, v = w, result)
                   /\ Grows(e, down'[v], Announced(c.op, ok), Status(v, engine'))
  BY <1>4, <1>5, Zenon
<1>7. ok \in Accepts(engine, c.op) /\ engine' = (IF ok THEN After(engine, c.op) ELSE engine)
  BY <1>2, Zenon
<1>8. /\ c = Head(up[w]) /\ up[w] # <<>> /\ ok \in Accepts(engine, c.op)
      /\ engine' = (IF ok THEN After(engine, c.op) ELSE engine)
      /\ result.kind = "result" /\ result.via = w /\ result.id = c.id /\ result.op = c.op
      /\ result.ok = ok /\ result.state = StateName(engine'.capturing)
      /\ \A v \in Workers :
            \/ down'[v] = down[v]
            \/ \E e : /\ Grows(down[v], e, v = w, result)
                      /\ Grows(e, down'[v], Announced(c.op, ok), Status(v, engine'))
  BY <1>1, <1>3, <1>6, <1>7, Zenon
<1> QED
  BY <1>8

LEMMA EngineAfter ==
  ASSUME NEW e \in Engines, NEW op \in Ops
  PROVE  /\ After(e, op).shared = e.shared /\ After(e, op).up = e.up
         /\ op # "start_capture" /\ After(e, op).capturing => e.capturing
         /\ op = "stop_capture" => ~After(e, op).capturing
         /\ op \in {"configure", "get_status"} => After(e, op).capturing = e.capturing
         /\ op = "stop_capture" => Accepts(e, op) = {e.capturing}
         /\ op = "get_status" => After(e, op) = e
<1>1. CASE op = "configure"
  BY <1>1 DEF After, Accepts, Engines
<1>2. CASE op = "start_capture"
  BY <1>2 DEF After, Engines
<1>3. CASE op = "stop_capture"
  BY <1>3 DEF After, Accepts, Engines
<1>4. CASE op = "get_status"
  BY <1>4 DEF After, Engines
<1> QED
  BY <1>1, <1>2, <1>3, <1>4 DEF Ops

LEMMA HandleControls ==
  ASSUME TypeOK, ViewerInv, ControlsInv, NEW w \in Workers, Handle(w)
  PROVE  ControlsInv'
<1>1. EngineGone /\ Numbered /\ Matched /\ OneStart /\ Buttons /\ IdleForStart /\ NothingStale
  BY DEF ControlsInv
<1>2. /\ UNCHANGED <<ui, process, ids, queue>> /\ engine.up /\ up[w] # <<>>
      /\ \A v \in Workers : up'[v] = IF v = w THEN Tail(up[w]) ELSE up[v]
  BY DEF Handle, TypeOK, WiresOK
<1>3. PICK c \in Commands, ok \in BOOLEAN, result \in Replies :
            /\ c = Head(up[w]) /\ up[w] # <<>> /\ ok \in Accepts(engine, c.op)
            /\ engine' = (IF ok THEN After(engine, c.op) ELSE engine)
            /\ result.kind = "result" /\ result.via = w /\ result.id = c.id /\ result.op = c.op
            /\ result.ok = ok /\ result.state = StateName(engine'.capturing)
            /\ \A v \in Workers :
                  \/ down'[v] = down[v]
                  \/ \E e : /\ Grows(down[v], e, v = w, result)
                            /\ Grows(e, down'[v], Announced(c.op, ok), Status(v, engine'))
  BY HandledAs
<1>4. c.op \in Ops /\ c.id \in Nat /\ engine \in Engines
  BY DEF Commands, TypeOK
<1>5. \A v \in Workers : Status(v, engine').kind = "status" /\ Status(v, engine').state = StateName(engine'.capturing)
  BY DEF Status
<1>6. \A v \in Workers : \A m \in Range(down'[v]) :
          \/ m \in Range(down[v])
          \/ v = w /\ m = result
          \/ Announced(c.op, ok) /\ m = Status(v, engine')
  BY <1>3 DEF Grows
<1>7. \A v \in Workers : \A m \in Results(v)' : m \in Results(v) \/ (v = w /\ m = result)
  <2> SUFFICES ASSUME NEW v \in Workers, NEW m \in Results(v)'
               PROVE  m \in Results(v) \/ (v = w /\ m = result)
    OBVIOUS
  <2>1. m.kind = "result" /\ (m \in Range(down'[v]) \/ (m \in Range(queue) /\ m.via = v))
    BY <1>2 DEF Results
  <2> QED
    BY <1>5, <1>6, <2>1 DEF Results
<1>8. /\ up[w] \in Seq(Commands) /\ InOrder(up[w], ids[w]) /\ ids[w] \in Nat
  BY <1>1, WiresTyped DEF Numbered
<1>9. /\ InOrder(Tail(up[w]), ids[w]) /\ c \in Range(up[w]) /\ Range(Tail(up[w])) \subseteq Range(up[w])
      /\ \A d \in Range(Tail(up[w])) : c.id < d.id
  BY <1>3, <1>8, OrderTail
<1>10. \A v \in Workers : Range(up'[v]) \subseteq Range(up[v])
  BY <1>2, <1>9
<1>11. \A v \in Workers : StartLines(v)' \subseteq StartLines(v)
  BY <1>10 DEF StartLines
<1>12. Starts' = Starts
  BY <1>2 DEF Starts
<1>13. c.op \in StartOps => c \in StartLines(w)
  BY <1>9 DEF StartLines
<1>14. ASSUME c.op \in StartOps
       PROVE  /\ ui.starting /\ ~ui.config /\ ~ui.start
              /\ \A v \in Workers : StartLines(v)' = {}
              /\ \A p \in Starts : p.via = w /\ p.id = c.id /\ p.intent = c.op
              /\ ~engine.shared => ~engine.capturing
  <2>1. ui.starting /\ ~ui.config
    BY <1>1, <1>13, <1>14 DEF OneStart
  <2>2. ASSUME NEW v \in Workers, NEW d \in StartLines(v)'
        PROVE  FALSE
    <3>1. d \in StartLines(v) /\ v = w /\ d = c
      <4>1. d \in StartLines(v)
        BY <1>11, <2>2
      <4> QED
        BY <1>1, <1>13, <1>14, <4>1 DEF OneStart
    <3>2. d \in Range(Tail(up[w]))
      BY <1>2, <2>2, <3>1 DEF StartLines
    <3>3. c.id < c.id
      BY <1>9, <3>1, <3>2
    <3> QED
      BY <1>4, <3>3
  <2>3. \A p \in Starts : p.via = w /\ p.id = c.id
    BY <1>1, <1>13, <1>14 DEF OneStart
  <2>4. \A p \in Starts : p.intent = c.op
    BY <1>1, <1>9, <2>3 DEF Matched, Starts
  <2>5. ~engine.shared => ~engine.capturing
    BY <1>1, <1>13, <1>14 DEF IdleForStart
  <2>6. ~ui.start
    BY <1>1, <2>1 DEF Buttons
  <2> QED
    BY <2>1, <2>2, <2>3, <2>4, <2>5, <2>6
<1>15. engine'.shared = engine.shared /\ engine'.up
  BY <1>2, <1>3, <1>4, EngineAfter
<1>16. c.op # "start_capture" /\ engine'.capturing => engine.capturing
  BY <1>3, <1>4, EngineAfter
<1>17. EngineGone'
  BY <1>1, <1>2, <1>15 DEF EngineGone, Waiting
<1>18. Numbered'
  <2>1. \A v \in Workers : InOrder(up'[v], ids[v])
    BY <1>1, <1>2, <1>9 DEF Numbered
  <2>2. \A v \in Workers : \A m \in Results(v)' : m.id <= ids[v] /\ \A d \in Range(up'[v]) : m.id < d.id
    <3> SUFFICES ASSUME NEW v \in Workers, NEW m \in Results(v)'
                 PROVE  m.id <= ids[v] /\ \A d \in Range(up'[v]) : m.id < d.id
      OBVIOUS
    <3>1. CASE m \in Results(v)
      BY <1>1, <1>10, <3>1 DEF Numbered
    <3>2. CASE v = w /\ m = result
      <4>1. c.id <= ids[w]
        BY <1>8, <1>9 DEF InOrder
      <4> QED
        BY <1>2, <1>3, <1>9, <3>2, <4>1
    <3> QED
      BY <1>7, <3>1, <3>2
  <2>3. (\A p \in ui.pending : p.id <= ids[p.via]) /\ \A p, q \in ui.pending : p.id = q.id => p = q
    BY <1>1 DEF Numbered
  <2> QED
    BY <1>2, <2>1, <2>2, <2>3 DEF Numbered, InOrder
<1>19. Matched'
  <2>1. \A p \in ui.pending : \A d \in Range(up'[p.via]) : d.id = p.id => d.op = p.intent
    BY <1>1, <1>10, WindowOnly DEF Matched
  <2>2. ASSUME NEW p \in ui.pending, NEW m \in Results(p.via)', m.id = p.id
        PROVE  m.op = p.intent
    <3>1. p.via \in Workers
      BY WindowOnly
    <3>2. CASE m \in Results(p.via)
      BY <1>1, <2>2, <3>2 DEF Matched
    <3>3. CASE p.via = w /\ m = result
      BY <1>1, <1>3, <1>9, <2>2, <3>3 DEF Matched
    <3> QED
      BY <1>7, <3>1, <3>2, <3>3
  <2>3. ASSUME NEW v \in Workers, NEW m \in Results(v)', m.op = "stop_capture"
        PROVE  m.state = "idle"
    <3>1. CASE m \in Results(v)
      BY <1>1, <2>3, <3>1 DEF Matched
    <3>2. CASE m = result
      <4>1. c.op = "stop_capture"
        BY <1>3, <2>3, <3>2
      <4>2. ~engine'.capturing
        BY <1>3, <1>4, <4>1, EngineAfter
      <4> QED
        BY <1>3, <3>2, <4>2 DEF StateName
    <3> QED
      BY <1>7, <3>1, <3>2
  <2> QED
    BY <1>2, <2>1, <2>2, <2>3 DEF Matched
<1>20. OneStart'
  <2>1. process # "none" /\ ui.config => ui.starting
    BY <1>1 DEF OneStart
  <2> QED
    BY <1>1, <1>2, <1>11, <1>12, <2>1, StartKept
<1>21. Buttons'
  BY <1>1, <1>2 DEF Buttons, Connected
<1>22. ASSUME NEW p \in Starts, NEW m, m \in Results(p.via), m.id = p.id
       PROVE  c.op \notin StartOps
  <2>1. ASSUME c.op \in StartOps
        PROVE  FALSE
    <3>1. p.via = w /\ p.id = c.id
      BY <1>14, <2>1
    <3>2. m.id < c.id
      BY <1>1, <1>9, <1>22, <3>1 DEF Numbered
    <3> QED
      BY <1>4, <1>22, <3>1, <3>2
  <2> QED
    BY <2>1
<1>23. IdleForStart'
  <2> SUFFICES ASSUME ~engine.shared
               PROVE  /\ (\E v \in Workers : StartLines(v)' # {}) => ~engine'.capturing
                      /\ ui.config /\ ui.starting => ~engine'.capturing
                      /\ \A p \in Starts : p.intent = "configure" => ~engine'.capturing
                      /\ \A p \in Starts : \A m \in Results(p.via)' :
                            m.id = p.id /\ ~m.ok => ~engine'.capturing
                      /\ ui.start => ~engine'.capturing
    BY <1>2, <1>12, <1>15 DEF IdleForStart
  <2>1. c.op = "start_capture" => c.op \in StartOps
    BY DEF StartOps
  <2>2. (\E v \in Workers : StartLines(v)' # {}) => ~engine'.capturing
    BY <1>1, <1>11, <1>14, <1>16, <2>1 DEF IdleForStart
  <2>3. (ui.config /\ ui.starting => ~engine'.capturing) /\ (ui.start => ~engine'.capturing)
    BY <1>1, <1>14, <1>16, <2>1 DEF IdleForStart
  <2>4. \A p \in Starts : p.intent = "configure" => ~engine'.capturing
    BY <1>1, <1>14, <1>16, <2>1 DEF IdleForStart
  <2>5. ASSUME NEW p \in Starts, NEW m \in Results(p.via)', m.id = p.id, ~m.ok
        PROVE  ~engine'.capturing
    <3>1. p.via \in Workers
      BY WindowOnly DEF Starts
    <3>2. CASE m \in Results(p.via)
      <4>1. c.op # "start_capture"
        BY <1>22, <2>1, <2>5, <3>2
      <4>2. ~engine.capturing
        BY <1>1, <2>5, <3>2 DEF IdleForStart
      <4> QED
        BY <1>16, <4>1, <4>2
    <3>3. CASE p.via = w /\ m = result
      <4>1. p.id = c.id /\ p.intent = c.op /\ c.op \in StartOps /\ ~ok
        BY <1>1, <1>3, <1>9, <2>5, <3>3 DEF Matched, Starts
      <4>2. ~engine.capturing /\ engine' = engine
        BY <1>3, <1>14, <4>1
      <4> QED
        BY <4>2
    <3> QED
      BY <1>7, <3>1, <3>2, <3>3
  <2> QED
    BY <2>2, <2>3, <2>4, <2>5
<1>24. NothingStale'
  <2> SUFFICES ASSUME ~engine.shared, engine'.capturing
               PROVE  /\ ~ui.starting => AllCurrent(queue) /\ \A v \in Workers : AllCurrent(down'[v])
                      /\ \A p \in Starts : p.intent = "start_capture" =>
                            /\ AfterAnswer(queue, p.id) /\ AfterAnswer(down'[p.via], p.id)
                            /\ AnswerIn(queue, p.id) => AllCurrent(down'[p.via])
    BY <1>2, <1>12, <1>15 DEF NothingStale, AllCurrent, AfterAnswer, AnswerIn, Current, Answers
  <2>1. Current(result) /\ \A v \in Workers : Current(Status(v, engine'))
    BY <1>3, <1>5 DEF Current, StateName
  <2>2. \A v \in Workers : \A id : AfterAnswer(down[v], id) => AfterAnswer(down'[v], id)
    <3> SUFFICES ASSUME NEW v \in Workers, NEW id, AfterAnswer(down[v], id)
                 PROVE  AfterAnswer(down'[v], id)
      OBVIOUS
    <3>1. CASE down'[v] = down[v]
      BY <3>1
    <3>2. ASSUME NEW e, Grows(down[v], e, v = w, result),
                 Grows(e, down'[v], Announced(c.op, ok), Status(v, engine'))
          PROVE  AfterAnswer(down'[v], id)
      <4>1. AfterAnswer(e, id)
        BY <2>1, <3>2 DEF Grows
      <4> QED
        BY <2>1, <3>2, <4>1 DEF Grows
    <3> QED
      BY <1>3, <3>1, <3>2
  <2>3. \A v \in Workers : AllCurrent(down[v]) => AllCurrent(down'[v])
    BY <1>6, <2>1 DEF AllCurrent
  <2>4. CASE c.op = "start_capture"
    <3>1. ui.starting /\ c.op \in StartOps
      BY <1>14, <2>4 DEF StartOps
    <3>2. ASSUME NEW p \in Starts
          PROVE  ~AnswerIn(queue, p.id) /\ ~AnswerIn(down[p.via], p.id)
      <4>1. p.via \in Workers /\ p.via = ui.worker /\ ui.worker # None
        BY WindowOnly DEF Starts
      <4>2. ASSUME NEW m \in Range(queue), Answers(m, p.id)
            PROVE  FALSE
        <5>1. m.via = p.via
          BY <4>1, WindowOnly
        <5>2. m \in Results(p.via) /\ m.id = p.id
          BY <4>2, <5>1 DEF Results, Answers
        <5> QED
          BY <1>22, <3>1, <5>2
      <4>3. ASSUME NEW m \in Range(down[p.via]), Answers(m, p.id)
            PROVE  FALSE
        <5>1. m \in Results(p.via) /\ m.id = p.id
          BY <4>3 DEF Results, Answers
        <5> QED
          BY <1>22, <3>1, <5>1
      <4> QED
        BY <4>2, <4>3 DEF AnswerIn
    <3>3. ASSUME NEW p \in Starts
          PROVE  AfterAnswer(queue, p.id) /\ AfterAnswer(down'[p.via], p.id)
      <4>1. p.via \in Workers
        BY WindowOnly DEF Starts
      <4>2. AfterAnswer(queue, p.id) /\ AfterAnswer(down[p.via], p.id)
        BY <3>2, AfterNone
      <4> QED
        BY <2>2, <4>1, <4>2
    <3> QED
      BY <3>1, <3>2, <3>3
  <2>5. CASE c.op # "start_capture"
    <3>1. engine.capturing
      BY <1>16, <2>5
    <3>2. \A p \in Starts : p.via \in Workers
      BY WindowOnly DEF Starts
    <3>3. ~ui.starting => AllCurrent(queue) /\ \A v \in Workers : AllCurrent(down'[v])
      BY <1>1, <2>3, <3>1 DEF NothingStale
    <3>4. ASSUME NEW p \in Starts, p.intent = "start_capture"
          PROVE  /\ AfterAnswer(queue, p.id) /\ AfterAnswer(down'[p.via], p.id)
                 /\ AnswerIn(queue, p.id) => AllCurrent(down'[p.via])
      <4>1. /\ AfterAnswer(queue, p.id) /\ AfterAnswer(down[p.via], p.id)
            /\ AnswerIn(queue, p.id) => AllCurrent(down[p.via])
        BY <1>1, <3>1, <3>4 DEF NothingStale
      <4> QED
        BY <2>2, <2>3, <3>2, <4>1
    <3> QED
      BY <3>3, <3>4
  <2> QED
    BY <2>4, <2>5
<1> QED
  BY <1>17, <1>18, <1>19, <1>20, <1>21, <1>23, <1>24 DEF ControlsInv

\* What others do is the engine's own business: the window only hears of it.
LEMMA OthersControls ==
  ASSUME TypeOK, ViewerInv, ControlsInv, OthersCommand
  PROVE  ControlsInv'
<1>1. EngineGone /\ Numbered /\ Matched /\ OneStart /\ Buttons
  BY DEF ControlsInv
<1>2. PICK op \in {"configure", "start_capture", "stop_capture"} :
        /\ engine' = [After(engine, op) EXCEPT !.shared = TRUE]
        /\ down' = [w \in Workers |->
              IF linked[w] THEN Append(down[w], Status(w, After(engine, op))) ELSE down[w]]
  BY DEF OthersCommand
<1>3. UNCHANGED <<ui, process, ids, up, queue>> /\ engine.up
  BY DEF OthersCommand
<1>4. engine'.up /\ engine'.shared
  <2>1. After(engine, op) \in Engines /\ After(engine, op).up = engine.up
    BY AfterTyped DEF TypeOK, Ops
  <2> QED
    BY <1>2, <1>3, <2>1 DEF Engines
<1>5. \A w \in Workers : Results(w)' \subseteq Results(w)
  <2> SUFFICES ASSUME NEW w \in Workers, NEW m \in Results(w)'
               PROVE  m \in Results(w)
    OBVIOUS
  <2>1. m.kind = "result" /\ (m \in Range(down'[w]) \/ (m \in Range(queue) /\ m.via = w))
    BY <1>3 DEF Results
  <2>2. PICK s \in Statuses \cup Replies : s = Status(w, After(engine, op))
    BY StatusOf
  <2>3. s.kind = "status"
    BY <2>2 DEF Status
  <2>4. Range(Append(down[w], s)) = Range(down[w]) \cup {s}
    BY Appended, WiresTyped
  <2>5. down'[w] = down[w] \/ down'[w] = Append(down[w], s)
    BY <1>2, <2>2
  <2> QED
    BY <2>1, <2>3, <2>4, <2>5 DEF Results
<1>6. EngineGone'
  BY <1>1, <1>3, <1>4 DEF EngineGone, Waiting
<1>7. Numbered' /\ Matched'
  BY <1>1, <1>3, <1>5, NumbersKept
<1>8. OneStart' /\ Buttons'
  BY <1>1, <1>3 DEF OneStart, Starts, StartLines, Buttons, Connected
<1>9. IdleForStart' /\ NothingStale'
  BY <1>4 DEF IdleForStart, NothingStale
<1> QED
  BY <1>6, <1>7, <1>8, <1>9 DEF ControlsInv

-----------------------------------------------------------------------------
(***************************************************************************)
(* The steps that answer, forget or end                                    *)
(***************************************************************************)
LEMMA LessPending ==
  ASSUME TypeOK, ViewerInv, ControlsInv, ids' = ids, ui'.pending \subseteq ui.pending,
         \A w \in Workers : up'[w] = up[w] \/ up'[w] = <<>>,
         \A w \in Workers : down'[w] = down[w] \/ down'[w] = <<>>,
         Range(queue') \subseteq Range(queue),
         EngineGone', OneStart', Buttons', IdleForStart', NothingStale'
  PROVE  ControlsInv'
<1>1. Numbered /\ Matched
  BY DEF ControlsInv
<1>2. \A w \in Workers : Results(w)' \subseteq Results(w)
  BY ResultsKept
<1>3. Numbered' /\ Matched'
  BY <1>1, <1>2, NumbersKept
<1> QED
  BY <1>3 DEF ControlsInv

\* The window hears of something, and its start is where it was.
LEMMA Heard ==
  ASSUME TypeOK, ViewerInv, ControlsInv, ids' = ids, UNCHANGED <<process, engine>>,
         \A w \in Workers : up'[w] = up[w] \/ up'[w] = <<>>,
         \A w \in Workers : down'[w] = down[w] \/ down'[w] = <<>>,
         Range(queue') \subseteq Range(queue), NoNews(queue, queue'),
         ui'.pending \subseteq ui.pending, ui'.starting = ui.starting,
         ui'.config => ui.config,
         ui'.worker # None => ui'.worker = ui.worker /\ (ui'.connected => ui.connected),
         ui'.start => ui.start \/ engine.shared \/ ~engine.capturing, Buttons'
  PROVE  ControlsInv'
<1>1. EngineGone /\ OneStart /\ IdleForStart /\ NothingStale
  BY DEF ControlsInv
<1>2. Starts' \subseteq Starts
  BY StartsOf
<1>3. \A w \in Workers : StartLines(w)' \subseteq StartLines(w)
  BY LinesKept
<1>4. EngineGone'
  <2>1. Waiting("connected")' => Waiting("connected")
    BY DEF Waiting
  <2>2. ui.pending = {} => ui'.pending = {}
    OBVIOUS
  <2> QED
    BY <1>1, <2>1, <2>2 DEF EngineGone, Off
<1>5. OneStart'
  <2>1. process # "none" /\ ui.config => ui.starting
    BY <1>1 DEF OneStart
  <2> QED
    BY <1>1, <1>2, <1>3, <2>1, StartKept
<1>6. IdleForStart'
  <2>1. \A w \in Workers : Results(w)' \subseteq Results(w)
    BY ResultsKept
  <2>2. \A p \in Starts : Results(p.via)' \subseteq Results(p.via)
    BY <2>1, WindowOnly DEF Starts
  <2> QED
    BY <1>1, <1>2, <1>3, <2>2, IdleKept
<1>7. NothingStale'
  BY <1>1, <1>2, StaleKept
<1> QED
  BY <1>4, <1>5, <1>6, <1>7, LessPending

\* Nothing of a start is left, or the next one has not sent anything.
LEMMA Rested ==
  ASSUME TypeOK, ViewerInv, ControlsInv, ids' = ids,
         \A w \in Workers : up'[w] = up[w] \/ up'[w] = <<>>,
         \A w \in Workers : down'[w] = down[w] \/ down'[w] = <<>>,
         Range(queue') \subseteq Range(queue),
         ui'.pending \subseteq ui.pending, Starts' = {}, \A w \in Workers : StartLines(w)' = {},
         EngineGone', process' # "none" /\ ui'.config => ui'.starting, Buttons',
         ~engine'.shared => ~engine'.capturing
  PROVE  ControlsInv'
<1>1. OneStart'
  BY StartOver
<1>2. IdleForStart'
  BY IdleBegun
<1>3. NothingStale'
  BY NoneStale
<1> QED
  BY <1>1, <1>2, <1>3, LessPending

LEMMA NothingUp ==
  ASSUME NEW w \in Workers, up'[w] = <<>>
  PROVE  StartLines(w)' = {}
  BY NoneInEmpty DEF StartLines

LEMMA NoStarts ==
  ASSUME ui'.pending = {}
  PROVE  Starts' = {}
  BY DEF Starts

LEMMA WithoutProcess ==
  ASSUME TypeOK, ViewerInv, ControlsInv, process = "none"
  PROVE  /\ engine = Off /\ ~engine.up /\ ~engine.capturing /\ ui.pending = {}
         /\ \A w \in Workers : up[w] = <<>>
<1>1. ~engine.up
  BY DEF ViewerInv, Wiring
<1> QED
  BY <1>1 DEF ControlsInv, EngineGone, Off

LEMMA SettledHasNone ==
  ASSUME TypeOK, ViewerInv, Nobody, queue = <<>>
  PROVE  /\ ~ui.connected /\ ui.pending = {} /\ ~Waiting("connected")
         /\ queue \in Seq(Signals) /\ NoNews(queue, queue)
<1>1. \A kind : ~Waiting(kind)
  BY NoneInEmpty DEF Waiting
<1>2. ~ui.connected /\ ui.pending = {}
  BY <1>1 DEF ViewerInv, Shown
<1> QED
  BY <1>1, <1>2, NoNewsOfNone DEF TypeOK

LEMMA EndingControls ==
  ASSUME TypeOK, ViewerInv, ControlsInv, NEW u \in Windows, Same(ui, u), ProcessEnds(u),
         UNCHANGED queue
  PROVE  ControlsInv'
<1>1. PICK v \in Windows : v = [u EXCEPT !.config = FALSE]
  BY DEF Windows
<1>2. ~v.config
  BY <1>1 DEF Windows
<1>3. PICK r \in Windows : r = RestoreControls(v)
  BY ControlsRestored
<1>4. Startable(r) /\ ~r.config
  BY <1>2, <1>3, ControlsRestored DEF RestoreControls, SetControls, Windows
<1>5. ui' = Forget(r)
  BY <1>1, <1>3 DEF ProcessEnds
<1>6. ui'.worker = None /\ ui'.pending = {} /\ SameButtons(r, ui')
  BY <1>5, WasForgotten
<1>7. ui'.config = r.config
  BY <1>5 DEF Forget, Windows
<1>8. /\ process' = "none" /\ engine' = Off /\ ids' = ids
      /\ \A w \in Workers : up'[w] = <<>> /\ (down'[w] = down[w] \/ down'[w] = <<>>)
  BY DEF ProcessEnds
<1>9. EngineGone'
  BY <1>6, <1>8 DEF EngineGone
<1>10. Buttons'
  BY <1>4, <1>6 DEF Buttons, Startable, SameButtons, Connected
<1>11. \A w \in Workers : StartLines(w)' = {}
  BY <1>8, NothingUp
<1>12. ~engine'.capturing
  BY <1>8 DEF Off
<1> QED
  BY <1>6, <1>8, <1>9, <1>10, <1>11, <1>12, NoStarts, Rested

LEMMA KillingControls ==
  ASSUME TypeOK, ViewerInv, ControlsInv, NEW u \in Windows, Same(ui, u), KillProcess(u),
         UNCHANGED queue
  PROVE  ControlsInv'
<1>1. CASE process = "none"
  <2>1. ui' = RestoreControls(u) /\ UNCHANGED <<process, engine, ids, up, down>>
    BY <1>1 DEF KillProcess, wires
  <2>2. Same(u, ui') /\ Startable(ui')
    BY <2>1, ControlsRestored
  <2>3. ui'.pending = ui.pending /\ ui'.worker = ui.worker /\ ui'.connected = ui.connected
    BY <2>2 DEF Same
  <2>4. engine = Off /\ ~engine.capturing /\ ui.pending = {} /\ \A w \in Workers : up[w] = <<>>
    BY <1>1, WithoutProcess
  <2>5. EngineGone'
    BY <2>1, <2>3, <2>4 DEF ControlsInv, EngineGone, Waiting
  <2>6. Buttons'
    BY <2>2 DEF Buttons, Startable
  <2>7. \A w \in Workers : StartLines(w)' = {}
    BY <2>1, <2>4, NothingUp
  <2> QED
    BY <1>1, <2>1, <2>3, <2>4, <2>5, <2>6, <2>7, NoStarts, Rested
<1>2. CASE process # "none"
  <2>1. ProcessEnds(u)
    BY <1>2 DEF KillProcess
  <2> QED
    BY <2>1, EndingControls
<1> QED
  BY <1>1, <1>2

LEMMA DetachControls ==
  ASSUME TypeOK, ViewerInv, ControlsInv, Detach
  PROVE  ControlsInv'
<1>1. ui' = Forget(ui) /\ UNCHANGED <<process, engine, queue>>
  BY DEF Detach, Disconnect
<1>2. ui'.worker = None /\ ui'.pending = {} /\ SameButtons(ui, ui')
  BY <1>1, WasForgotten DEF TypeOK
<1>3. ui'.config = ui.config
  BY <1>1 DEF Forget, TypeOK, Windows
<1>4. /\ ids' = ids
      /\ \A w \in Workers : up'[w] = up[w] \/ up'[w] = <<>>
      /\ \A w \in Workers : down'[w] = down[w] \/ down'[w] = <<>>
  <2>1. CASE ui.worker = None
    BY <2>1 DEF Detach, Disconnect, wires
  <2>2. CASE ui.worker # None
    <3>1. CloseClient(ui.worker)
      BY <2>2 DEF Detach, Disconnect
    <3> QED
      BY <3>1 DEF CloseClient, TypeOK, WiresOK
  <2> QED
    BY <2>1, <2>2
<1>5. NoNews(queue, queue)
  BY NoNewsOfNone DEF TypeOK
<1>6. Buttons'
  BY <1>2 DEF ControlsInv, Buttons, SameButtons, Connected
<1> QED
  BY <1>1, <1>2, <1>3, <1>4, <1>5, <1>6, Heard DEF SameButtons

\* A new connection, of which nothing has come or gone yet.
LEMMA ConnectingControls ==
  ASSUME TypeOK, ViewerInv, ControlsInv, Nobody, queue = <<>>, NEW u \in Windows, Same(ui, u),
         NEW w \in Workers, Connect(u, w), UNCHANGED <<process, engine, queue>>,
         \/ SameButtons(ui, u) /\ u.config = ui.config
         \/ /\ ui.start /\ ~u.start /\ u.starting
            /\ process # "none"
  PROVE  ControlsInv'
<1>1. ui' = [u EXCEPT !.worker = w] /\ UNCHANGED <<ids, up, down>>
  BY DEF Connect, wires
<1>2. /\ ui'.worker = w /\ ui'.pending = u.pending /\ ui'.connected = u.connected
      /\ ui'.config = u.config /\ SameButtons(u, ui')
  BY <1>1 DEF Windows, SameButtons
<1>3. ~ui.connected /\ ui.pending = {} /\ ~Waiting("connected") /\ NoNews(queue, queue)
  BY SettledHasNone
<1>4. ui'.pending = {} /\ ~ui'.connected
  BY <1>2, <1>3 DEF Same
<1>5. EngineGone /\ OneStart /\ Buttons /\ IdleForStart /\ NothingStale
  BY DEF ControlsInv
<1>6. EngineGone'
  BY <1>1, <1>3, <1>4, <1>5 DEF EngineGone, Waiting
<1>7. CASE SameButtons(ui, u) /\ u.config = ui.config
  <2>1. SameButtons(ui, ui') /\ ui'.config = ui.config
    BY <1>2, <1>7 DEF SameButtons
  <2>2. Buttons'
    BY <1>4, <1>5, <2>1 DEF Buttons, SameButtons, Connected
  <2>3. Starts' \subseteq Starts
    BY <1>4, NoStarts
  <2>4. \A v \in Workers : StartLines(v)' \subseteq StartLines(v)
    BY <1>1, LinesKept
  <2>5. OneStart'
    <3>1. process # "none" /\ ui.config => ui.starting
      BY <1>5 DEF OneStart
    <3> QED
      BY <1>5, <2>1, <2>3, <2>4, <3>1, StartKept DEF SameButtons
  <2>6. IdleForStart'
    <3>1. \A p \in Starts : Results(p.via)' \subseteq Results(p.via)
      BY <1>3 DEF Starts
    <3> QED
      BY <1>5, <2>1, <2>3, <2>4, <3>1, IdleKept DEF SameButtons
  <2>7. NothingStale'
    BY <1>1, <1>3, <1>5, <2>1, <2>3, StaleKept DEF SameButtons
  <2> QED
    BY <1>1, <1>4, <1>6, <2>2, <2>5, <2>6, <2>7, LessPending
<1>8. CASE ui.start /\ ~u.start /\ u.starting
  <2>1. ~ui'.start /\ ui'.starting
    BY <1>2, <1>8 DEF SameButtons
  <2>2. ~ui.starting /\ (~engine.shared => ~engine.capturing)
    BY <1>5, <1>8 DEF Buttons, IdleForStart
  <2>3. \A v \in Workers : StartLines(v) = {}
    BY <1>5, <2>2 DEF OneStart
  <2>4. \A v \in Workers : StartLines(v)' = {}
    BY <1>1, <2>3 DEF StartLines
  <2>5. Buttons'
    BY <1>4, <2>1 DEF Buttons, Connected
  <2> QED
    BY <1>1, <1>4, <1>6, <2>1, <2>2, <2>4, <2>5, NoStarts, Rested
<1> QED
  BY <1>7, <1>8

-----------------------------------------------------------------------------
(***************************************************************************)
(* The steps that send a command                                           *)
(***************************************************************************)
LEMMA GoneNoted ==
  ASSUME TypeOK, ViewerInv, EngineGone, process # "none", UNCHANGED <<process, engine>>,
         NEW w \in Workers, NEW op \in Ops, Send(w, op)
  PROVE  EngineGone'
<1>1. up'[w] = up[w] \/ linked[w]
  BY LineSent
<1>2. \A v \in Workers : v # w => up'[v] = up[v]
  BY LineSent
<1>3. linked[w] => engine.up
  BY DEF ViewerInv, Wiring
<1> QED
  BY <1>1, <1>2, <1>3 DEF EngineGone, Off

\* The command of a start, which nothing of an earlier one precedes.
LEMMA StartNoted ==
  ASSUME TypeOK, ViewerInv, ControlsInv, NEW w \in Workers, w = ui.worker,
         process # "none", UNCHANGED <<process, engine>>,
         NEW op \in StartOps, NEW u \in Windows, u.worker = ui.worker,
         u.pending \subseteq ui.pending, \A p \in u.pending : p.intent \notin StartOps,
         u.starting, ~u.config, ~u.start, ~engine.shared => ~engine.capturing,
         ui' = Note(u, w, op), Send(w, op), Range(queue') \subseteq Range(queue),
         \A v \in Workers : StartLines(v) = {}
  PROVE  ControlsInv'
<1>1. op \in Ops
  BY DEF StartOps, Ops
<1>2. PICK e : e = Entry(w, op)
  OBVIOUS
<1>3. e.id = ids[w] + 1 /\ e.intent = op /\ e.via = w
  BY <1>2 DEF Entry
<1>4. /\ ui' \in Windows /\ SameButtons(u, ui') /\ ui'.worker = u.worker
      /\ ui'.pending = {p \in u.pending : p.id # ids[w] + 1} \cup {Entry(w, op)}
  BY <1>1, Noted
<1>5. ui'.config = u.config
  BY DEF Note, Windows
<1>6. EngineGone /\ Numbered /\ Matched
  BY DEF ControlsInv
<1>7. UNCHANGED down
  BY DEF Send
<1>8. \A v \in Workers : Results(v)' \subseteq Results(v)
  BY <1>7, ResultsKept
<1>9. /\ Numbered' /\ Matched' /\ ui'.pending = u.pending \cup {e}
      /\ \A v \in Workers : \A c \in Range(up'[v]) : c \in Range(up[v]) \/ (v = w /\ c = Line(w, op))
      /\ \A m \in Results(w)' : m.id # ids[w] + 1
  BY <1>1, <1>2, <1>4, <1>6, <1>8, NumbersNoted
<1>10. EngineGone'
  BY <1>1, <1>6, GoneNoted
<1>11. Starts' \subseteq {e}
  BY <1>9 DEF Starts
<1>12. PICK l : l = Line(w, op) /\ l.id = e.id
  <2>1. Line(w, op).id = ids[w] + 1
    BY DEF Line
  <2> QED
    BY <1>3, <2>1
<1>13. \A v \in Workers : \A d \in StartLines(v)' : v = w /\ d = l
  <2> SUFFICES ASSUME NEW v \in Workers, NEW d \in StartLines(v)'
               PROVE  v = w /\ d = l
    OBVIOUS
  <2>1. d \in Range(up'[v]) /\ d.op \in StartOps
    BY DEF StartLines
  <2>2. d \notin Range(up[v])
    BY <2>1 DEF StartLines
  <2> QED
    BY <1>9, <1>12, <2>1, <2>2
<1>14. OneStart'
  <2>1. ui'.starting /\ ~ui'.config
    BY <1>4, <1>5 DEF SameButtons
  <2> QED
    BY <1>3, <1>11, <1>12, <1>13, <2>1, StartBegun
<1>15. Buttons'
  BY <1>4 DEF Buttons, SameButtons
<1>16. IdleForStart'
  <2>1. \A p \in Starts' : \A m \in Results(p.via)' : m.id # p.id
    BY <1>3, <1>9, <1>11
  <2> QED
    BY <2>1, IdleBegun
<1>17. NothingStale'
  BY NoneStale
<1> QED
  BY <1>9, <1>10, <1>14, <1>15, <1>16, <1>17 DEF ControlsInv

\* Another command leaves the start where it is.
LEMMA OtherNoted ==
  ASSUME TypeOK, ViewerInv, ControlsInv, NEW w \in Workers, w = ui.worker,
         process # "none", UNCHANGED <<process, engine>>,
         NEW op \in {"stop_capture", "get_status"}, NEW u \in Windows, u.worker = ui.worker,
         u.pending = ui.pending, u.starting = ui.starting, u.start = ui.start,
         u.stop => ui.stop, u.config = ui.config,
         ui' = Note(u, w, op), Send(w, op), Range(queue') \subseteq Range(queue),
         NoNews(queue, queue')
  PROVE  ControlsInv'
<1>1. op \in Ops /\ op \notin StartOps
  BY DEF StartOps, Ops
<1>2. PICK e : e = Entry(w, op)
  OBVIOUS
<1>3. e.id = ids[w] + 1 /\ e.intent = op /\ e.via = w
  BY <1>2 DEF Entry
<1>4. /\ ui' \in Windows /\ SameButtons(u, ui') /\ ui'.worker = u.worker
      /\ ui'.pending = {p \in u.pending : p.id # ids[w] + 1} \cup {Entry(w, op)}
  BY <1>1, Noted
<1>5. ui'.config = u.config
  BY DEF Note, Windows
<1>6. EngineGone /\ Numbered /\ Matched /\ OneStart /\ Buttons /\ IdleForStart /\ NothingStale
  BY DEF ControlsInv
<1>7. UNCHANGED down
  BY DEF Send
<1>8. \A v \in Workers : Results(v)' \subseteq Results(v)
  BY <1>7, ResultsKept
<1>9. /\ Numbered' /\ Matched' /\ ui'.pending = ui.pending \cup {e}
      /\ \A v \in Workers : \A c \in Range(up'[v]) : c \in Range(up[v]) \/ (v = w /\ c = Line(w, op))
  <2>1. ui'.pending = {p \in ui.pending : p.id # ids[w] + 1} \cup {Entry(w, op)}
    BY <1>4
  <2>2. /\ Numbered' /\ Matched' /\ ui'.pending = ui.pending \cup {Entry(w, op)}
        /\ \A v \in Workers : \A c \in Range(up'[v]) : c \in Range(up[v]) \/ (v = w /\ c = Line(w, op))
    BY <1>1, <1>6, <1>8, <2>1, NumbersNoted
  <2> QED
    BY <1>2, <2>2
<1>10. EngineGone'
  BY <1>1, <1>6, GoneNoted
<1>11. Starts' \subseteq Starts
  BY <1>1, <1>3, <1>9 DEF Starts
<1>12. Line(w, op).op = op
  BY DEF Line
<1>13. \A v \in Workers : StartLines(v)' \subseteq StartLines(v)
  BY <1>1, <1>9, <1>12 DEF StartLines
<1>14. ui'.starting = ui.starting /\ ui'.config = ui.config /\ ui'.start = ui.start /\ (ui'.stop => ui.stop)
  BY <1>4, <1>5 DEF SameButtons
<1>15. OneStart'
  <2>1. process # "none" /\ ui.config => ui.starting
    BY <1>6 DEF OneStart
  <2> QED
    BY <1>6, <1>11, <1>13, <1>14, <2>1, StartKept
<1>16. Buttons'
  <2>1. e \in ui'.pending /\ e.intent \in {"stop_capture", "get_status"}
    BY <1>3, <1>9
  <2> QED
    BY <1>6, <1>14, <2>1 DEF Buttons
<1>17. IdleForStart'
  <2>1. \A p \in Starts : Results(p.via)' \subseteq Results(p.via)
    BY <1>8, WindowOnly DEF Starts
  <2> QED
    BY <1>6, <1>11, <1>13, <1>14, <2>1, IdleKept
<1>18. NothingStale'
  BY <1>6, <1>7, <1>11, <1>14, StaleKept
<1> QED
  BY <1>9, <1>10, <1>15, <1>16, <1>17, <1>18 DEF ControlsInv

LEMMA ConnectedHasProcess ==
  ASSUME TypeOK, ControlsInv, Connected
  PROVE  process # "none" /\ ui.worker \in Workers
<1>1. ui.worker \in Workers
  BY Basics DEF Connected
<1> QED
  BY <1>1 DEF ControlsInv, EngineGone, Connected

LEMMA StoppingControls ==
  ASSUME TypeOK, ViewerInv, ControlsInv, Connected, StopOverConnection(ui), UNCHANGED queue
  PROVE  ControlsInv'
<1>1. process # "none" /\ ui.worker \in Workers
  BY ConnectedHasProcess
<1>2. PICK u \in Windows : u = [ui EXCEPT !.stop = FALSE]
  BY DEF TypeOK, Windows
<1>3. /\ u.worker = ui.worker /\ u.pending = ui.pending /\ u.starting = ui.starting
      /\ u.start = ui.start /\ ~u.stop /\ u.config = ui.config
  BY <1>2 DEF TypeOK, Windows
<1>4. /\ ui' = Note(u, ui.worker, "stop_capture") /\ Send(ui.worker, "stop_capture")
      /\ UNCHANGED <<process, engine>>
  BY <1>2 DEF StopOverConnection
<1>5. NoNews(queue, queue)
  BY NoNewsOfNone DEF TypeOK
<1> QED
  BY <1>1, <1>3, <1>4, <1>5, OtherNoted

-----------------------------------------------------------------------------
(***************************************************************************)
(* The user's steps                                                        *)
(***************************************************************************)
LEMMA UserControls ==
  ASSUME Patient, TypeOK, ViewerInv, ControlsInv, User
  PROVE  ControlsInv'
<1>1. EngineGone /\ OneStart /\ Buttons /\ IdleForStart
  BY DEF ControlsInv
<1>2. PICK l \in Windows : l = Launched(ui)
  BY WasLaunched DEF TypeOK
<1>3. Same(ui, l) /\ l.starting /\ ~l.start /\ ~l.stop /\ l.config = ui.config
  BY <1>2, WasLaunched DEF Launched, SetControls, TypeOK, Windows
<1>4. ui.start => ~ui.starting /\ Starts = {} /\ (\A v \in Workers : StartLines(v) = {})
                  /\ (~engine.shared => ~engine.capturing)
  <2>1. ui.start => ~ui.starting /\ (~engine.shared => ~engine.capturing)
    BY <1>1 DEF Buttons, IdleForStart
  <2> QED
    BY <1>1, <2>1 DEF OneStart
<1>5. CASE StartOverConnection
  <2>1. /\ ui.start /\ Connected /\ ui' = Note(l, ui.worker, "configure")
        /\ Send(ui.worker, "configure") /\ UNCHANGED <<process, engine, queue>>
    BY <1>2, <1>5 DEF StartOverConnection
  <2>2. process # "none" /\ ui.worker \in Workers
    BY <2>1, ConnectedHasProcess
  <2>3. ~l.config
    BY <1>1, <1>3, <1>4, <2>1, <2>2 DEF OneStart
  <2>4. "configure" \in StartOps
    BY DEF StartOps
  <2>5. l.worker = ui.worker /\ l.pending = ui.pending
    BY <1>3 DEF Same
  <2>6. \A p \in l.pending : p.intent \notin StartOps
    BY <1>4, <2>1, <2>5 DEF Starts
  <2> QED
    BY <1>3, <1>4, <2>1, <2>2, <2>3, <2>4, <2>5, <2>6, StartNoted
<1>6. CASE StartWithoutConnection
  <2>1. ui.start /\ Settled /\ UNCHANGED <<connector, engine, queue>>
    BY <1>6 DEF StartWithoutConnection
  <2>2. Nobody /\ queue = <<>>
    BY <2>1 DEF Settled, Nobody
  <2>3. PICK u \in Windows : u = [l EXCEPT !.config = TRUE]
    BY DEF Windows
  <2>4. /\ Same(ui, u) /\ u.starting /\ ~u.start /\ ~u.stop
    BY <1>3, <2>3 DEF Windows, Same
  <2>5. \/ /\ process # "none"
           /\ \E w \in Workers : Connect(u, w)
           /\ UNCHANGED process
        \/ /\ process = "none"
           /\ process' = "starting" /\ ui' = u
           /\ UNCHANGED <<threads, wires>>
        \/ /\ process = "none"
           /\ ui' = RestoreControls(u)
           /\ UNCHANGED <<process, threads, wires>>
    BY <1>2, <1>6, <2>3 DEF StartWithoutConnection
  <2>6. ~ui.connected /\ ui.pending = {} /\ ~Waiting("connected")
    BY <2>2, SettledHasNone
  <2>7. \A v \in Workers : up'[v] = up[v] => StartLines(v)' = {}
    BY <1>4, <2>1 DEF StartLines
  <2>8. CASE process # "none"
    BY <2>1, <2>2, <2>4, <2>5, <2>8, ConnectingControls
  <2>9. CASE process' = "starting" /\ ui' = u /\ UNCHANGED <<threads, wires>>
    <3>1. ui'.pending = {} /\ ~ui'.connected /\ UNCHANGED <<ids, up, down>>
      BY <2>4, <2>6, <2>9 DEF Same, wires
    <3>2. EngineGone'
      BY <1>1, <2>1, <2>9, <3>1 DEF EngineGone
    <3>3. Buttons'
      BY <2>4, <2>9, <3>1 DEF Buttons, Connected
    <3> QED
      BY <1>4, <2>1, <2>4, <2>7, <2>9, <3>1, <3>2, <3>3, NoStarts, Rested
  <2>10. CASE process = "none" /\ ui' = RestoreControls(u) /\ UNCHANGED <<process, threads, wires>>
    <3>1. Same(u, ui') /\ Startable(ui')
      BY <2>10, ControlsRestored
    <3>2. ui'.pending = {} /\ ~ui'.connected /\ UNCHANGED <<ids, up, down>>
      BY <2>4, <2>6, <2>10, <3>1 DEF Same, wires
    <3>3. EngineGone'
      BY <1>1, <2>1, <2>6, <2>10, <3>2 DEF EngineGone, Waiting
    <3>4. Buttons'
      BY <3>1, <3>2 DEF Buttons, Startable, Connected
    <3> QED
      BY <1>4, <2>1, <2>7, <2>10, <3>2, <3>3, <3>4, NoStarts, Rested
  <2> QED
    BY <2>5, <2>8, <2>9, <2>10
<1>7. CASE ClickStop
  <2>1. CASE Connected
    BY <1>7, <2>1, StoppingControls DEF ClickStop
  <2>2. CASE ~Connected
    <3>1. Same(ui, ui) /\ ui \in Windows
      BY DEF Same, TypeOK
    <3>2. KillProcess(ui) /\ UNCHANGED queue
      BY <1>7, <2>2 DEF ClickStop
    <3> QED
      BY <3>1, <3>2, KillingControls
  <2> QED
    BY <2>1, <2>2
<1>8. CASE ClickAttach
  <2>1. Settled /\ UNCHANGED <<process, engine, queue>> /\ \E w \in Workers : Connect(ui, w)
    BY <1>8 DEF ClickAttach
  <2>2. Nobody /\ queue = <<>>
    BY <2>1 DEF Settled, Nobody
  <2>3. Same(ui, ui) /\ SameButtons(ui, ui) /\ ui \in Windows
    BY DEF Same, SameButtons, TypeOK
  <2> QED
    BY <2>1, <2>2, <2>3, ConnectingControls
<1>9. CASE Detach
  BY <1>9, DetachControls
<1> QED
  BY <1>5, <1>6, <1>7, <1>8, <1>9 DEF User

-----------------------------------------------------------------------------
(***************************************************************************)
(* The steps of the engine process                                         *)
(***************************************************************************)
LEMMA ProcessControls ==
  ASSUME TypeOK, ViewerInv, ControlsInv, Process
  PROVE  ControlsInv'
<1>1. /\ EngineGone /\ Numbered /\ Matched /\ OneStart /\ Buttons /\ IdleForStart /\ NothingStale
  BY DEF ControlsInv
<1>2. Same(ui, ui) /\ SameButtons(ui, ui) /\ ui \in Windows
  BY DEF Same, SameButtons, TypeOK
<1>3. CASE ProcessStarted
  <2>1. process # "none" /\ process' # "none" /\ UNCHANGED <<ui, engine, ids, up, down, queue>>
    BY <1>3 DEF ProcessStarted, wires
  <2>2. Starts' = Starts /\ \A w \in Workers : Results(w)' = Results(w) /\ StartLines(w)' = StartLines(w)
    BY <2>1 DEF Starts, Results, StartLines
  <2>3. EngineGone'
    BY <1>1, <2>1 DEF EngineGone
  <2>4. Numbered' /\ Matched'
    BY <1>1, <2>1, <2>2, NumbersKept
  <2>5. OneStart'
    <3>1. process' # "none" /\ ui.config => ui.starting
      BY <1>1, <2>1 DEF OneStart
    <3> QED
      BY <1>1, <2>1, <2>2, <3>1, StartKept
  <2>6. Buttons'
    BY <1>1, <2>1 DEF Buttons, Connected
  <2>7. IdleForStart'
    <3>1. \A p \in Starts : Results(p.via)' \subseteq Results(p.via)
      BY <2>2, WindowOnly DEF Starts
    <3> QED
      BY <1>1, <2>1, <2>2, <3>1, IdleKept
  <2>8. NothingStale'
    <3>1. NoNews(queue, queue)
      BY NoNewsOfNone DEF TypeOK
    <3> QED
      BY <1>1, <2>1, <2>2, <3>1, StaleKept
  <2> QED
    BY <2>3, <2>4, <2>5, <2>6, <2>7, <2>8 DEF ControlsInv
<1>4. CASE ProcessStopped
  BY <1>2, <1>4, EndingControls DEF ProcessStopped
<1>5. CASE SocketReady
  <2>1. connector /\ UNCHANGED <<process, engine, queue>> /\ \E w \in Workers : Connect(ui, w)
    BY <1>5 DEF SocketReady
  <2>2. Nobody /\ queue = <<>>
    BY <2>1 DEF ViewerInv, OneConnection
  <2> QED
    BY <1>2, <2>1, <2>2, ConnectingControls
<1>6. CASE SocketFailed
  <2>1. Nobody /\ queue = <<>>
    BY <1>6 DEF SocketFailed, ViewerInv, OneConnection
  <2>2. ~Connected
    BY <2>1, SettledHasNone DEF Connected
  <2>3. PICK u \in Windows : u = [ui EXCEPT !.config = FALSE]
    BY DEF TypeOK, Windows
  <2>4. Same(ui, u)
    BY <2>3 DEF Same, TypeOK, Windows
  <2>5. KillProcess(u) /\ UNCHANGED queue
    BY <1>6, <2>2, <2>3 DEF SocketFailed
  <2> QED
    BY <2>4, <2>5, KillingControls
<1>7. CASE EngineListens
  <2>1. process # "none" /\ ~engine.up /\ UNCHANGED <<ui, process, ids, up, down, queue>>
    BY <1>7 DEF EngineListens, wires
  <2>2. engine = Off
    BY <1>1, <2>1 DEF EngineGone
  <2>3. engine'.up /\ ~engine'.capturing /\ ~engine'.shared /\ ~engine.shared
    BY <1>7, <2>2 DEF EngineListens, Off
  <2>4. Starts' = Starts /\ \A w \in Workers : Results(w)' = Results(w) /\ StartLines(w)' = StartLines(w)
    BY <2>1 DEF Starts, Results, StartLines
  <2>5. EngineGone'
    BY <2>1, <2>3 DEF EngineGone
  <2>6. Numbered' /\ Matched'
    BY <1>1, <2>1, <2>4, NumbersKept
  <2>7. OneStart'
    <3>1. process' # "none" /\ ui.config => ui.starting
      BY <1>1, <2>1 DEF OneStart
    <3> QED
      BY <1>1, <2>1, <2>4, <3>1, StartKept
  <2>8. Buttons'
    BY <1>1, <2>1 DEF Buttons, Connected
  <2>9. IdleForStart'
    BY <2>3 DEF IdleForStart
  <2>10. NothingStale'
    BY <2>3, NoneStale
  <2> QED
    BY <2>5, <2>6, <2>7, <2>8, <2>9, <2>10 DEF ControlsInv
<1> QED
  BY <1>3, <1>4, <1>5, <1>6, <1>7 DEF Process

-----------------------------------------------------------------------------
(***************************************************************************)
(* The window's slots                                                      *)
(***************************************************************************)
\* What a slot finds and leaves.
LEMMA Slotted ==
  ASSUME TypeOK, queue # <<>>, Taken
  PROVE  /\ queue' = Tail(queue) /\ UNCHANGED <<process, engine>>
         /\ Head(queue) \in Range(queue) /\ Head(queue) \in Signals
         /\ Range(queue') \subseteq Range(queue) /\ NoNews(queue, queue')
<1>1. queue \in Seq(Signals) /\ queue' = Tail(queue) /\ UNCHANGED <<process, engine>>
  BY DEF TypeOK, Taken
<1>2. Range(queue) = Range(Tail(queue)) \cup {Head(queue)} /\ Head(queue) \in Signals
  BY <1>1, Popped
<1>3. NoNews(queue, Tail(queue))
  BY <1>1, NoNewsOfNone
<1> QED
  BY <1>1, <1>2, <1>3

LEMMA NoticeControls ==
  ASSUME TypeOK, ViewerInv, ControlsInv, OnConnecting \/ OnConnected
  PROVE  ControlsInv'
<1>1. EngineGone /\ OneStart /\ Buttons /\ IdleForStart
  BY DEF ControlsInv
<1>2. queue # <<>> /\ Taken
  BY DEF OnConnecting, OnConnected, Posted
<1>3. /\ UNCHANGED <<process, engine>> /\ Range(queue') \subseteq Range(queue)
      /\ NoNews(queue, queue') /\ Head(queue) \in Range(queue)
  BY <1>2, Slotted
<1>4. CASE OnConnecting
  <2>1. ui' = [ui EXCEPT !.connected = FALSE, !.attach = "connecting"] /\ UNCHANGED <<ids, up, down>>
    BY <1>4 DEF OnConnecting, wires
  <2>2. /\ ui'.worker = ui.worker /\ ~ui'.connected /\ ui'.pending = ui.pending
        /\ ui'.starting = ui.starting /\ ui'.config = ui.config
        /\ ui'.start = ui.start /\ ui'.stop = ui.stop
    BY <2>1 DEF TypeOK, Windows
  <2>3. Buttons'
    BY <1>1, <2>2 DEF Buttons, Connected
  <2> QED
    BY <1>3, <2>1, <2>2, <2>3, Heard
<1>5. CASE OnConnected
  <2>1. PICK wanted \in BOOLEAN : wanted = (ui.starting /\ ui.config)
    OBVIOUS
  <2>2. PICK op \in Ops : op = IF wanted THEN "configure" ELSE "get_status"
    BY DEF Ops
  <2>3. PICK u \in Windows : u = [ui EXCEPT !.connected = TRUE, !.attach = "detach",
                                            !.config = @ /\ ~wanted]
    BY DEF TypeOK, Windows
  <2>4. /\ u.worker = ui.worker /\ u.pending = ui.pending /\ u.starting = ui.starting
        /\ u.start = ui.start /\ u.stop = ui.stop /\ u.config = (ui.config /\ ~wanted)
    BY <2>3 DEF TypeOK, Windows
  <2>5. IF ui.worker = None THEN ui' = u /\ UNCHANGED wires
        ELSE ui' = Note(u, ui.worker, op) /\ Send(ui.worker, op)
    BY <1>5, <2>1, <2>2, <2>3 DEF OnConnected
  <2>6. CASE ui.worker = None
    <3>1. ui' = u /\ UNCHANGED <<ids, up, down>>
      BY <2>5, <2>6 DEF wires
    <3>2. Buttons'
      BY <1>1, <2>4, <2>6, <3>1 DEF Buttons, Connected
    <3> QED
      BY <1>3, <2>4, <2>6, <3>1, <3>2, Heard
  <2>7. CASE ui.worker # None
    <3>1. ui.worker \in Workers /\ ui' = Note(u, ui.worker, op) /\ Send(ui.worker, op)
      BY <2>5, <2>7, WindowOnly
    <3>2. process # "none"
      <4>1. Head(queue).kind = "connected"
        BY <1>5 DEF OnConnected, Posted
      <4>2. Waiting("connected")
        BY <1>3, <4>1 DEF Waiting
      <4> QED
        BY <1>1, <2>7, <4>2 DEF EngineGone
    <3>3. CASE wanted
      <4>1. op \in StartOps
        BY <2>2, <3>3 DEF StartOps
      <4>2. Starts = {} /\ \A v \in Workers : StartLines(v) = {}
        BY <1>1, <2>1, <3>3 DEF OneStart
      <4>3. \A p \in u.pending : p.intent \notin StartOps
        BY <2>4, <4>2 DEF Starts
      <4>4. u.starting /\ ~u.config /\ ~u.start /\ (~engine.shared => ~engine.capturing)
        BY <1>1, <2>1, <2>4, <3>3 DEF Buttons, IdleForStart
      <4>5. u.pending \subseteq ui.pending
        BY <2>4
      <4> QED
        BY <1>3, <2>4, <3>1, <3>2, <4>1, <4>2, <4>3, <4>4, <4>5, StartNoted
    <3>4. CASE ~wanted
      <4>1. op \in {"stop_capture", "get_status"}
        BY <2>2, <3>4
      <4>2. u.config = ui.config
        BY <2>4, <3>4 DEF TypeOK, Windows
      <4> QED
        BY <1>3, <2>4, <3>1, <3>2, <4>1, <4>2, OtherNoted
    <3> QED
      BY <3>3, <3>4
  <2> QED
    BY <2>6, <2>7
<1> QED
  BY <1>4, <1>5

LEMMA EndControls ==
  ASSUME TypeOK, ViewerInv, ControlsInv, OnDisconnected \/ OnWorkerFinished
  PROVE  ControlsInv'
<1>1. EngineGone /\ OneStart /\ Buttons
  BY DEF ControlsInv
<1>2. queue # <<>> /\ Taken /\ UNCHANGED <<ids, up, down>>
  BY DEF OnDisconnected, OnWorkerFinished, Posted, wires
<1>3. /\ UNCHANGED <<process, engine>> /\ Range(queue') \subseteq Range(queue) /\ NoNews(queue, queue')
  BY <1>2, Slotted
<1>4. PICK d \in Windows : d = Disconnected(ui)
  BY WasDisconnected DEF TypeOK
<1>5. /\ d.worker = ui.worker /\ ~d.connected /\ d.pending = {}
      /\ IF process = "none" THEN Startable(d) ELSE SameButtons(ui, d)
  BY <1>4, WasDisconnected DEF TypeOK
<1>6. d.config = ui.config
  BY <1>4 DEF Disconnected, SetControls, TypeOK, Windows
<1>7. /\ ui'.worker \in {None, ui.worker} /\ ~ui'.connected /\ ui'.pending = {}
      /\ SameButtons(d, ui') /\ ui'.config = d.config
  <2>1. CASE OnDisconnected
    BY <1>4, <1>5, <2>1 DEF OnDisconnected, SameButtons
  <2>2. CASE OnWorkerFinished
    <3>1. ui' = [d EXCEPT !.worker = None]
      BY <1>4, <2>2 DEF OnWorkerFinished
    <3> QED
      BY <1>5, <3>1 DEF SameButtons, Windows
  <2> QED
    BY <2>1, <2>2
<1>8. CASE process = "none"
  <2>1. ~engine.capturing /\ \A w \in Workers : up[w] = <<>>
    BY <1>8, WithoutProcess
  <2>2. EngineGone'
    <3>1. Waiting("connected")' => Waiting("connected")
      BY <1>3 DEF Waiting
    <3> QED
      BY <1>1, <1>2, <1>3, <1>7, <3>1 DEF EngineGone, Off
  <2>3. Buttons'
    BY <1>5, <1>7, <1>8 DEF Buttons, Startable, SameButtons, Connected
  <2>4. \A w \in Workers : StartLines(w)' = {}
    BY <1>2, <2>1, NothingUp
  <2> QED
    BY <1>2, <1>3, <1>7, <1>8, <2>1, <2>2, <2>3, <2>4, NoStarts, Rested
<1>9. CASE process # "none"
  <2>1. SameButtons(ui, ui')
    BY <1>5, <1>7, <1>9 DEF SameButtons
  <2>2. Buttons'
    BY <1>1, <1>7, <2>1 DEF Buttons, SameButtons, Connected
  <2> QED
    BY <1>2, <1>3, <1>6, <1>7, <2>1, <2>2, Heard DEF SameButtons
<1> QED
  BY <1>8, <1>9

\* The state that the window is told is the engine's, unless a start is under
\* way or someone else uses it.
LEMMA ToldControls ==
  ASSUME TypeOK, ViewerInv, ControlsInv, queue # <<>>, Taken, UNCHANGED <<ids, up, down>>,
         NEW u \in Windows, u.worker = ui.worker, u.connected = ui.connected,
         u.pending \subseteq ui.pending, u.starting = ui.starting, u.config = ui.config,
         NEW state \in EngineStates, ui' = ApplyEngineState(u, state),
         ~ui.starting => state = "capturing" \/ engine.shared \/ ~engine.capturing
  PROVE  ControlsInv'
<1>1. /\ UNCHANGED <<process, engine>> /\ Range(queue') \subseteq Range(queue) /\ NoNews(queue, queue')
  BY Slotted
<1>2. PICK capture \in BOOLEAN : capture = (state = "capturing")
  OBVIOUS
<1>3. PICK v \in Windows : v = [u EXCEPT !.engine_state = state]
  BY DEF Windows
<1>4. Same(u, v) /\ v.starting = u.starting /\ v.config = u.config
  BY <1>3 DEF Windows, Same
<1>5. ui' = SetControls(v, capture)
  BY <1>2, <1>3 DEF ApplyEngineState
<1>6. /\ Same(v, ui') /\ ui'.starting = v.starting
      /\ ui'.start = (~capture /\ ~v.starting) /\ ui'.stop = capture
  BY <1>5, ControlsSet
<1>7. ui'.config = v.config
  BY <1>5 DEF SetControls, Windows
<1>8. /\ ui'.worker = ui.worker /\ ui'.connected = ui.connected /\ ui'.pending \subseteq ui.pending
      /\ ui'.starting = ui.starting /\ ui'.config = ui.config
  BY <1>4, <1>6, <1>7 DEF Same
<1>9. Buttons'
  BY <1>6 DEF Buttons
<1>10. ui'.start => engine.shared \/ ~engine.capturing
  BY <1>2, <1>4, <1>6
<1> QED
  BY <1>1, <1>8, <1>9, <1>10, Heard

LEMMA StatusControls ==
  ASSUME TypeOK, ViewerInv, ControlsInv, OnStatus
  PROVE  ControlsInv'
<1>1. Buttons /\ NothingStale
  BY DEF ControlsInv
<1>2. /\ queue # <<>> /\ Head(queue).kind = "status" /\ Taken /\ UNCHANGED <<ids, up, down>>
      /\ ui' = IF ui.starting THEN ui ELSE ApplyEngineState(ui, Head(queue).state)
  BY DEF OnStatus, Posted, wires
<1>3. /\ UNCHANGED <<process, engine>> /\ Range(queue') \subseteq Range(queue) /\ NoNews(queue, queue')
      /\ Head(queue) \in Range(queue) /\ Head(queue) \in Signals
  BY <1>2, Slotted
<1>4. CASE ui.starting
  <2>1. ui' = ui
    BY <1>2, <1>4
  <2>2. Buttons'
    BY <1>1, <2>1 DEF Buttons, Connected
  <2> QED
    BY <1>2, <1>3, <2>1, <2>2, Heard
<1>5. CASE ~ui.starting
  <2>1. Head(queue).state \in EngineStates
    BY <1>2, <1>3 DEF Signals, Notices, Statuses, Replies
  <2>2. ~engine.shared /\ engine.capturing => Head(queue).state = "capturing"
    BY <1>1, <1>2, <1>3, <1>5 DEF NothingStale, AllCurrent, Current
  <2>3. ui' = ApplyEngineState(ui, Head(queue).state) /\ ui \in Windows
    BY <1>2, <1>5 DEF TypeOK
  <2>4. engine.shared \in BOOLEAN /\ engine.capturing \in BOOLEAN
    BY DEF TypeOK, Engines
  <2> QED
    BY <1>2, <2>1, <2>2, <2>3, <2>4, ToldControls
<1> QED
  BY <1>4, <1>5

\* The answer to a command of a start is the end of that command: its line is
\* gone, and there is no other.
LEMMA StartAnswered ==
  ASSUME TypeOK, ViewerInv, ControlsInv, NEW p \in Starts, queue # <<>>,
         Head(queue).kind = "result", Head(queue).id = p.id
  PROVE  /\ Head(queue) \in Results(p.via)
         /\ \A w \in Workers : StartLines(w) = {}
         /\ \A q \in ui.pending : q.id # p.id => q.intent \notin StartOps
         /\ ui.starting /\ ~ui.config
<1>1. Numbered /\ OneStart
  BY DEF ControlsInv
<1>2. Head(queue) \in Range(queue) /\ Head(queue) \in Signals
  BY Popped DEF TypeOK
<1>3. p \in ui.pending /\ p.via = ui.worker /\ p.via \in Workers /\ ui.worker # None
  BY WindowOnly DEF Starts
<1>4. Head(queue) \in Results(p.via)
  <2>1. Head(queue).via = p.via
    BY <1>2, <1>3, WindowOnly
  <2> QED
    BY <1>2, <2>1 DEF Results
<1>5. ASSUME NEW w \in Workers, NEW c \in StartLines(w)
      PROVE  FALSE
  <2>1. p.via = w /\ p.id = c.id
    BY <1>1, <1>5 DEF OneStart
  <2>2. c \in Range(up[w])
    BY <1>5 DEF StartLines
  <2>3. Head(queue).id < c.id
    BY <1>1, <1>3, <1>4, <2>1, <2>2 DEF Numbered
  <2>4. p.id \in Nat
    BY <1>3, WindowOnly
  <2> QED
    BY <2>1, <2>3, <2>4
<1>6. ui.starting /\ ~ui.config /\ \A q \in Starts : q = p
  BY <1>1 DEF OneStart
<1>7. \A q \in ui.pending : q.id # p.id => q.intent \notin StartOps
  BY <1>6 DEF Starts
<1> QED
  BY <1>4, <1>5, <1>6, <1>7

\* The start fails, or it is the engine's turn to say that it captures.
LEMMA StartOverControls ==
  ASSUME TypeOK, ViewerInv, ControlsInv, queue # <<>>, Taken, UNCHANGED <<ids, up, down>>,
         NEW p \in Starts, Head(queue).kind = "result", Head(queue).id = p.id,
         ui'.pending = ui.pending \ {q \in ui.pending : q.id = p.id},
         ui'.worker = ui.worker, ui'.connected = ui.connected, ui'.config = ui.config,
         \/ Startable(ui') /\ (~engine.shared => ~engine.capturing)
         \/ p.intent = "start_capture" /\ ~ui'.start /\ ui'.stop /\ ~ui'.starting
  PROVE  ControlsInv'
<1>1. /\ queue' = Tail(queue) /\ UNCHANGED <<process, engine>>
      /\ Range(queue') \subseteq Range(queue) /\ Head(queue) \in Range(queue)
      /\ Head(queue) \in Signals
  BY Slotted
<1>2. /\ \A w \in Workers : StartLines(w) = {}
      /\ \A q \in ui.pending : q.id # p.id => q.intent \notin StartOps
      /\ ~ui.config
  BY StartAnswered
<1>3. EngineGone /\ NothingStale
  BY DEF ControlsInv
<1>4. ui'.pending \subseteq ui.pending /\ Starts' = {}
  BY <1>2 DEF Starts
<1>5. \A w \in Workers : StartLines(w)' = {}
  BY <1>2 DEF StartLines
<1>6. EngineGone'
  <2>1. Waiting("connected")' => Waiting("connected")
    BY <1>1 DEF Waiting
  <2>2. ui.pending = {} => ui'.pending = {}
    BY <1>4
  <2> QED
    BY <1>1, <1>3, <2>1, <2>2 DEF EngineGone, Off
<1>7. Buttons'
  BY DEF Buttons, Startable
<1>8. CASE Startable(ui') /\ (~engine.shared => ~engine.capturing)
  BY <1>1, <1>2, <1>4, <1>5, <1>6, <1>7, <1>8, Rested
<1>9. CASE p.intent = "start_capture" /\ ~ui'.start /\ ui'.stop /\ ~ui'.starting
  <2>1. OneStart'
    BY <1>2, <1>4, <1>5, StartOver
  <2>2. IdleForStart'
    BY <1>2, <1>4, <1>5, <1>9 DEF IdleForStart
  <2>3. NothingStale'
    <3> SUFFICES ASSUME ~engine.shared, engine.capturing
                 PROVE  AllCurrent(queue') /\ \A w \in Workers : AllCurrent(down[w])
      BY <1>1, <1>4 DEF NothingStale, AllCurrent, Current
    <3>1. /\ AfterAnswer(queue, p.id)
          /\ AnswerIn(queue, p.id) => AllCurrent(down[p.via])
      BY <1>3, <1>9 DEF NothingStale
    <3>2. Answers(Head(queue), p.id)
      BY DEF Answers
    <3>3. AllCurrent(queue')
      <4>1. queue \in Seq(Signals)
        BY DEF TypeOK
      <4>2. Answers(Head(queue), p.id) => AllCurrent(Tail(queue))
        BY <3>1, <4>1, AfterTail
      <4> QED
        BY <1>1, <3>2, <4>2
    <3>4. AllCurrent(down[p.via])
      BY <1>1, <3>1, <3>2 DEF AnswerIn
    <3>5. \A w \in Workers : w = p.via \/ down[w] = <<>>
      BY WindowOnly DEF Starts
    <3> QED
      BY <3>3, <3>4, <3>5, AfterEmpty
  <2> QED
    BY <1>1, <1>4, <1>6, <1>7, <2>1, <2>2, <2>3, LessPending
<1> QED
  BY <1>8, <1>9

LEMMA ResultControls ==
  ASSUME TypeOK, ViewerInv, ControlsInv, OnResult
  PROVE  ControlsInv'
<1>1. Numbered /\ Matched /\ OneStart /\ Buttons /\ IdleForStart /\ NothingStale
  BY DEF ControlsInv
<1>2. queue # <<>> /\ Head(queue).kind = "result" /\ Taken
  BY DEF OnResult, Posted
<1>3. /\ UNCHANGED <<process, engine>> /\ Range(queue') \subseteq Range(queue) /\ NoNews(queue, queue')
      /\ Head(queue) \in Range(queue) /\ Head(queue) \in Signals
  BY <1>2, Slotted
<1>4. PICK m \in Replies : m = Head(queue) /\ m.kind = "result"
  BY <1>2, <1>3 DEF Signals, Notices, Statuses
<1>5. m.state \in EngineStates /\ m.ok \in BOOLEAN
  BY DEF Replies
<1>6. PICK u \in Windows : u = [ui EXCEPT !.pending = @ \ Answered]
  BY DEF TypeOK, Windows
<1>7. /\ u.worker = ui.worker /\ u.connected = ui.connected
      /\ u.pending = ui.pending \ Answered /\ u.pending \subseteq ui.pending
      /\ u.starting = ui.starting /\ u.config = ui.config
      /\ u.start = ui.start /\ u.stop = ui.stop /\ u.engine_state \in EngineStates
  BY <1>6 DEF TypeOK, Windows
<1>8. \/ Intent = "configure" /\ m.ok /\ ui.worker # None
         /\ ui' = Note(u, ui.worker, "start_capture") /\ Send(ui.worker, "start_capture")
      \/ Intent = "configure" /\ m.ok /\ ui.worker = None /\ ui' = u /\ UNCHANGED wires
      \/ Intent = "configure" /\ ~m.ok /\ ui' = RestoreControls(u) /\ UNCHANGED wires
      \/ Intent = "start_capture" /\ UNCHANGED wires
         /\ ui' = LET v == [u EXCEPT !.starting = FALSE] IN
                  IF m.ok THEN ApplyEngineState(v, "capturing") ELSE SetControls(v, FALSE)
      \/ Intent = "stop_capture" /\ UNCHANGED wires
         /\ ui' = ApplyEngineState(u, IF m.ok THEN "idle" ELSE u.engine_state)
      \/ Intent = "get_status" /\ ui' = ApplyEngineState(u, m.state) /\ UNCHANGED wires
      \/ Intent = "none" /\ ui' = u /\ UNCHANGED wires
  <2>1. Intent \in Ops \cup {"none"}
    BY WindowOnly DEF Intent, Answered
  <2> QED
    BY <1>4, <1>5, <1>6, <2>1 DEF OnResult, Ops
<1>9. ASSUME Intent # "none"
      PROVE  \E p \in ui.pending : p.intent = Intent /\ p.id = m.id
  BY <1>4, <1>9 DEF Intent, Answered
<1>10. ASSUME NEW p \in ui.pending, p.id = m.id
       PROVE  m \in Results(p.via) /\ p.via \in Workers /\ Answered = {q \in ui.pending : q.id = p.id}
  <2>1. p.via = ui.worker /\ p.via \in Workers /\ ui.worker # None
    BY WindowOnly
  <2>2. m.via = p.via
    BY <1>3, <1>4, <2>1, WindowOnly
  <2> QED
    BY <1>3, <1>4, <1>10, <2>1, <2>2 DEF Results, Answered
<1>11. CASE Intent = "none"
  <2>1. ui' = u /\ UNCHANGED <<ids, up, down>>
    BY <1>8, <1>11 DEF wires
  <2>2. ui'.pending = ui.pending
    <3>1. Answered = {}
      <4>1. ASSUME Answered # {}
            PROVE  FALSE
        <5>1. (CHOOSE p \in Answered : TRUE) \in ui.pending
          BY <4>1 DEF Answered
        <5> QED
          BY <1>11, <4>1, <5>1, WindowOnly DEF Intent, Ops
      <4> QED
        BY <4>1
    <3> QED
      BY <1>7, <2>1, <3>1
  <2>3. Buttons'
    BY <1>1, <1>7, <2>1, <2>2 DEF Buttons, Connected
  <2> QED
    BY <1>3, <1>7, <2>1, <2>2, <2>3, Heard
<1>12. CASE Intent = "get_status"
  <2>1. ui' = ApplyEngineState(u, m.state) /\ UNCHANGED <<ids, up, down>>
    BY <1>8, <1>12 DEF wires
  <2>2. ~ui.starting => m.state = "capturing" \/ engine.shared \/ ~engine.capturing
    BY <1>1, <1>3, <1>4 DEF NothingStale, AllCurrent, Current
  <2> QED
    BY <1>2, <1>5, <1>7, <2>1, <2>2, ToldControls
<1>13. CASE Intent = "stop_capture"
  <2>1. PICK state \in EngineStates : state = IF m.ok THEN "idle" ELSE u.engine_state
    BY <1>7 DEF EngineStates
  <2>2. ui' = ApplyEngineState(u, state) /\ UNCHANGED <<ids, up, down>>
    BY <1>8, <1>13, <2>1 DEF wires
  <2>3. PICK p \in ui.pending : p.intent = "stop_capture" /\ p.id = m.id
    BY <1>9, <1>13
  <2>4. m.op = "stop_capture" /\ m.state = "idle"
    BY <1>1, <1>10, <2>3 DEF Matched
  <2>5. ~ui.starting => engine.shared \/ ~engine.capturing
    BY <1>1, <1>3, <1>4, <2>4 DEF NothingStale, AllCurrent, Current
  <2> QED
    BY <1>2, <1>7, <2>2, <2>5, ToldControls
<1>14. CASE Intent \in StartOps
  <2>1. PICK p \in ui.pending : p.intent = Intent /\ p.id = m.id
    BY <1>9, <1>14 DEF StartOps
  <2>2. /\ p \in Starts /\ Head(queue).id = p.id
        /\ m \in Results(p.via) /\ p.via \in Workers
        /\ Answered = {q \in ui.pending : q.id = p.id}
    BY <1>4, <1>10, <1>14, <2>1 DEF Starts
  <2>3. /\ \A w \in Workers : StartLines(w) = {}
        /\ \A q \in ui.pending : q.id # p.id => q.intent \notin StartOps
        /\ ui.starting /\ ~ui.config
    BY <1>2, <2>2, StartAnswered
  <2>4. p.via = ui.worker /\ ui.worker \in Workers /\ ui.worker # None
    BY <2>2, WindowOnly
  <2>5. CASE Intent = "configure" /\ m.ok
    <3>1. ui' = Note(u, ui.worker, "start_capture") /\ Send(ui.worker, "start_capture")
      BY <1>8, <2>4, <2>5
    <3>2. \A q \in u.pending : q.intent \notin StartOps
      BY <1>7, <2>2, <2>3
    <3>3. ~u.start /\ (~engine.shared => ~engine.capturing)
      BY <1>1, <1>7, <2>1, <2>2, <2>3, <2>5 DEF Buttons, IdleForStart
    <3>4. process # "none"
      BY <2>1 DEF ControlsInv, EngineGone
    <3>5. "start_capture" \in StartOps /\ u.starting /\ ~u.config
      BY <1>7, <2>3 DEF StartOps
    <3> QED
      BY <1>3, <1>7, <2>3, <2>4, <3>1, <3>2, <3>3, <3>4, <3>5, StartNoted
  <2>6. CASE Intent = "configure" /\ ~m.ok
    <3>1. ui' = RestoreControls(u) /\ UNCHANGED <<ids, up, down>>
      BY <1>8, <2>6 DEF wires
    <3>2. Same(u, ui') /\ Startable(ui')
      BY <3>1, ControlsRestored
    <3>3. ui'.config = u.config
      BY <3>1 DEF RestoreControls, SetControls, Windows
    <3>4. ~engine.shared => ~engine.capturing
      BY <1>1, <2>1, <2>2, <2>6 DEF IdleForStart
    <3>5. /\ ui'.pending = ui.pending \ {q \in ui.pending : q.id = p.id}
          /\ ui'.worker = ui.worker /\ ui'.connected = ui.connected /\ ui'.config = ui.config
      BY <1>7, <2>2, <3>2, <3>3 DEF Same
    <3> QED
      BY <1>2, <2>2, <3>1, <3>2, <3>4, <3>5, StartOverControls
  <2>7. CASE Intent = "start_capture"
    <3>1. PICK v \in Windows : v = [u EXCEPT !.starting = FALSE]
      BY DEF Windows
    <3>2. Same(u, v) /\ ~v.starting /\ v.config = u.config
      BY <3>1 DEF Windows, Same
    <3>3. /\ UNCHANGED <<ids, up, down>>
          /\ ui' = IF m.ok THEN ApplyEngineState(v, "capturing") ELSE SetControls(v, FALSE)
      BY <1>8, <2>7, <3>1 DEF wires, StartOps
    <3>4. CASE m.ok
      <4>1. PICK x \in Windows : x = [v EXCEPT !.engine_state = "capturing"]
        BY DEF Windows, EngineStates
      <4>2. Same(v, x) /\ ~x.starting /\ x.config = v.config
        BY <3>2, <4>1 DEF Windows, Same
      <4>3. ui' = SetControls(x, TRUE)
        BY <3>3, <3>4, <4>1 DEF ApplyEngineState
      <4>4. Same(x, ui') /\ ~ui'.starting /\ ~ui'.start /\ ui'.stop
        BY <4>2, <4>3, ControlsSet
      <4>5. ui'.config = x.config
        BY <4>3 DEF SetControls, Windows
      <4>6. /\ ui'.pending = ui.pending \ {q \in ui.pending : q.id = p.id}
            /\ ui'.worker = ui.worker /\ ui'.connected = ui.connected /\ ui'.config = ui.config
        BY <1>7, <2>2, <3>2, <4>2, <4>4, <4>5 DEF Same
      <4> QED
        BY <1>2, <2>1, <2>2, <2>7, <3>3, <4>4, <4>6, StartOverControls
    <3>5. CASE ~m.ok
      <4>1. ui' = SetControls(v, FALSE)
        BY <3>3, <3>5
      <4>2. Same(v, ui') /\ Startable(ui')
        BY <3>2, <4>1, ControlsSet DEF Startable
      <4>3. ui'.config = v.config
        BY <4>1 DEF SetControls, Windows
      <4>4. ~engine.shared => ~engine.capturing
        BY <1>1, <2>1, <2>2, <3>5 DEF IdleForStart
      <4>5. /\ ui'.pending = ui.pending \ {q \in ui.pending : q.id = p.id}
            /\ ui'.worker = ui.worker /\ ui'.connected = ui.connected /\ ui'.config = ui.config
        BY <1>7, <2>2, <3>2, <4>2, <4>3 DEF Same
      <4> QED
        BY <1>2, <2>2, <3>3, <4>2, <4>4, <4>5, StartOverControls
    <3> QED
      BY <1>5, <3>4, <3>5
  <2> QED
    BY <1>5, <1>14, <2>5, <2>6, <2>7 DEF StartOps
<1> QED
  BY <1>8, <1>11, <1>12, <1>13, <1>14 DEF StartOps

-----------------------------------------------------------------------------
(***************************************************************************)
(* The invariant                                                           *)
(***************************************************************************)
LEMMA ControlsInit ==
  ASSUME Init
  PROVE  ControlsInv
<1>1. /\ ui.worker = None /\ ~ui.connected /\ ui.pending = {} /\ ~ui.starting /\ ~ui.config
      /\ ui.start /\ ~ui.stop /\ process = "none" /\ engine = Off /\ queue = <<>>
      /\ \A w \in Workers : up[w] = <<>> /\ down[w] = <<>>
  BY DEF Init
<1>2. \A w \in Workers : Results(w) = {} /\ StartLines(w) = {} /\ Range(up[w]) = {} /\ InOrder(up[w], ids[w])
  BY <1>1, NoneInEmpty, OrderEmpty DEF Results, StartLines
<1>3. Starts = {}
  BY <1>1 DEF Starts
<1>4. ~engine.capturing
  BY <1>1 DEF Off
<1>5. EngineGone
  BY <1>1 DEF EngineGone
<1>6. Numbered
  BY <1>1, <1>2 DEF Numbered
<1>7. Matched
  BY <1>1, <1>2 DEF Matched
<1>8. OneStart
  BY <1>1, <1>2, <1>3 DEF OneStart
<1>9. Buttons
  BY <1>1 DEF Buttons, Connected
<1>10. IdleForStart
  BY <1>3, <1>4 DEF IdleForStart
<1>11. NothingStale
  BY <1>4 DEF NothingStale
<1> QED
  BY <1>5, <1>6, <1>7, <1>8, <1>9, <1>10, <1>11 DEF ControlsInv

LEMMA ControlsStutter ==
  ASSUME TypeOK, ViewerInv, ControlsInv, UNCHANGED vars
  PROVE  ControlsInv'
<1>1. UNCHANGED <<ui, process, engine, ids, up, down, queue>>
  BY DEF vars, wires
<1>2. Buttons
  BY DEF ControlsInv
<1>3. NoNews(queue, queue)
  BY NoNewsOfNone DEF TypeOK
<1>4. Buttons'
  BY <1>1, <1>2 DEF Buttons, Connected
<1> QED
  BY <1>1, <1>3, <1>4, Heard

LEMMA ControlsStep ==
  ASSUME Patient, TypeOK, ViewerInv, ControlsInv, [Next]_vars
  PROVE  ControlsInv'
<1>1. CASE User
  BY <1>1, UserControls
<1>2. CASE Process
  BY <1>2, ProcessControls
<1>3. CASE Slot
  BY <1>3, NoticeControls, EndControls, StatusControls, ResultControls DEF Slot
<1>4. CASE OthersCommand
  BY <1>4, OthersControls
<1>5. ASSUME NEW w \in Workers, Worker(w) \/ LinkLost(w) \/ Handle(w)
      PROVE  ControlsInv'
  BY <1>5, WorkerControls, DeliverControls, HandleControls DEF Worker
<1>6. CASE UNCHANGED vars
  BY <1>6, ControlsStutter
<1> QED
  BY <1>1, <1>2, <1>3, <1>4, <1>5, <1>6 DEF Next

\* The parts of the invariant behind the buttons of a patient user's window
\* hold in every state, also when the engine refuses a configure.
THEOREM ControlsInvariant == Patient => (Spec => []ControlsInv)
<1> SUFFICES ASSUME Patient
             PROVE  Spec => []ControlsInv
  OBVIOUS
<1>1. Init => TypeOK /\ ViewerInv /\ ControlsInv
  BY TypeInit, InvInit, ControlsInit
<1>2. TypeOK /\ ViewerInv /\ ControlsInv /\ [Next]_vars => (TypeOK /\ ViewerInv /\ ControlsInv)'
  BY TypeStep, InvStep, ControlsStep
<1> QED
  BY <1>1, <1>2, PTL DEF Spec

\* A patient user's connected viewer that is not starting a capture, because the
\* engine has answered or refused, offers exactly one of Start and Stop, and Stop while a capture runs that no one else has a hand in: no
\* answer, status or signal that was under way when a command, a detach or an
\* attach overtook it sets the buttons back.
THEOREM ControlsMatch == Patient => (Spec => []ControlsMatchEngine)
<1> SUFFICES ASSUME Patient
             PROVE  Spec => []ControlsMatchEngine
  OBVIOUS
<1>1. ASSUME TypeOK, ViewerInv, ControlsInv, Quiet, Connected, ~ui.starting
      PROVE  /\ ui.start # ui.stop
             /\ engine.capturing /\ ~engine.shared => ui.stop
  <2>1. ui.pending = {}
    <3>1. ASSUME NEW p \in ui.pending
          PROVE  FALSE
      <4>1. /\ p.via \in Workers /\ Range(up[p.via]) = {} /\ Range(down[p.via]) = {}
            /\ Range(queue) = {} /\ worker_at[p.via] \in {"none", "live", "done"}
            /\ worker_at[p.via] = "live" => running[p.via] /\ linked[p.via]
        BY <1>1, WindowOnly, NoneInEmpty DEF Quiet
      <4>2. worker_at[p.via] # "none"
        BY <1>1, WindowOnly DEF ViewerInv, OneConnection
      <4> QED
        BY <1>1, <4>1, <4>2 DEF ViewerInv, Pending, PendingIsAnswered
    <3> QED
      BY <3>1
  <2>2. ui.start \in BOOLEAN /\ ui.stop \in BOOLEAN
    BY <1>1 DEF TypeOK, Windows
  <2>3. ~(ui.start /\ ui.stop) /\ (ui.start \/ ui.stop)
    BY <1>1, <2>1 DEF ControlsInv, Buttons
  <2>4. ~engine.shared /\ ui.start => ~engine.capturing
    BY <1>1 DEF ControlsInv, IdleForStart
  <2> QED
    BY <2>2, <2>3, <2>4
<1>2. TypeOK /\ ViewerInv /\ ControlsInv => ControlsMatchEngine
  BY <1>1 DEF ControlsMatchEngine
<1> QED
  BY <1>2, TypeCorrect, Invariant, ControlsInvariant, PTL
=============================================================================
