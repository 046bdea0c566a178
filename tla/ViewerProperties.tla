--------------------------- MODULE ViewerProperties ---------------------------
(***************************************************************************)
(* What must be true of the viewer.                                        *)
(***************************************************************************)
EXTENDS Viewer, Functions

\* The answer to command id.
Answers(m, id) == m.kind = "result" /\ m.id = id

\* A pending command is on its way, or its result is, or its connection is
\* ending and will clear it.
PendingIsAnswered ==
    \A p \in ui.pending :
        \/ \E c \in Range(up[p.via]) : c.id = p.id
        \/ \E m \in Range(down[p.via]) : Answers(m, p.id)
        \/ \E s \in Range(queue) : s.via = p.via /\ Answers(s, p.id)
        \/ worker_at[p.via] # "done" /\ (~running[p.via] \/ ~linked[p.via])
        \/ \E s \in Range(queue) : s.via = p.via /\ s.kind = "disconnected"

Quiet ==
    /\ queue = <<>> /\ ~connector /\ process # "starting"
    /\ \A w \in Workers : up[w] = <<>> /\ down[w] = <<>>
    /\ \A w \in Workers : worker_at[w] \in {"none", "live", "done"}
    /\ \A w \in Workers : worker_at[w] = "live" => running[w] /\ linked[w]

\* When the engine process is gone and everything has been handled, the user
\* can start again, whatever was going on when it went.
StartComesBack ==
    (Quiet /\ process = "none") =>
        /\ ui.start /\ ~ui.stop /\ ~ui.starting /\ ui.attach = "attach"
        /\ ui.worker = None /\ ui.pending = {}

\* A connected viewer that is not starting a capture offers one of Start and
\* Stop, whatever became of the commands before (stop_capture() disables Stop
\* until its result), and it is Stop if a capture runs, also after it has
\* detached and attached again, as long as no one else uses the engine.
ControlsMatchEngine ==
    (Quiet /\ Connected /\ ~ui.starting) =>
        /\ ui.start # ui.stop
        /\ engine.capturing /\ ~engine.shared => ui.stop

\* A connection that is up is the window's, for a user who presses the button only
\* for what it says: the window does not lose its worker, by forgetting it or by a
\* signal of an earlier one, while the worker goes on.  With Patient = FALSE it
\* does: a second click before the worker's thread has begun stops it in vain,
\* because run() sets _running whatever stop() did (ipc_client.py:49).
ConnectionIsOwned ==
    Quiet => \A w \in Workers : worker_at[w] = "live" => ui.connected /\ ui.worker = w

-----------------------------------------------------------------------------
(***************************************************************************)
(* Types.                                                                  *)
(***************************************************************************)
Ops == {"configure", "start_capture", "stop_capture", "get_status"}
EngineStates == {"idle", "capturing"}
Commands == [id : Nat, op : Ops]
Statuses == [kind : {"status"}, via : Workers, state : EngineStates]
Replies == [kind : {"result"}, via : Workers, id : Nat, op : Ops, ok : BOOLEAN, state : EngineStates]
Notices == [kind : {"connecting", "connected", "disconnected", "finished"}, via : Workers]

Signals == Notices \cup Statuses \cup Replies
Windows == [worker : Workers \cup {None}, connected : BOOLEAN, engine_state : EngineStates,
            starting : BOOLEAN, config : BOOLEAN,
            pending : SUBSET [id : Nat, intent : Ops, via : Workers],
            start : BOOLEAN, stop : BOOLEAN, attach : {"attach", "connecting", "detach"}]
Engines == [up : BOOLEAN, configured : BOOLEAN, capturing : BOOLEAN, shared : BOOLEAN]

ThreadsOK ==
    /\ worker_at \in [Workers -> {"none", "new", "connecting", "live", "closing", "done"}]
    /\ running \in [Workers -> BOOLEAN]
    /\ client \in [Workers -> {"none", "open", "stopped"}]
    /\ linked \in [Workers -> BOOLEAN]

WiresOK ==
    /\ ids \in [Workers -> Nat]
    /\ up \in [Workers -> Seq(Commands)]
    /\ down \in [Workers -> Seq(Statuses \cup Replies)]

TypeOK ==
    /\ ui \in Windows
    /\ process \in {"none", "starting", "running"}
    /\ connector \in BOOLEAN
    /\ engine \in Engines
    /\ ThreadsOK
    /\ WiresOK
    /\ queue \in Seq(Signals)

-----------------------------------------------------------------------------
(***************************************************************************)
(* The inductive invariant behind connections and pending commands, for a  *)
(* patient user.                                                           *)
(***************************************************************************)
Nobody == \A w \in Workers : ~Alive(w)

Waiting(kind) == \E s \in Range(queue) : s.kind = kind

IsEnding(s) == s.kind \in {"disconnected", "finished"}

\* A worker at a time: the signals in the queue and the window's worker are
\* the running one's, if there is one, and otherwise the last one's.
OneConnection ==
    /\ \A v, w \in Workers : Alive(v) /\ Alive(w) => v = w
    /\ \A s \in Range(queue) :
          /\ worker_at[s.via] # "none"
          /\ \A w \in Workers : Alive(w) => s.via = w
          /\ ui.worker # None => s.via = ui.worker
          /\ \A t \in Range(queue) : s.via = t.via
    /\ ui.worker # None =>
          /\ worker_at[ui.worker] # "none"
          /\ \A w \in Workers : Alive(w) => ui.worker = w
    /\ process = "starting" \/ connector => queue = <<>> /\ Nobody

\* What there can be of a connection at each point of its worker.
Wiring ==
    /\ connector \/ engine.up => process = "running"
    /\ \A w \in Workers :
          /\ client[w] = "none" <=> worker_at[w] \in {"none", "new"}
          /\ client[w] = "open" => Alive(w)
          /\ linked[w] => engine.up
          /\ linked[w] \/ down[w] # <<>> =>
                worker_at[w] \in {"live", "closing"} /\ client[w] = "open"
          /\ \A m \in Range(down[w]) : m.via = w

\* A worker that the window has forgotten is about to end, or cannot connect.
Forgotten ==
    \A w \in Workers : ui.worker # w =>
        /\ worker_at[w] \in {"new", "connecting"} => process = "none"
        /\ worker_at[w] = "live" => ~running[w]

\* connecting is the first signal of a worker and its end is the last.
ConnectingFirst(q) == \A i \in DOMAIN q : q[i].kind = "connecting" => i = 1
EndsLast(q) == \A i, j \in DOMAIN q : i < j /\ IsEnding(q[i]) => IsEnding(q[j])

\* What a worker has posted at each point, and the window not yet handled.
SignalOrder ==
    /\ ConnectingFirst(queue) /\ EndsLast(queue)
    /\ Nobody =>
          /\ (\E s \in Range(queue) : ~IsEnding(s)) => Waiting("disconnected")
          /\ queue # <<>> => queue[Len(queue)].kind = "finished"
    /\ \A w \in Workers :
          /\ worker_at[w] = "new" => queue = <<>>
          /\ worker_at[w] = "connecting" => \A s \in Range(queue) : s.kind = "connecting"
          /\ worker_at[w] = "live" \/ linked[w] \/ down[w] # <<>> =>
                \A s \in Range(queue) : ~IsEnding(s)

\* The buttons of a window that could start a capture.
Startable(u) == u.start /\ ~u.stop /\ ~u.starting

\* What the window shows of the connection.
Shown ==
    /\ \A w \in Workers :
          /\ worker_at[w] \in {"new", "connecting"} =>
                /\ ~ui.connected /\ ui.pending = {}
                /\ ui.worker = w => ui.attach # "detach"
          /\ worker_at[w] = "live" /\ ui.worker = w =>
                Waiting("connected") \/ (ui.connected /\ ~Waiting("connecting"))
    /\ ui.worker # None /\ Nobody => queue # <<>>
    /\ Nobody /\ ~Waiting("disconnected") =>
          /\ ~ui.connected /\ ui.attach = "attach" /\ ui.pending = {}
          /\ process = "none" => Startable(ui)

\* The pending commands are the window's worker's.
Pending ==
    /\ \A p \in ui.pending : p.via = ui.worker
    /\ PendingIsAnswered

ViewerInv == OneConnection /\ Wiring /\ Forgotten /\ SignalOrder /\ Shown /\ Pending

-----------------------------------------------------------------------------
(***************************************************************************)
(* The inductive invariant behind the buttons, with the one above.         *)
(***************************************************************************)
\* The results on their way to the window over w.
Results(w) ==
    {m \in Range(down[w]) : m.kind = "result"} \cup
    {s \in Range(queue) : s.via = w /\ s.kind = "result"}

StartOps == {"configure", "start_capture"}

\* The commands of a start: pending, and on their way to the engine.
Starts == {p \in ui.pending : p.intent \in StartOps}
StartLines(w) == {c \in Range(up[w]) : c.op \in StartOps}

\* Without an engine there is nothing to control.
EngineGone ==
    /\ ~engine.up => engine = Off /\ \A w \in Workers : up[w] = <<>>
    /\ process = "none" => ui.pending = {}
    /\ process = "none" /\ ui.worker # None => ~ui.connected /\ ~Waiting("connected")

\* Commands are numbered in order, up to n.
InOrder(q, n) ==
    /\ \A i, j \in DOMAIN q : i < j => q[i].id < q[j].id
    /\ \A c \in Range(q) : c.id <= n

\* A number is used once, and answered before those after it.
Numbered ==
    /\ \A p \in ui.pending : p.id <= ids[p.via]
    /\ \A p, q \in ui.pending : p.id = q.id => p = q
    /\ \A w \in Workers : InOrder(up[w], ids[w])
    /\ \A w \in Workers : \A m \in Results(w) :
          m.id <= ids[w] /\ \A c \in Range(up[w]) : m.id < c.id

\* A line and a result are of the command that the window has noted, and there
\* is no capture after a stop, accepted or not.
Matched ==
    /\ \A p \in ui.pending : \A c \in Range(up[p.via]) : c.id = p.id => c.op = p.intent
    /\ \A p \in ui.pending : \A m \in Results(p.via) : m.id = p.id => m.op = p.intent
    /\ \A w \in Workers : \A m \in Results(w) : m.op = "stop_capture" => m.state = "idle"

\* One start at a time: a command of it that is pending or under way, over this
\* connection or one before, keeps the window starting; config waits for it.
OneStart ==
    /\ \A p, q \in Starts : p = q
    /\ Starts # {} => ui.starting /\ ~ui.config
    /\ \A w \in Workers : \A c \in StartLines(w) :
          /\ ui.starting /\ ~ui.config
          /\ \A p \in Starts : p.via = w /\ p.id = c.id
          /\ \A v \in Workers : \A d \in StartLines(v) : v = w /\ d = c
    /\ process # "none" /\ ui.config => ui.starting

\* The buttons exclude each other, and both are out only while an answer that
\* will set them is to come.
Buttons ==
    /\ ui.starting => ~ui.start
    /\ ~(ui.start /\ ui.stop)
    /\ Connected /\ ~ui.starting /\ ~ui.start /\ ~ui.stop =>
          \E p \in ui.pending : p.intent \in {"stop_capture", "get_status"}

\* As long as no one else uses the engine it is idle when a start is asked for,
\* and so until it takes effect.
IdleForStart ==
    ~engine.shared =>
        /\ (\E w \in Workers : StartLines(w) # {}) => ~engine.capturing
        /\ ui.config /\ ui.starting => ~engine.capturing
        /\ \A p \in Starts : p.intent = "configure" => ~engine.capturing
        /\ \A p \in Starts : \A m \in Results(p.via) :
              m.id = p.id /\ ~m.ok => ~engine.capturing
        /\ ui.start => ~engine.capturing

\* What tells nothing else than that the engine is capturing.
Current(m) == m.kind \in {"status", "result"} => m.state = "capturing"
AllCurrent(q) == \A m \in Range(q) : Current(m)

AnswerIn(q, id) == \E m \in Range(q) : Answers(m, id)
AfterAnswer(q, id) == \A i, j \in DOMAIN q : i < j /\ Answers(q[i], id) => Current(q[j])

\* When the start has been answered all that is still to come was sent later.
NothingStale ==
    ~engine.shared /\ engine.capturing =>
        /\ ~ui.starting => AllCurrent(queue) /\ \A w \in Workers : AllCurrent(down[w])
        /\ \A p \in Starts : p.intent = "start_capture" =>
              /\ AfterAnswer(queue, p.id) /\ AfterAnswer(down[p.via], p.id)
              /\ AnswerIn(queue, p.id) => AllCurrent(down[p.via])

ControlsInv ==
    EngineGone /\ Numbered /\ Matched /\ OneStart /\ Buttons /\ IdleForStart /\ NothingStale

-----------------------------------------------------------------------------
\* docs/ipc-protocol.md: a status goes to all clients, so every viewer stays in
\* sync with engine state changed by another client.  on_status_received()
\* drops it while _starting_capture is set, which outlives the start where the
\* connection is lost in the middle of it.
StaysInSync == (Quiet /\ Connected /\ ~ui.config) => ui.stop = engine.capturing
=============================================================================
