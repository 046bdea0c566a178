----------------------- MODULE EventPipelineProperties -----------------------
(***************************************************************************)
(* What must be true of the event pipeline and the decoders behind it.     *)
(***************************************************************************)
EXTENDS EventPipeline, SequencesExt

Derived(e) == e.type \in {"frame", "error"}

-----------------------------------------------------------------------------
(***************************************************************************)
(* Numbers and parents.                                                    *)
(***************************************************************************)
Frames(s) == {i \in DOMAIN log : log[i].type = "frame" /\ log[i].stream = s}

\* "This gives every raw and derived event a globally unique sequence number"
\* (docs/architecture.md:107), whichever threads make and decode events.
\* Callers that share a stream may log its frames in any order; their numbers
\* still say which came first in the stream, because they are given out before
\* mutex_ is released.
NumbersTellTheOrder ==
    /\ \A i, j \in DOMAIN log : i # j => log[i].seq # log[j].seq
    /\ \A s \in Streams : \A i, j \in Frames(s) :
          log[i].seq < log[j].seq => log[i].last < log[j].first

\* A derived event comes after every event it names as a parent, in the file
\* and in the numbering; the parents are raw events of its own stream, the
\* last of them the one that completed it, and every byte of a frame came in
\* one of them.
ParentsAreTheSource ==
    \A j \in DOMAIN log : Derived(log[j]) =>
        LET e == log[j] IN
        /\ e.parents # <<>> /\ e.parent = Last(e.parents)
        /\ \A k \in DOMAIN e.parents : \E i \in 1..(j - 1) :
              /\ log[i].type = "raw_bytes" /\ log[i].stream = e.stream
              /\ log[i].seq = e.parents[k] /\ log[i].seq < e.seq
        /\ e.type = "frame" => \A p \in e.first..e.last : input[e.stream][p].seq \in Range(e.parents)

-----------------------------------------------------------------------------
(***************************************************************************)
(* Framing, stated on the whole stream and not on the chunks it came in.   *)
(***************************************************************************)
Bytes(q, i, j) == [k \in 1..(j - i + 1) |-> q[i + k - 1].byte]

Declared(d, b) ==
    CASE d.length_size = 1 -> b[1]
      [] d.length_size = 2 /\ d.little_endian -> b[1] + 256 * b[2]
      [] d.length_size = 2 /\ ~d.little_endian -> 256 * b[1] + b[2]
      [] d.length_size = 4 /\ d.little_endian ->
            b[1] + 256 * b[2] + 65536 * b[3] + 16777216 * b[4]
      [] d.length_size = 4 /\ ~d.little_endian ->
            16777216 * b[1] + 65536 * b[2] + 256 * b[3] + b[4]

\* These bytes could be a frame of a decoder that keeps what is incomplete.
IsFrame(d, b) ==
    CASE d.decoder = "fixed" -> Len(b) = d.frame_size
      [] d.decoder = "delimiter" -> IsSuffix(d.delimiter, b)
      [] d.decoder = "length-prefix" ->
            /\ Len(b) >= d.length_size
            /\ Len(b) = Declared(d, b)
                        + (IF d.length_includes_header THEN 0 ELSE d.length_size)

\* Bytes i to j of a stream q could be a frame: for the raw decoder, they are the
\* end of what came in one event.
Complete(d, q, i, j) ==
    IF d.decoder = "raw"
    THEN /\ \A p \in i..j : q[p].seq = q[i].seq
         /\ j = Len(q) \/ q[j + 1].seq # q[j].seq
    ELSE IsFrame(d, Bytes(q, i, j))

Shortest(d, q, i, j) == Complete(d, q, i, j) /\ \A k \in i..(j - 1) : ~Complete(d, q, i, k)

\* Frame i is between bounds i and i + 1.
Bounds(c) == <<0>> \o c

\* A stream is cut where a reader of the whole stream would cut it, however
\* it was divided into chunks and whoever delivered them; when no decoder is
\* at work nothing that is complete is left in a buffer.
CutsAreCanonical ==
    \A s \in Streams :
        LET bounds == Bounds(cuts[s])
            left == Last(bounds) + 1
        IN  /\ \A i \in DOMAIN cuts[s] : Shortest(decoder, input[s], bounds[i] + 1, bounds[i + 1])
            /\ mutex = Free =>
                  \A j \in left..Len(input[s]) : ~Complete(decoder, input[s], left, j)

\* What a frame of these bytes carries: them, without the delimiter or the
\* length field where the settings say so.
Carries(d, payload, b) ==
    CASE d.decoder = "delimiter" /\ ~d.include_delimiter -> payload \o d.delimiter = b
      [] d.decoder = "length-prefix" /\ ~d.length_includes_header ->
            IsSuffix(payload, b) /\ Len(b) - Len(payload) = d.length_size
      [] OTHER -> payload = b

\* Frame f is of the bytes of stream q between two of the cuts c.
CutFrom(d, q, c, f) ==
    /\ \E i \in DOMAIN c : f.first = Bounds(c)[i] + 1 /\ f.last = Bounds(c)[i + 1]
    /\ Carries(d, f.payload, Bytes(q, f.first, f.last))

FramesCarryTheirBytes ==
    \A s \in Streams : \A j \in Frames(s) : CutFrom(decoder, input[s], cuts[s], log[j])

\* What the decoders make of a stream of bytes does not depend on how the
\* transport divides it: the cuts and the frames are those of the whole.
FramingIsCanonical == CutsAreCanonical /\ FramesCarryTheirBytes

\* Events the sink has been given or will be given, the derived ones of stream s.
Emitted == Range(log) \cup UNION {Range(derived[t]) : t \in Callers}

Held(s) == {e \in Emitted : Derived(e) /\ e.stream = s}

\* Byte p of stream s is in a frame, or an error that tells of its loss names
\* the event it came in.
Accounted(s, p) ==
    \E e \in Held(s) :
        \/ e.type = "frame" /\ e.first <= p /\ p <= e.last
        \/ e.type = "error" /\ input[s][p].seq \in Range(e.parents)

\* Bytes are lost only to decoder errors, and an error names, among its
\* parents, the event of every byte it loses.
LossIsReported ==
    mutex = Free => \A s \in Streams : \A p \in 1..Taken(s) : Accounted(s, p)

-----------------------------------------------------------------------------
(***************************************************************************)
(* Types.                                                                  *)
(***************************************************************************)
Byte == 0..255
Payload == Seq(Byte)

RawEvents == [type : {"raw_bytes"}, seq : Nat, stream : Streams, payload : Payload]
StateChanges == [type : {"state_change"}, seq : Nat, stream : Streams]
FrameEvents ==
    [type : {"frame"}, seq : Nat, stream : Streams, parent : Nat, parents : Seq(Nat),
     payload : Payload, first : Nat, last : Nat]
DecoderErrors ==
    [type : {"error"}, seq : Nat, stream : Streams, parent : Nat, parents : Seq(Nat)]
DerivedEvents == FrameEvents \cup DecoderErrors

Events == RawEvents \cup StateChanges \cup DerivedEvents

CutFrames == [payload : Payload, first : Nat, last : Nat]
InputBytes == [byte : Byte, seq : Nat]

TypeOK ==
    /\ work \in Workloads
    /\ decoder \in work.decoders
    /\ counter \in Nat
    /\ made \in Nat
    /\ pc \in [Callers -> {"idle", "sink", "lock", "decode", "frames", "derived"}]
    /\ event \in [Callers -> {NoEvent} \cup RawEvents \cup StateChanges]
    /\ mutex \in Callers \cup {Free}
    /\ buffer \in [Streams -> Payload]
    /\ contributors \in [Streams -> Seq(Nat)]
    /\ result \in [Callers -> Seq(CutFrames)]
    /\ derived \in [Callers -> Seq(DerivedEvents)]
    /\ log \in Seq(Events)
    /\ input \in [Streams -> Seq(InputBytes)]
    /\ cuts \in [Streams -> Seq(Nat)]

-----------------------------------------------------------------------------
(***************************************************************************)
(* The inductive invariant behind numbers, parents and losses.             *)
(***************************************************************************)
Inside(t) == pc[t] \in {"decode", "frames"}

\* Who is where in consume with what.
Control ==
    /\ \A t \in Callers : mutex = t <=> Inside(t)
    /\ \A t \in Callers : pc[t] = "sink" => event[t] # NoEvent
    /\ \A t \in Callers : pc[t] \in {"lock", "decode", "frames"} => event[t].type = "raw_bytes"
    /\ \A t \in Callers : result[t] # <<>> => Inside(t)
    /\ \A t \in Callers : derived[t] # <<>> => pc[t] \in {"frames", "derived"}
    /\ \A s \in Streams : Len(buffer[s]) <= Len(input[s])

\* The numbers of the events that a caller has yet to pass to the sink.
Outstanding(t) ==
    IF pc[t] = "sink" THEN {event[t].seq} ELSE {derived[t][k].seq : k \in DOMAIN derived[t]}

\* A number is given out once, and every number given out is past.
Numbering ==
    /\ \A i \in DOMAIN log : log[i].seq < counter
    /\ \A i, j \in DOMAIN log : i # j => log[i].seq # log[j].seq
    /\ \A t \in Callers : \A n \in Outstanding(t) :
          n < counter /\ \A i \in DOMAIN log : log[i].seq # n
    /\ \A t, u \in Callers : t # u => Outstanding(t) \cap Outstanding(u) = {}
    /\ \A t \in Callers : \A k, l \in DOMAIN derived[t] :
          k < l => derived[t][k].seq < derived[t][l].seq

\* What the decoder has taken off a stream was taken in the order of the numbers,
\* what is not numbered yet after all that is.
HeldFrames(s) == {e \in Held(s) : e.type = "frame"}

TakenInOrder ==
    /\ \A s \in Streams : \A e \in HeldFrames(s) :
          1 <= e.first /\ e.first <= e.last /\ e.last <= Taken(s)
    /\ \A s \in Streams : \A e, f \in HeldFrames(s) : e.seq < f.seq => e.last < f.first
    /\ \A t \in Callers : \A k \in DOMAIN result[t] :
          LET s == event[t].stream
              r == result[t][k]
          IN  /\ 1 <= r.first /\ r.first <= r.last /\ r.last <= Taken(s)
              /\ \A e \in HeldFrames(s) : e.last < r.first
              /\ \A l \in DOMAIN result[t] : k < l => r.last < result[t][l].first

\* The raw event n of stream s has been passed to the sink.
IsLogged(s, n) ==
    \E i \in DOMAIN log : log[i].type = "raw_bytes" /\ log[i].stream = s /\ log[i].seq = n

CameIn(s, first, last, seqs) == \A p \in first..last : input[s][p].seq \in Range(seqs)

\* An event that a decoder is given, or contributes to what one holds, is logged.
ContributorsAreLogged ==
    /\ \A t \in Callers : pc[t] \in {"lock", "decode", "frames"} =>
          IsLogged(event[t].stream, event[t].seq)
    /\ \A s \in Streams : \A k \in DOMAIN contributors[s] : IsLogged(s, contributors[s][k])

\* The last contributor is the event being decoded.
DecodesTheLast ==
    \A t \in Callers : Inside(t) =>
        LET seqs == contributors[event[t].stream] IN
        seqs # <<>> /\ Last(seqs) = event[t].seq

\* The contributors account for what is buffered, unless that is refused for good,
\* and for what has been cut from it.
ContributorsAccount ==
    /\ \A s \in Streams :
          \/ LengthRejected(decoder, buffer[s])
          \/ CameIn(s, Taken(s) + 1, Len(input[s]), contributors[s])
    /\ \A t \in Callers : \A k \in DOMAIN result[t] :
          CameIn(event[t].stream, result[t][k].first, result[t][k].last,
                 contributors[event[t].stream])

\* The parents of a derived event, before it is logged.
Sourced(e) ==
    /\ e.parents # <<>> /\ e.parent = Last(e.parents)
    /\ \A k \in DOMAIN e.parents : IsLogged(e.stream, e.parents[k]) /\ e.parents[k] < e.seq
    /\ e.type = "frame" => CameIn(e.stream, e.first, e.last, e.parents)

DerivedAreSourced == \A t \in Callers : \A k \in DOMAIN derived[t] : Sourced(derived[t][k])

Sourcing ==
    /\ ContributorsAreLogged
    /\ DecodesTheLast
    /\ ContributorsAccount
    /\ DerivedAreSourced
    /\ ParentsAreTheSource

\* Byte p of stream s is in a frame that has no number yet.
BeingFramed(s, p) ==
    \E t \in Callers : Inside(t) /\ event[t].stream = s /\ \E k \in DOMAIN result[t] :
        result[t][k].first <= p /\ p <= result[t][k].last

\* A byte that is taken is accounted for, or about to be.
Losses == \A s \in Streams : \A p \in 1..Taken(s) : Accounted(s, p) \/ BeingFramed(s, p)

PipelineInv == Control /\ Numbering /\ TakenInOrder /\ Sourcing /\ Losses

-----------------------------------------------------------------------------
(***************************************************************************)
(* The inductive invariant behind the framing.                             *)
(***************************************************************************)
Decoding(t, s) == pc[t] = "decode" /\ event[t].stream = s

\* An event is fed once.
FedOnce ==
    /\ \A s \in Streams : \A p \in 1..Len(input[s]) : input[s][p].seq < counter
    /\ \A t \in Callers : pc[t] \in {"sink", "lock"} =>
          /\ event[t].seq < counter
          /\ \A s \in Streams : \A p \in 1..Len(input[s]) : input[s][p].seq # event[t].seq
    /\ \A t, u \in Callers :
          t # u /\ pc[t] \in {"sink", "lock"} /\ pc[u] \in {"sink", "lock"} =>
             event[t].seq # event[u].seq

\* The buffer b is what follows the first n bytes of the stream q.
Follows(q, n, b) == \A k \in 1..Len(b) : b[k] = q[n + k].byte

BuffersTheRest == \A s \in Streams : Follows(input[s], Taken(s), buffer[s])

\* The raw decoder takes an event's bytes before it returns.
RawKeepsNothing ==
    decoder.decoder = "raw" =>
        \A s \in Streams :
            /\ (\A t \in Callers : ~Decoding(t, s)) => buffer[s] = <<>>
            /\ \A t \in Callers : Decoding(t, s) =>
                  \A k \in 1..Len(buffer[s]) : input[s][Taken(s) + k].seq = event[t].seq

\* The cuts c divide the first n bytes of the stream q as they should.
Divides(d, q, n, c) ==
    /\ Last(Bounds(c)) = n
    /\ \A i \in DOMAIN c :
          /\ Bounds(c)[i] < Bounds(c)[i + 1] /\ Bounds(c)[i + 1] <= n
          /\ Shortest(d, q, Bounds(c)[i] + 1, Bounds(c)[i + 1])

CutsDivide == \A s \in Streams : Divides(decoder, input[s], Taken(s), cuts[s])

NothingIsLeft ==
    \A s \in Streams : (\A t \in Callers : ~Decoding(t, s)) =>
        \A j \in (Taken(s) + 1)..Len(input[s]) : ~Complete(decoder, input[s], Taken(s) + 1, j)

FramesAreCut ==
    /\ \A s \in Streams : \A e \in HeldFrames(s) : CutFrom(decoder, input[s], cuts[s], e)
    /\ \A t \in Callers : \A k \in DOMAIN result[t] :
          LET s == event[t].stream IN CutFrom(decoder, input[s], cuts[s], result[t][k])

FramingInv ==
    FedOnce /\ BuffersTheRest /\ RawKeepsNothing /\ CutsDivide /\ NothingIsLeft
    /\ FramesAreCut
=============================================================================
