--------------------------- MODULE MCEventPipeline ---------------------------
(* Instances of EventPipeline for TLC. *)
EXTENDS EventPipelineProperties, TLC

CONSTANTS t1, t2, t3, rx, tx

Senders == Permutations({t2, t3})

ChunksOf(values, n) == UNION {[1..k -> values] : k \in 1..n}

AllDecoders ==
    {Raw, Fixed(3)}
    \cup {Delimiter(b, included) : b \in {<<1>>, <<1, 1>>, <<1, 2>>}, included \in BOOLEAN}
    \cup {LengthPrefix(size, little, header) :
             size \in {1, 2, 4}, little \in BOOLEAN, header \in BOOLEAN}
ThreadDecoders == {Fixed(2), LengthPrefix(1, FALSE, TRUE)}

\* Short inputs in every division, one thread and every decoder; and a thread
\* that delivers what is received with two that send on the same stream: half a
\* frame, a frame with half of the next, half a frame with a refused header.
PipelineWorkloads ==
    {[feeds |-> {<<t1, rx>>}, decoders |-> AllDecoders, chunks |-> ChunksOf({0, 1, 2}, 2),
      events |-> 4],
     [feeds |-> {<<t1, rx>>, <<t2, tx>>, <<t3, tx>>}, decoders |-> ThreadDecoders,
      chunks |-> {<<2>>, <<2, 9, 2>>, <<9, 0>>}, events |-> 3]}
=============================================================================
