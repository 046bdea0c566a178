------------------------- MODULE EventPipelineProofs -------------------------
(***************************************************************************)
(* Theorems about the event pipeline, for any threads, streams, settings   *)
(* and payloads.                                                           *)
(***************************************************************************)
EXTENDS EventPipelineProperties, SequenceTheorems, NaturalsInduction,
        WellFoundedInduction, TLAPS

-----------------------------------------------------------------------------
(***************************************************************************)
(* The decoders.                                                           *)
(***************************************************************************)
LEMMA NumberIsNat ==
    ASSUME NEW n \in {1, 2, 4}, NEW h, \A i \in 1..n : h[i] \in Nat
    PROVE  Number(h, n) \in Nat
<1>1. CASE n = 1
    BY <1>1 DEF Number
<1>2. CASE n = 2
    BY <1>2 DEF Number
<1>3. CASE n = 4
    BY <1>3 DEF Number
<1>. QED BY <1>1, <1>2, <1>3

\* The length field of a buffer that holds one is a natural number.
LEMMA LengthIsNat ==
    ASSUME NEW d, Accepted(d), d.decoder = "length-prefix",
           NEW b \in Payload, HasHeader(d, b)
    PROVE  ReadLength(d, b) \in Nat
<1>1. d.length_size \in {1, 2, 4} /\ d.length_size <= Len(b)
    BY DEF Accepted, HasHeader
<1>2. \A i \in 1..Len(b) : b[i] \in 0..255
    BY ElementOfSeq DEF Payload, Byte
<1>3. \A i \in 1..d.length_size : i \in 1..Len(b) /\ d.length_size + 1 - i \in 1..Len(b)
    BY <1>1, LenProperties DEF Payload
<1>4. \A i \in 1..d.length_size : LengthField(d, b)[i] \in Nat
  <2>. TAKE i \in 1..d.length_size
  <2>1. b[i] \in 0..255 /\ b[d.length_size + 1 - i] \in 0..255
    BY <1>2, <1>3
  <2>2. LengthField(d, b)[i] \in 0..255
    BY <2>1 DEF LengthField
  <2>. QED BY <2>2
<1>5. PICK n : n = d.length_size
    OBVIOUS
<1>6. PICK h : h = LengthField(d, b)
    OBVIOUS
<1>7. Number(h, n) \in Nat
    BY <1>1, <1>4, <1>5, <1>6, NumberIsNat
<1>. QED BY <1>5, <1>6, <1>7 DEF ReadLength

\* It depends on the header alone: what is appended to the buffer does not
\* change it, nor whether it is refused.
LEMMA LengthStays ==
    ASSUME NEW d, Accepted(d), d.decoder = "length-prefix",
           NEW b \in Payload, HasHeader(d, b), NEW c \in Payload
    PROVE  HasHeader(d, b \o c) /\ ReadLength(d, b \o c) = ReadLength(d, b)
<1>1. d.length_size \in {1, 2, 4} /\ d.length_size <= Len(b)
    BY DEF Accepted, HasHeader
<1>2. Len(b) \in Nat /\ Len(b \o c) \in Nat /\ Len(b \o c) >= Len(b)
    BY ConcatProperties DEF Payload
<1>3. \A i \in 1..Len(b) : (b \o c)[i] = b[i]
    BY ConcatProperties DEF Payload
<1>4. \A i \in 1..d.length_size :
         (b \o c)[i] = b[i] /\ (b \o c)[d.length_size + 1 - i] = b[d.length_size + 1 - i]
    BY <1>1, <1>2, <1>3
<1>5. HasHeader(d, b \o c)
    BY <1>1, <1>2 DEF HasHeader
<1>6. LengthField(d, b \o c) = LengthField(d, b)
    BY <1>4 DEF LengthField
<1>. QED BY <1>5, <1>6 DEF ReadLength

LEMMA RefusalStays ==
    ASSUME NEW d, Accepted(d), NEW b \in Payload, NEW c \in Payload, LengthRejected(d, b)
    PROVE  LengthRejected(d, b \o c)
BY LengthStays DEF LengthRejected

\* A set of numbers has a least one.
LEMMA LeastOf ==
    ASSUME NEW S, S \subseteq Nat, S # {}
    PROVE  \E m \in S : \A n \in S : m <= n
<1>. DEFINE Below == {p \in Nat \X Nat : p[1] < p[2]}
<1>1. IsWellFoundedOn(Below, Nat)
    BY NatLessThanWellFounded DEF OpToRel
<1>2. \A m, n \in S : <<n, m>> \notin Below => m <= n
    BY SMT
<1>. HIDE DEF Below
<1>3. \E m \in S : \A n \in S : ~(<<n, m>> \in Below)
    BY <1>1, WFMin
<1>. QED BY <1>2, <1>3

\* A round of a decoder takes no more than there is.
LEMMA SpanIsWithin ==
    ASSUME NEW d, Accepted(d), NEW b \in Payload
    PROVE  FrameSpan(d, b) \in Nat /\ FrameSpan(d, b) <= Len(b)
<1>1. Len(b) \in Nat /\ DOMAIN b = 1..Len(b)
    BY DEF Payload
<1>2. CASE d.decoder = "raw"
    BY <1>1, <1>2 DEF FrameSpan
<1>3. CASE d.decoder = "fixed"
    BY <1>1, <1>3 DEF FrameSpan, Accepted
<1>4. CASE d.decoder = "delimiter"
  <2>. DEFINE ends == {i \in DOMAIN b : DelimiterEndsAt(d, b, i)}
              first == CHOOSE i \in ends : \A j \in ends : i <= j
  <2>1. FrameSpan(d, b) = IF ends = {} THEN 0 ELSE first
    BY <1>4 DEF FrameSpan
  <2>2. ASSUME ends # {} PROVE first \in ends
    <3>1. ends \subseteq Nat
      BY <1>1
    <3>. QED BY <2>2, <3>1, LeastOf
  <2>. QED BY <1>1, <2>1, <2>2
<1>5. CASE d.decoder = "length-prefix"
  <2>1. ASSUME HasHeader(d, b) PROVE TotalSize(d, b) \in Nat
    BY <1>5, <2>1, LengthIsNat DEF TotalSize, Accepted
  <2>. QED BY <1>1, <1>5, <2>1 DEF FrameSpan
<1>. QED BY <1>2, <1>3, <1>4, <1>5 DEF Accepted

LEMMA Elements ==
    ASSUME NEW S, NEW q \in Seq(S)
    PROVE  Len(q) \in Nat /\ DOMAIN q = 1..Len(q) /\ \A i \in 1..Len(q) : q[i] \in S
BY LenProperties, ElementOfSeq

\* A part of a sequence.
LEMMA FunctionIsSeq ==
    ASSUME NEW S, NEW n \in Nat, NEW f \in [1..n -> S]
    PROVE  f \in Seq(S) /\ Len(f) = n
<1>1. f \in Seq(S)
    BY SeqDef
<1>2. DOMAIN f = 1..Len(f) /\ Len(f) \in Nat
    BY <1>1, LenProperties
<1>. QED BY <1>1, <1>2

LEMMA SubSeqFacts ==
    ASSUME NEW S, NEW q \in Seq(S), NEW m \in Nat \ {0}, NEW n \in Int, n <= Len(q)
    PROVE  SubSeq(q, m, n) \in Seq(S)
<1>1. Len(q) \in Nat /\ \A i \in 1..Len(q) : q[i] \in S
    BY Elements
<1>2. \A i \in m..n : i \in 1..Len(q)
    BY <1>1
<1>3. \A i \in m..n : q[i] \in S
    BY <1>1, <1>2
<1>. QED BY <1>3, SubSeqProperties

LEMMA PayloadIsPayload ==
    ASSUME NEW d, Accepted(d), NEW b \in Payload, NEW span \in Nat, span <= Len(b)
    PROVE  FramePayload(d, b, span) \in Payload
<1>. b \in Seq(Byte) /\ Len(b) \in Nat
    BY LenProperties DEF Payload
<1>3. CASE d.decoder \in {"raw", "fixed"}
  <2>1. FramePayload(d, b, span) = SubSeq(b, 1, span)
    BY <1>3 DEF FramePayload
  <2>. QED BY <2>1, SubSeqFacts DEF Payload
<1>4. CASE d.decoder = "delimiter"
  <2>1. Len(d.delimiter) \in Nat
    BY <1>4, LenProperties DEF Accepted
  <2>2. PICK n : n = IF d.include_delimiter THEN span ELSE span - Len(d.delimiter)
    OBVIOUS
  <2>3. n \in Int /\ n <= Len(b)
    BY <2>1, <2>2
  <2>4. FramePayload(d, b, span) = SubSeq(b, 1, n)
    BY <1>4, <2>2 DEF FramePayload
  <2>. QED BY <2>3, <2>4, SubSeqFacts DEF Payload
<1>5. CASE d.decoder = "length-prefix"
  <2>1. PICK m : m = IF d.length_includes_header THEN 1 ELSE d.length_size + 1
    OBVIOUS
  <2>2. m \in Nat \ {0}
    BY <1>5, <2>1 DEF Accepted
  <2>3. FramePayload(d, b, span) = SubSeq(b, m, span)
    BY <1>5, <2>1 DEF FramePayload
  <2>. QED BY <2>2, <2>3, SubSeqFacts DEF Payload
<1>. QED BY <1>3, <1>4, <1>5 DEF Accepted

\* What is left of a buffer.
LEMMA DropFacts ==
    ASSUME NEW S, NEW b \in Seq(S), NEW n \in Nat, n <= Len(b)
    PROVE  /\ Drop(b, n) \in Seq(S)
           /\ Len(Drop(b, n)) = Len(b) - n
           /\ \A i \in 1..(Len(b) - n) : Drop(b, n)[i] = b[n + i]
<1>1. Len(b) \in Nat /\ \A i \in 1..Len(b) : b[i] \in S
    BY Elements
<1>2. \A i \in (n + 1)..Len(b) : b[i] \in S
    BY <1>1
<1>3. /\ SubSeq(b, n + 1, Len(b)) \in Seq(S)
      /\ Len(SubSeq(b, n + 1, Len(b))) = IF n + 1 <= Len(b) THEN Len(b) - (n + 1) + 1 ELSE 0
      /\ \A i \in 1..(Len(b) - (n + 1) + 1) : SubSeq(b, n + 1, Len(b))[i] = b[(n + 1) + i - 1]
    BY <1>1, <1>2, SubSeqProperties
<1>4. Len(b) - (n + 1) + 1 = Len(b) - n
    BY <1>1
<1>5. \A i \in 1..(Len(b) - n) : (n + 1) + i - 1 = n + i
    BY <1>1
<1>6. Len(Drop(b, n)) = Len(b) - n
    BY <1>1, <1>3 DEF Drop
<1>7. \A i \in 1..(Len(b) - n) : Drop(b, n)[i] = b[n + i]
    BY <1>3, <1>4, <1>5 DEF Drop
<1>. QED BY <1>3, <1>6, <1>7 DEF Drop

LEMMA AppendFacts ==
    ASSUME NEW S, NEW q \in Seq(S), NEW e \in S
    PROVE  /\ Append(q, e) \in Seq(S)
           /\ Len(q) \in Nat /\ DOMAIN q = 1..Len(q)
           /\ DOMAIN Append(q, e) = 1..(Len(q) + 1)
           /\ Append(q, e)[Len(q) + 1] = e
           /\ \A i \in DOMAIN q : Append(q, e)[i] = q[i]
           /\ Range(Append(q, e)) = Range(q) \cup {e}
<1>1. /\ Len(q) \in Nat /\ DOMAIN q = 1..Len(q)
      /\ Append(q, e) \in Seq(S)
      /\ DOMAIN Append(q, e) = 1..(Len(q) + 1)
      /\ Append(q, e)[Len(q) + 1] = e
      /\ \A i \in DOMAIN q : Append(q, e)[i] = q[i]
    BY AppendProperties, LenProperties
<1>2. 1..(Len(q) + 1) = (1..Len(q)) \cup {Len(q) + 1}
    BY <1>1
<1>3. Range(Append(q, e)) = Range(q) \cup {e}
    BY <1>1, <1>2 DEF Range
<1>. QED BY <1>1, <1>3

LEMMA TailFacts ==
    ASSUME NEW S, NEW q \in Seq(S), q # <<>>
    PROVE  /\ Tail(q) \in Seq(S) /\ Head(q) \in S
           /\ Len(q) \in Nat \ {0} /\ DOMAIN q = 1..Len(q)
           /\ DOMAIN Tail(q) = 1..(Len(q) - 1)
           /\ Head(q) = q[1]
           /\ \A i \in DOMAIN Tail(q) : i + 1 \in DOMAIN q /\ Tail(q)[i] = q[i + 1]
           /\ Range(q) = {Head(q)} \cup Range(Tail(q))
<1>1. /\ Tail(q) \in Seq(S) /\ Head(q) \in S
      /\ Len(q) \in Nat \ {0} /\ DOMAIN q = 1..Len(q)
      /\ DOMAIN Tail(q) = 1..(Len(q) - 1)
      /\ \A i \in DOMAIN Tail(q) : i + 1 \in DOMAIN q /\ Tail(q)[i] = q[i + 1]
    BY HeadTailProperties, LenProperties, EmptySeq
<1>2. Head(q) = q[1]
    OBVIOUS
<1>3. \A i \in DOMAIN q : i = 1 \/ (i - 1 \in DOMAIN Tail(q) /\ q[i] = Tail(q)[i - 1])
    BY <1>1
<1>4. Range(q) = {Head(q)} \cup Range(Tail(q))
    BY <1>1, <1>2, <1>3 DEF Range
<1>. QED BY <1>1, <1>2, <1>4

-----------------------------------------------------------------------------
(***************************************************************************)
(* Events and buffers.                                                     *)
(***************************************************************************)
LEMMA SettingsAreAccepted ==
    ASSUME TypeOK
    PROVE  Accepted(decoder)
BY WorkloadAssumption DEF TypeOK

\* The fields of the events, by type.
LEMMA EventFields ==
    /\ \A e \in RawEvents : e.type = "raw_bytes" /\ e.seq \in Nat /\ e.stream \in Streams
                            /\ e.payload \in Payload
    /\ \A e \in StateChanges : e.type = "state_change" /\ e.seq \in Nat /\ e.stream \in Streams
    /\ \A e \in FrameEvents :
          /\ e.type = "frame" /\ e.seq \in Nat /\ e.stream \in Streams
          /\ e.parents \in Seq(Nat) /\ e.first \in Nat /\ e.last \in Nat
    /\ \A e \in DecoderErrors :
          e.type = "error" /\ e.seq \in Nat /\ e.stream \in Streams /\ e.parents \in Seq(Nat)
    /\ NoEvent.type = "none"
BY DEF RawEvents, StateChanges, FrameEvents, DecoderErrors, NoEvent

LEMMA EventOf ==
    ASSUME TypeOK, NEW t \in Callers
    PROVE  /\ event[t] \in {NoEvent} \cup RawEvents \cup StateChanges
           /\ event[t] # NoEvent => event[t].stream \in Streams /\ event[t].seq \in Nat
           /\ event[t].type = "raw_bytes" => event[t] \in RawEvents
BY EventFields DEF TypeOK

LEMMA BufferIsWithin ==
    ASSUME TypeOK, Control, NEW s \in Streams
    PROVE  /\ Taken(s) \in Nat /\ Len(buffer[s]) \in Nat /\ Len(input[s]) \in Nat
           /\ Taken(s) + Len(buffer[s]) = Len(input[s])
<1>1. buffer[s] \in Payload /\ input[s] \in Seq(InputBytes)
    BY DEF TypeOK
<1>2. Len(buffer[s]) \in Nat /\ Len(input[s]) \in Nat
    BY <1>1, LenProperties DEF Payload
<1>. QED BY <1>2 DEF Taken, Control

-----------------------------------------------------------------------------
(***************************************************************************)
(* What the actions do, each stated once.                                  *)
(***************************************************************************)
LEMMA SinkEventFacts ==
    ASSUME TypeOK, Control, NEW t \in Callers, SinkEvent(t)
    PROVE  /\ event[t] \in RawEvents \cup StateChanges /\ event[t] \in Events
           /\ log' = Append(log, event[t])
BY EventOf DEF SinkEvent, Control, Events

\* What a call adds to the bytes a decoder has been given.
LEMMA FedBytes ==
    ASSUME TypeOK, Control, NEW t \in Callers, FeedDecoder(t),
           NEW s, s = event[t].stream
    PROVE  /\ s \in Streams /\ event[t] \in RawEvents
           /\ input' \in [Streams -> Seq(InputBytes)]
           /\ Len(input[s]) \in Nat /\ Len(event[t].payload) \in Nat
           /\ Len(input'[s]) = Len(input[s]) + Len(event[t].payload)
           /\ \A r \in Streams \ {s} : input'[r] = input[r]
           /\ \A p \in 1..Len(input[s]) : input'[s][p] = input[s][p]
           /\ \A p \in (Len(input[s]) + 1)..Len(input'[s]) : input'[s][p].seq = event[t].seq
<1>. DEFINE pl == event[t].payload
            more == [i \in DOMAIN pl |-> [byte |-> pl[i], seq |-> event[t].seq]]
<1>1. event[t] \in RawEvents /\ s \in Streams /\ pl \in Seq(Byte) /\ event[t].seq \in Nat
    BY EventOf, EventFields DEF FeedDecoder, Control, Payload
<1>2. Len(pl) \in Nat /\ DOMAIN pl = 1..Len(pl) /\ \A i \in DOMAIN pl : pl[i] \in Byte
    BY <1>1, Elements
<1>3. more \in Seq(InputBytes) /\ Len(more) = Len(pl)
  <2>1. more \in [1..Len(pl) -> InputBytes]
    BY <1>1, <1>2 DEF InputBytes
  <2>2. more \in Seq(InputBytes)
    BY <1>2, <2>1, SeqDef
  <2>3. DOMAIN more = 1..Len(more) /\ Len(more) \in Nat
    BY <2>2, LenProperties
  <2>. QED BY <1>2, <2>2, <2>3
<1>4. \A i \in 1..Len(pl) : more[i] = [byte |-> pl[i], seq |-> event[t].seq]
    BY <1>2
<1>5. input' = [input EXCEPT ![s] = input[s] \o more]
    BY DEF FeedDecoder
<1>. HIDE DEF pl, more
<1>8. input[s] \in Seq(InputBytes)
    BY <1>1 DEF TypeOK
<1>9. /\ input[s] \o more \in Seq(InputBytes)
      /\ Len(input[s] \o more) = Len(input[s]) + Len(pl)
      /\ \A i \in 1..(Len(input[s]) + Len(pl)) :
            (input[s] \o more)[i] = IF i <= Len(input[s]) THEN input[s][i]
                                    ELSE more[i - Len(input[s])]
  <2>1. /\ input[s] \o more \in Seq(InputBytes)
        /\ Len(input[s] \o more) = Len(input[s]) + Len(more)
        /\ \A i \in 1..(Len(input[s]) + Len(more)) :
              (input[s] \o more)[i] = IF i <= Len(input[s]) THEN input[s][i]
                                      ELSE more[i - Len(input[s])]
    <3>1. \A a, b \in Seq(InputBytes) :
             /\ a \o b \in Seq(InputBytes)
             /\ Len(a \o b) = Len(a) + Len(b)
             /\ \A i \in 1..(Len(a) + Len(b)) :
                   (a \o b)[i] = IF i <= Len(a) THEN a[i] ELSE b[i - Len(a)]
      BY ConcatProperties, Zenon
    <3>. QED BY <1>3, <1>8, <3>1, Zenon
  <2>. QED BY <1>3, <2>1
<1>11. Len(input[s]) \in Nat
    BY <1>8, LenProperties
<1>12. input'[s] = input[s] \o more
    BY <1>1, <1>5 DEF TypeOK
<1>13. input' \in [Streams -> Seq(InputBytes)] /\ \A r \in Streams \ {s} : input'[r] = input[r]
    BY <1>1, <1>5, <1>9 DEF TypeOK
<1>14. Len(input'[s]) = Len(input[s]) + Len(pl)
    BY <1>9, <1>12
<1>15. \A p \in 1..Len(input[s]) : input'[s][p] = input[s][p]
    BY <1>2, <1>9, <1>11, <1>12
<1>16. \A p \in (Len(input[s]) + 1)..Len(input'[s]) :
          input'[s][p].seq = event[t].seq
  <2>. TAKE p \in (Len(input[s]) + 1)..Len(input'[s])
  <2>1. /\ p \in 1..(Len(input[s]) + Len(pl)) /\ ~(p <= Len(input[s]))
        /\ p - Len(input[s]) \in 1..Len(pl)
    BY <1>2, <1>11, <1>14
  <2>2. input'[s][p] = more[p - Len(input[s])]
    BY <1>9, <1>12, <2>1
  <2>3. more[p - Len(input[s])] = [byte |-> pl[p - Len(input[s])], seq |-> event[t].seq]
    BY <1>4, <2>1
  <2>. QED BY <2>2, <2>3
<1>. QED BY <1>1, <1>2, <1>11, <1>13, <1>14, <1>15, <1>16 DEF pl

LEMMA ConcatFacts ==
    ASSUME NEW S
    PROVE  \A x, y \in Seq(S) :
              /\ x \o y \in Seq(S)
              /\ Len(x) \in Nat /\ Len(y) \in Nat /\ Len(x \o y) = Len(x) + Len(y)
              /\ \A p \in 1..Len(x) : (x \o y)[p] = x[p]
              /\ \A k \in 1..Len(y) : (x \o y)[Len(x) + k] = y[k]
<1>. TAKE x, y \in Seq(S)
<1>1. PICK m, n, z : m = Len(x) /\ n = Len(y) /\ z = x \o y
    OBVIOUS
<1>2. m \in Nat /\ n \in Nat
    BY <1>1, LenProperties
<1>3. /\ z \in Seq(S) /\ Len(z) = m + n
      /\ \A i \in 1..(m + n) : z[i] = IF i <= m THEN x[i] ELSE y[i - m]
    BY <1>1, ConcatProperties
<1>4. \A p \in 1..m : z[p] = x[p]
    BY <1>2, <1>3
<1>5. \A k \in 1..n : z[m + k] = y[k]
  <2>. TAKE k \in 1..n
  <2>1. PICK i : i = m + k
    OBVIOUS
  <2>2. i \in 1..(m + n) /\ ~(i <= m) /\ i - m = k
    BY <1>2, <2>1
  <2>. QED BY <1>3, <2>1, <2>2
<1>. QED BY <1>1, <1>2, <1>3, <1>4, <1>5, Zenon

LEMMA PayloadConcat ==
    \A a, b \in Payload :
       /\ Len(a \o b) = Len(a) + Len(b)
       /\ \A i \in 1..Len(a) : (a \o b)[i] = a[i]
       /\ \A i \in 1..Len(b) : (a \o b)[Len(a) + i] = b[i]
BY ConcatFacts DEF Payload

LEMMA InputConcat ==
    /\ \A a, b \in Seq(InputBytes) : Len(a \o b) = Len(a) + Len(b)
    /\ \A a, b \in Seq(InputBytes) : \A k \in 1..Len(b) : (a \o b)[Len(a) + k] = b[k]
BY ConcatFacts

LEMMA FedPayload ==
    ASSUME TypeOK, Control, NEW t \in Callers, FeedDecoder(t),
           NEW s, s = event[t].stream
    PROVE  \A p \in (Len(input[s]) + 1)..Len(input'[s]) :
              input'[s][p].byte = event[t].payload[p - Len(input[s])]
<1>0. PICK m, n : m = Len(input[s]) /\ n = Len(event[t].payload)
    OBVIOUS
<1>1. PICK pl, more : /\ pl = event[t].payload
                      /\ more = [k \in DOMAIN pl |-> [byte |-> pl[k], seq |-> event[t].seq]]
    OBVIOUS
<1>2. s \in Streams /\ pl \in Seq(Byte) /\ event[t].seq \in Nat
    BY <1>1, EventOf, EventFields DEF FeedDecoder, Control, Payload
<1>3. n \in Nat /\ DOMAIN pl = 1..n /\ \A k \in 1..n : pl[k] \in Byte
    BY <1>0, <1>1, <1>2, Elements
<1>4. more \in Seq(InputBytes) /\ Len(more) = n
  <2>1. more \in [1..n -> InputBytes]
    BY <1>1, <1>2, <1>3 DEF InputBytes
  <2>. QED BY <1>3, <2>1, FunctionIsSeq
<1>5. PICK x, y : x = input[s] /\ y = input'[s]
    OBVIOUS
<1>6. x \in Seq(InputBytes) /\ m = Len(x) /\ m \in Nat
    BY <1>0, <1>2, <1>5, LenProperties DEF TypeOK
<1>7. y = x \o more
  <2>1. input' = [input EXCEPT ![s] = input[s] \o more]
    BY <1>1 DEF FeedDecoder
  <2>. QED BY <1>2, <1>5, <2>1 DEF TypeOK
<1>8. Len(x \o more) = m + n /\ \A k \in 1..n : (x \o more)[m + k] = more[k]
  <2>1. /\ Len(x \o more) = Len(x) + Len(more)
        /\ \A k \in 1..Len(more) : (x \o more)[Len(x) + k] = more[k]
    BY <1>4, <1>6, InputConcat, Zenon
  <2>. QED BY <1>4, <1>6, <2>1, Zenon
<1>9. \A k \in 1..n : more[k].byte = pl[k]
    BY <1>1, <1>3
<1>10. \A k \in 1..n : y[m + k].byte = pl[k]
    BY <1>7, <1>8, <1>9, Zenon
<1>11. \A p \in (m + 1)..Len(y) : y[p].byte = pl[p - m]
  <2>. TAKE p \in (m + 1)..Len(y)
  <2>1. PICK k : k = p - m
    OBVIOUS
  <2>2. k \in 1..n /\ m + k = p
    BY <1>3, <1>6, <1>7, <1>8, <2>1
  <2>. QED BY <1>10, <2>1, <2>2
<1>. QED BY <1>0, <1>1, <1>5, <1>11, Zenon

LEMMA FeedFacts ==
    ASSUME TypeOK, Control, NEW t \in Callers, FeedDecoder(t),
           NEW s, s = event[t].stream
    PROVE  /\ event[t] \in RawEvents /\ s \in Streams
           /\ buffer' = [buffer EXCEPT ![s] = buffer[s] \o event[t].payload]
           /\ buffer[s] \o event[t].payload \in Payload
           /\ contributors' = [contributors EXCEPT ![s] = Append(contributors[s], event[t].seq)]
           /\ input' \in [Streams -> Seq(InputBytes)]
           /\ \A r \in Streams : Len(buffer'[r]) <= Len(input'[r]) /\ Taken(r)' = Taken(r)
<1>. DEFINE pl == event[t].payload
<1>1. event[t] \in RawEvents /\ s \in Streams /\ pl \in Seq(Byte) /\ Len(pl) \in Nat
    BY EventOf, EventFields, Elements DEF FeedDecoder, Control, Payload
<1>2. input' \in [Streams -> Seq(InputBytes)] /\ \A r \in Streams \ {s} : input'[r] = input[r]
    BY FedBytes
<1>3. Len(input'[s]) = Len(input[s]) + Len(pl) /\ Len(input[s]) \in Nat
    BY FedBytes
<1>6. buffer' = [buffer EXCEPT ![s] = buffer[s] \o pl]
    BY DEF FeedDecoder
<1>7. contributors' = [contributors EXCEPT ![s] = Append(contributors[s], event[t].seq)]
    BY DEF FeedDecoder
<1>. HIDE DEF pl
<1>8. buffer[s] \in Seq(Byte)
    BY <1>1 DEF TypeOK, Payload
<1>10. buffer[s] \o pl \in Seq(Byte) /\ Len(buffer[s] \o pl) = Len(buffer[s]) + Len(pl)
    BY <1>1, <1>8, ConcatProperties
<1>11. Len(buffer[s]) \in Nat /\ Len(buffer[s]) <= Len(input[s])
    BY <1>1, <1>8, LenProperties DEF Control
<1>12. buffer'[s] = buffer[s] \o pl
    BY <1>1, <1>6 DEF TypeOK
<1>13. \A r \in Streams : Len(buffer'[r]) <= Len(input'[r]) /\ Taken(r)' = Taken(r)
  <2>1. Len(buffer'[s]) <= Len(input'[s]) /\ Taken(s)' = Taken(s)
    <3>1. Len(buffer'[s]) = Len(buffer[s]) + Len(pl)
      BY <1>10, <1>12
    <3>. QED BY <1>1, <1>3, <1>11, <3>1 DEF Taken
  <2>2. \A r \in Streams \ {s} : buffer'[r] = buffer[r]
    BY <1>1, <1>6 DEF TypeOK
  <2>. QED BY <1>2, <2>1, <2>2 DEF Control, Taken
<1>. QED BY <1>1, <1>2, <1>6, <1>7, <1>10, <1>13 DEF pl, Payload

LEMMA ExtractFacts ==
    ASSUME TypeOK, Control, NEW t \in Callers, ExtractFrame(t),
           NEW s, s = event[t].stream, NEW span, span = FrameSpan(decoder, buffer[s])
    PROVE  /\ s \in Streams /\ event[t] \in RawEvents
           /\ span \in Nat \ {0} /\ span <= Len(buffer[s]) /\ Taken(s) \in Nat
           /\ Taken(s) + span <= Len(input[s])
           /\ Drop(buffer[s], span) \in Payload
           /\ buffer' = [buffer EXCEPT ![s] = Drop(buffer[s], span)]
           /\ \E f \in CutFrames :
                 /\ f.payload = FramePayload(decoder, buffer[s], span)
                 /\ f.first = Taken(s) + 1 /\ f.last = Taken(s) + span
                 /\ result' = [result EXCEPT ![t] = Append(result[t], f)]
           /\ Taken(s)' = Taken(s) + span
           /\ \A r \in Streams \ {s} : Taken(r)' = Taken(r)
           /\ \A r \in Streams : Len(buffer'[r]) <= Len(input'[r])
<1>1. event[t] \in RawEvents /\ s \in Streams
    BY EventOf, EventFields DEF ExtractFrame, Control
<1>2. buffer[s] \in Payload /\ Accepted(decoder)
    BY <1>1, SettingsAreAccepted DEF TypeOK
<1>3. span \in Nat \ {0} /\ span <= Len(buffer[s])
    BY <1>2, SpanIsWithin DEF ExtractFrame
<1>4. /\ Taken(s) \in Nat /\ Len(buffer[s]) \in Nat /\ Len(input[s]) \in Nat
      /\ Taken(s) + Len(buffer[s]) = Len(input[s])
    BY <1>1, BufferIsWithin
<1>5. Drop(buffer[s], span) \in Payload /\ Len(Drop(buffer[s], span)) = Len(buffer[s]) - span
    BY <1>2, <1>3, DropFacts DEF Payload
<1>6. buffer' = [buffer EXCEPT ![s] = Drop(buffer[s], span)]
    BY DEF ExtractFrame
<1>7. \E f \in CutFrames :
         /\ f.payload = FramePayload(decoder, buffer[s], span)
         /\ f.first = Taken(s) + 1 /\ f.last = Taken(s) + span
         /\ result' = [result EXCEPT ![t] = Append(result[t], f)]
  <2>. DEFINE f == [payload |-> FramePayload(decoder, buffer[s], span),
                    first |-> Taken(s) + 1, last |-> Taken(s) + span]
  <2>1. FramePayload(decoder, buffer[s], span) \in Payload
    BY <1>2, <1>3, PayloadIsPayload
  <2>2. f \in CutFrames
    BY <1>3, <1>4, <2>1 DEF CutFrames
  <2>3. result' = [result EXCEPT ![t] = Append(result[t], f)]
    BY DEF ExtractFrame
  <2>. QED BY <2>2, <2>3
<1>8. buffer'[s] = Drop(buffer[s], span) /\ \A r \in Streams \ {s} : buffer'[r] = buffer[r]
    BY <1>1, <1>6 DEF TypeOK
<1>9. Taken(s)' = Taken(s) + span /\ \A r \in Streams \ {s} : Taken(r)' = Taken(r)
  <2>1. Len(buffer'[s]) = Len(buffer[s]) - span /\ input' = input
    BY <1>5, <1>8 DEF ExtractFrame
  <2>2. Taken(s)' = Taken(s) + span
    <3>1. Taken(s)' = Len(input'[s]) - Len(buffer'[s])
      BY DEF Taken
    <3>. QED BY <1>3, <1>4, <2>1, <3>1
  <2>. QED BY <1>8, <2>1, <2>2 DEF Taken
<1>10. Len(buffer'[s]) <= Len(input'[s]) /\ Taken(s) + span <= Len(input[s])
    BY <1>3, <1>4, <1>5, <1>8 DEF ExtractFrame
<1>11. \A r \in Streams : Len(buffer'[r]) <= Len(input'[r])
    BY <1>8, <1>10 DEF ExtractFrame, Control
<1>. QED BY <1>1, <1>3, <1>4, <1>5, <1>6, <1>7, <1>9, <1>10, <1>11

LEMMA ThrewFacts ==
    ASSUME TypeOK, Control, NEW t \in Callers, DecoderThrew(t),
           NEW s, s = event[t].stream, NEW e, e = DecoderError(counter, event[t], contributors[s])
    PROVE  /\ event[t] \in RawEvents /\ s \in Streams
           /\ e \in DecoderErrors /\ e.type = "error" /\ e.seq = counter /\ e.stream = s
           /\ e.parent = event[t].seq /\ e.parents = contributors[s]
           /\ derived[t] = <<>>
           /\ derived' = [derived EXCEPT ![t] = <<e>>]
<1>1. event[t] \in RawEvents /\ s \in Streams
    BY EventOf, EventFields DEF DecoderThrew, Control
<1>2. e \in DecoderErrors
    BY <1>1, EventFields DEF DecoderError, DecoderErrors, TypeOK
<1>3. derived[t] = <<>>
    BY DEF DecoderThrew, Control
<1>. QED BY <1>1, <1>2, <1>3 DEF DecoderThrew, DecoderError

LEMMA MakeFrameFacts ==
    ASSUME TypeOK, Control, NEW t \in Callers, MakeFrameEvent(t),
           NEW s, s = event[t].stream, NEW f, f = Head(result[t]),
           NEW e, e = FrameEvent(counter, event[t], contributors[s], f)
    PROVE  /\ event[t] \in RawEvents /\ s \in Streams
           /\ f \in CutFrames /\ Tail(result[t]) \in Seq(CutFrames)
           /\ e \in FrameEvents /\ e.type = "frame" /\ e.seq = counter /\ e.stream = s
           /\ e.parent = event[t].seq /\ e.parents = contributors[s]
           /\ e.first = f.first /\ e.last = f.last /\ e.payload = f.payload
           /\ derived' = [derived EXCEPT ![t] = Append(derived[t], e)]
<1>1. event[t] \in RawEvents /\ s \in Streams
    BY EventOf, EventFields DEF MakeFrameEvent, Control
<1>2. f \in CutFrames /\ Tail(result[t]) \in Seq(CutFrames)
    BY TailFacts DEF MakeFrameEvent, TypeOK
<1>3. e \in FrameEvents
    BY <1>1, <1>2, EventFields DEF FrameEvent, FrameEvents, TypeOK, CutFrames
<1>4. derived' = [derived EXCEPT ![t] = Append(derived[t], e)]
    BY DEF MakeFrameEvent
<1>. QED BY <1>1, <1>2, <1>3, <1>4 DEF FrameEvent

LEMMA SinkDerivedFacts ==
    ASSUME TypeOK, NEW t \in Callers, SinkDerived(t), derived[t] # <<>>,
           NEW e, e = Head(derived[t])
    PROVE  /\ e \in DerivedEvents /\ e \in Events
           /\ Tail(derived[t]) \in Seq(DerivedEvents)
           /\ log' = Append(log, e)
           /\ derived' = [derived EXCEPT ![t] = Tail(derived[t])]
<1>1. e \in DerivedEvents /\ Tail(derived[t]) \in Seq(DerivedEvents)
    BY TailFacts DEF TypeOK
<1>. QED BY <1>1 DEF SinkDerived, Events

-----------------------------------------------------------------------------
(***************************************************************************)
(* Types.                                                                  *)
(***************************************************************************)
LEMMA InitType ==
    ASSUME Init
    PROVE  TypeOK
<1>1. event \in [Callers -> {NoEvent} \cup RawEvents \cup StateChanges]
    BY DEF Init
<1>2. /\ buffer \in [Streams -> Payload]
      /\ contributors \in [Streams -> Seq(Nat)]
      /\ result \in [Callers -> Seq(CutFrames)]
      /\ derived \in [Callers -> Seq(DerivedEvents)]
      /\ log \in Seq(Events)
      /\ input \in [Streams -> Seq(InputBytes)]
      /\ cuts \in [Streams -> Seq(Nat)]
    BY EmptySeq DEF Init, Payload
<1>. QED BY <1>1, <1>2 DEF Init, TypeOK

LEMMA ConsumeType ==
    ASSUME TypeOK, Control, NEW t \in Callers, Consume(t)
    PROVE  TypeOK'
<1>1. ASSUME SinkEvent(t) PROVE TypeOK'
  <2>1. log' \in Seq(Events)
    <3>1. log \in Seq(Events) /\ event[t] \in Events /\ log' = Append(log, event[t])
      BY <1>1, SinkEventFacts DEF TypeOK
    <3>. QED BY <3>1, AppendProperties
  <2>. QED BY <1>1, <2>1 DEF TypeOK, SinkEvent, Goto, session, decoding
<1>2. ASSUME FeedDecoder(t) PROVE TypeOK'
  <2>. DEFINE s == event[t].stream
  <2>1. Append(contributors[s], event[t].seq) \in Seq(Nat)
    BY <1>2, FeedFacts, EventFields, AppendProperties DEF TypeOK
  <2>2. /\ input' \in [Streams -> Seq(InputBytes)]
        /\ buffer' \in [Streams -> Payload]
        /\ contributors' \in [Streams -> Seq(Nat)]
    <3>1. /\ s \in Streams /\ input' \in [Streams -> Seq(InputBytes)]
          /\ buffer[s] \o event[t].payload \in Payload
          /\ buffer' = [buffer EXCEPT ![s] = buffer[s] \o event[t].payload]
          /\ contributors' = [contributors EXCEPT ![s] = Append(contributors[s], event[t].seq)]
      BY <1>2, FeedFacts
    <3>. QED BY <2>1, <3>1 DEF TypeOK
  <2>. QED BY <1>2, <2>2 DEF TypeOK, FeedDecoder, Goto, session
<1>3. ASSUME ExtractFrame(t) PROVE TypeOK'
  <2>. DEFINE s == event[t].stream
              span == FrameSpan(decoder, buffer[s])
  <2>1. /\ s \in Streams /\ span \in Nat /\ Taken(s) \in Nat /\ Drop(buffer[s], span) \in Payload
        /\ buffer' = [buffer EXCEPT ![s] = Drop(buffer[s], span)]
    BY <1>3, ExtractFacts
  <2>2. result' \in [Callers -> Seq(CutFrames)]
    <3>1. PICK f \in CutFrames : result' = [result EXCEPT ![t] = Append(result[t], f)]
      BY <1>3, ExtractFacts
    <3>2. Append(result[t], f) \in Seq(CutFrames)
      BY <3>1, AppendProperties DEF TypeOK
    <3>. QED BY <3>1, <3>2 DEF TypeOK
  <2>3. cuts' = [cuts EXCEPT ![s] = Append(cuts[s], Taken(s) + span)]
    BY <1>3 DEF ExtractFrame
  <2>. HIDE DEF s, span
  <2>4. Append(cuts[s], Taken(s) + span) \in Seq(Nat)
    BY <2>1, AppendProperties DEF TypeOK
  <2>5. buffer' \in [Streams -> Payload] /\ cuts' \in [Streams -> Seq(Nat)]
    BY <2>1, <2>3, <2>4 DEF TypeOK
  <2>. QED BY <1>3, <2>2, <2>5 DEF TypeOK, ExtractFrame, session
<1>4. ASSUME DecoderReturned(t) PROVE TypeOK'
    BY <1>4 DEF TypeOK, DecoderReturned, Goto, session, decoding
<1>5. ASSUME DecoderThrew(t) PROVE TypeOK'
  <2>. DEFINE s == event[t].stream
              error == DecoderError(counter, event[t], contributors[s])
  <2>1. error \in DerivedEvents /\ derived' = [derived EXCEPT ![t] = <<error>>]
    BY <1>5, ThrewFacts DEF DerivedEvents
  <2>2. <<>> \in Seq(CutFrames) /\ <<>> \in Seq(Nat)
    BY EmptySeq
  <2>. HIDE DEF error
  <2>3. <<error>> \in Seq(DerivedEvents)
    BY <2>1
  <2>4. /\ derived' \in [Callers -> Seq(DerivedEvents)]
        /\ result' \in [Callers -> Seq(CutFrames)]
        /\ contributors' \in [Streams -> Seq(Nat)]
    BY <1>5, <2>1, <2>2, <2>3 DEF TypeOK, DecoderThrew
  <2>. QED BY <1>5, <2>4 DEF TypeOK, DecoderThrew, Goto, session
<1>6. ASSUME MakeFrameEvent(t) PROVE TypeOK'
  <2>1. PICK e \in DerivedEvents : derived' = [derived EXCEPT ![t] = Append(derived[t], e)]
    BY <1>6, MakeFrameFacts DEF DerivedEvents
  <2>2. Append(derived[t], e) \in Seq(DerivedEvents)
    BY <2>1, AppendProperties DEF TypeOK
  <2>3. derived' \in [Callers -> Seq(DerivedEvents)]
    BY <2>1, <2>2 DEF TypeOK
  <2>4. result' \in [Callers -> Seq(CutFrames)]
    BY <1>6, MakeFrameFacts DEF TypeOK, MakeFrameEvent
  <2>. QED BY SMTT(20), <1>6, <2>3, <2>4 DEF TypeOK, MakeFrameEvent, session
<1>7. ASSUME LeaveDecoder(t) PROVE TypeOK'
  <2>1. contributors' \in [Streams -> Seq(Nat)]
    BY <1>7, EmptySeq DEF TypeOK, LeaveDecoder
  <2>. QED BY <1>7, <2>1 DEF TypeOK, LeaveDecoder, Goto, session
<1>8. ASSUME SinkDerived(t) PROVE TypeOK'
  <2>1. CASE derived[t] = <<>>
    BY <1>8, <2>1 DEF TypeOK, SinkDerived, Goto, session, decoding
  <2>2. CASE derived[t] # <<>>
    <3>1. log' \in Seq(Events)
      <4>1. PICK e \in Events : log' = Append(log, e)
        BY <1>8, <2>2, SinkDerivedFacts
      <4>2. log \in Seq(Events)
        BY DEF TypeOK
      <4>. QED BY <4>1, <4>2, AppendProperties
    <3>2. derived' \in [Callers -> Seq(DerivedEvents)]
      BY <1>8, <2>2, SinkDerivedFacts DEF TypeOK
    <3>. QED BY <1>8, <2>2, <3>1, <3>2 DEF TypeOK, SinkDerived, session, decoding
  <2>. QED BY <2>1, <2>2
<1>. QED BY <1>1, <1>2, <1>3, <1>4, <1>5, <1>6, <1>7, <1>8 DEF Consume

LEMMA MakeType ==
    ASSUME TypeOK, NEW t \in Callers, NEW s \in Streams, MakeEvent(t, s)
    PROVE  TypeOK'
<1>1. event' \in [Callers -> {NoEvent} \cup RawEvents \cup StateChanges]
  <2>1. work.chunks \subseteq Payload
    BY WorkloadAssumption DEF TypeOK, Payload, Byte
  <2>2. StateChange(counter, s) \in StateChanges
    BY DEF TypeOK, StateChange, StateChanges
  <2>3. \A c \in work.chunks : RawEvent(counter, s, c) \in RawEvents
    BY <2>1 DEF TypeOK, RawEvent, RawEvents
  <2>. QED BY <2>2, <2>3 DEF TypeOK, MakeEvent
<1>. QED BY <1>1 DEF TypeOK, MakeEvent, Goto, decoding

-----------------------------------------------------------------------------
(***************************************************************************)
(* Who is where with what.                                                 *)
(***************************************************************************)
LEMMA InitControl ==
    ASSUME Init
    PROVE  Control
<1>1. \A s \in Streams : Len(buffer[s]) <= Len(input[s])
    BY DEF Init
<1>. QED BY <1>1, CallerAssumption DEF Init, Control, Inside

LEMMA ConsumeControl ==
    ASSUME TypeOK, Control, NEW t \in Callers, Consume(t)
    PROVE  Control'
<1>. USE CallerAssumption DEF TypeOK, Control, Inside
<1>1. ASSUME SinkEvent(t) PROVE Control'
  <2>1. event[t].type = "raw_bytes" \/ pc'[t] = "idle"
    BY <1>1 DEF SinkEvent, Goto
  <2>. QED BY <1>1, <2>1 DEF SinkEvent, Goto, session, decoding
<1>2. ASSUME FeedDecoder(t) PROVE Control'
  <2>1. \A r \in Streams : Len(buffer'[r]) <= Len(input'[r])
    BY <1>2, FeedFacts
  <2>. QED BY <1>2, <2>1 DEF FeedDecoder, Goto, session
<1>3. ASSUME ExtractFrame(t) PROVE Control'
  <2>1. \A r \in Streams : Len(buffer'[r]) <= Len(input'[r])
    BY <1>3, ExtractFacts
  <2>2. \A u \in Callers : result'[u] # <<>> => Inside(u)
    BY <1>3 DEF ExtractFrame
  <2>. QED BY <1>3, <2>1, <2>2 DEF ExtractFrame, session
<1>4. ASSUME DecoderReturned(t) PROVE Control'
    BY <1>4 DEF DecoderReturned, Goto, session, decoding
<1>5. ASSUME DecoderThrew(t) PROVE Control'
    BY <1>5 DEF DecoderThrew, Goto, session
<1>6. ASSUME MakeFrameEvent(t) PROVE Control'
    BY <1>6 DEF MakeFrameEvent, session
<1>7. ASSUME LeaveDecoder(t) PROVE Control'
    BY <1>7 DEF LeaveDecoder, Goto, session
<1>8. ASSUME SinkDerived(t) PROVE Control'
    BY <1>8 DEF SinkDerived, Goto, session, decoding
<1>. QED BY <1>1, <1>2, <1>3, <1>4, <1>5, <1>6, <1>7, <1>8 DEF Consume

LEMMA MakeControl ==
    ASSUME TypeOK, Control, NEW t \in Callers, NEW s \in Streams, MakeEvent(t, s)
    PROVE  Control'
<1>1. event'[t] # NoEvent
    BY DEF TypeOK, MakeEvent, RawEvent, StateChange, NoEvent
<1>2. \A u \in Callers \ {t} : event'[u] = event[u]
    BY DEF TypeOK, MakeEvent
<1>. QED BY <1>1, <1>2 DEF TypeOK, Control, Inside, MakeEvent, Goto, decoding

-----------------------------------------------------------------------------
(***************************************************************************)
(* What is held of a stream: it grows with every event that is derived,    *)
(* and passing an event on to the sink takes nothing away.                 *)
(***************************************************************************)
LEMMA EmittedGrows ==
    ASSUME TypeOK, NEW t \in Callers, NEW e, log' = log,
           derived' \in [Callers -> Seq(DerivedEvents)],
           \A u \in Callers \ {t} : derived'[u] = derived[u],
           Range(derived'[t]) = Range(derived[t]) \cup {e}
    PROVE  \A x : x \in Emitted' <=> x \in Emitted \/ x = e
<1>. SUFFICES ASSUME NEW x
              PROVE  x \in Emitted' <=> x \in Emitted \/ x = e
    OBVIOUS
<1>1. x \in Emitted' <=> x \in Range(log) \/ \E u \in Callers : x \in Range(derived'[u])
    BY DEF Emitted
<1>2. x \in Emitted <=> x \in Range(log) \/ \E u \in Callers : x \in Range(derived[u])
    BY DEF Emitted
<1>3. (\E u \in Callers : x \in Range(derived'[u]))
      <=> (\E u \in Callers : x \in Range(derived[u])) \/ x = e
    BY Zenon
<1>. QED BY <1>1, <1>2, <1>3

LEMMA HeldGrows ==
    ASSUME TypeOK, Control, NEW t \in Callers, NEW e \in DerivedEvents,
           \/ /\ DecoderThrew(t)
              /\ e = DecoderError(counter, event[t], contributors[event[t].stream])
           \/ /\ MakeFrameEvent(t)
              /\ e = FrameEvent(counter, event[t], contributors[event[t].stream], Head(result[t]))
    PROVE  \A s, x : x \in Held(s)' <=> x \in Held(s) \/ (x = e /\ e.stream = s)
<1>1. e.type \in {"frame", "error"}
    BY EventFields DEF DerivedEvents
<1>2. /\ log' = log
      /\ \A u \in Callers \ {t} : derived'[u] = derived[u]
      /\ Range(derived'[t]) = Range(derived[t]) \cup {e}
  <2>1. CASE DecoderThrew(t) /\ e = DecoderError(counter, event[t], contributors[event[t].stream])
    <3>1. derived[t] = <<>> /\ derived' = [derived EXCEPT ![t] = <<e>>]
      BY <2>1, ThrewFacts
    <3>2. derived'[t] = <<e>> /\ \A u \in Callers \ {t} : derived'[u] = derived[u]
      BY <3>1 DEF TypeOK
    <3>3. Range(<<e>>) = {e} /\ Range(<<>>) = {}
      BY DEF Range
    <3>. QED BY <2>1, <3>1, <3>2, <3>3 DEF DecoderThrew
  <2>2. CASE /\ MakeFrameEvent(t)
             /\ e = FrameEvent(counter, event[t], contributors[event[t].stream], Head(result[t]))
    <3>1. derived' = [derived EXCEPT ![t] = Append(derived[t], e)]
      BY <2>2, MakeFrameFacts
    <3>2. derived'[t] = Append(derived[t], e) /\ \A u \in Callers \ {t} : derived'[u] = derived[u]
      BY <3>1 DEF TypeOK
    <3>3. Range(Append(derived[t], e)) = Range(derived[t]) \cup {e}
      BY AppendFacts DEF TypeOK
    <3>. QED BY <2>2, <3>2, <3>3 DEF MakeFrameEvent
  <2>. QED BY <2>1, <2>2
<1>3. derived' \in [Callers -> Seq(DerivedEvents)]
    BY ConsumeType DEF Consume, TypeOK
<1>4. \A x : x \in Emitted' <=> x \in Emitted \/ x = e
    BY <1>2, <1>3, EmittedGrows
<1>. QED BY <1>1, <1>4 DEF Held, Derived

LEMMA HeldStays ==
    ASSUME TypeOK, Control, NEW t \in Callers,
           \/ SinkEvent(t) \/ FeedDecoder(t) \/ ExtractFrame(t) \/ DecoderReturned(t)
           \/ LeaveDecoder(t) \/ SinkDerived(t) \/ \E s \in Streams : MakeEvent(t, s)
    PROVE  \A s : Held(s)' = Held(s)
<1>1. ASSUME SinkEvent(t) PROVE \A s : Held(s)' = Held(s)
  <2>1. /\ log \in Seq(Events) /\ event[t] \in Events
        /\ log' = Append(log, event[t]) /\ derived' = derived
    BY <1>1, SinkEventFacts DEF SinkEvent, TypeOK
  <2>2. Range(log') = Range(log) \cup {event[t]}
    BY <2>1, AppendFacts
  <2>3. ~Derived(event[t])
    BY <1>1, SinkEventFacts, EventFields DEF Derived
  <2>. QED BY <2>1, <2>2, <2>3 DEF Held, Emitted
<1>2. ASSUME SinkDerived(t) PROVE \A s : Held(s)' = Held(s)
  <2>1. CASE derived[t] = <<>>
    BY <1>2, <2>1 DEF SinkDerived, Held, Emitted
  <2>2. CASE derived[t] # <<>>
    <3>1. PICK e : /\ e = Head(derived[t]) /\ e \in Events
                   /\ log' = Append(log, e)
                   /\ derived' = [derived EXCEPT ![t] = Tail(derived[t])]
      BY <1>2, <2>2, SinkDerivedFacts
    <3>2. Range(log') = Range(log) \cup {e}
      BY <3>1, AppendFacts DEF TypeOK
    <3>3. Range(derived[t]) = {e} \cup Range(derived'[t])
      BY <2>2, <3>1, TailFacts DEF TypeOK
    <3>4. \A u \in Callers \ {t} : derived'[u] = derived[u]
      BY <3>1 DEF TypeOK
    <3>5. \A x : x \in Emitted' <=> x \in Emitted
      <4>1. SUFFICES ASSUME NEW x PROVE x \in Emitted' <=> x \in Emitted
        OBVIOUS
      <4>2. x \in Emitted' <=> x \in Range(log') \/ \E u \in Callers : x \in Range(derived'[u])
        BY DEF Emitted
      <4>3. x \in Emitted <=> x \in Range(log) \/ \E u \in Callers : x \in Range(derived[u])
        BY DEF Emitted
      <4>. QED BY <3>2, <3>3, <3>4, <4>2, <4>3, Zenon
    <3>. QED BY <3>5 DEF Held
  <2>. QED BY <2>1, <2>2
<1>3. ASSUME log' = log, derived' = derived PROVE \A s : Held(s)' = Held(s)
    BY <1>3 DEF Held, Emitted
<1>. QED BY <1>1, <1>2, <1>3
         DEF FeedDecoder, ExtractFrame, DecoderReturned, LeaveDecoder, MakeEvent

-----------------------------------------------------------------------------
(***************************************************************************)
(* Numbers.                                                                *)
(***************************************************************************)
Increasing(q) == \A k, l \in DOMAIN q : k < l => q[k].seq < q[l].seq

LEMMA NumbersAre ==
    ASSUME TypeOK, Control
    PROVE  /\ counter \in Nat
           /\ \A i \in DOMAIN log : log[i] \in Events /\ log[i].seq \in Nat
           /\ \A t \in Callers : \A k \in DOMAIN derived[t] :
                 derived[t][k] \in DerivedEvents /\ derived[t][k].seq \in Nat
           /\ \A t \in Callers : \A n \in Outstanding(t) : n \in Nat
<1>1. \A e \in Events : e.seq \in Nat
    BY EventFields DEF Events, DerivedEvents
<1>2. \A i \in DOMAIN log : log[i] \in Events
    BY Elements DEF TypeOK
<1>3. \A t \in Callers : \A k \in DOMAIN derived[t] : derived[t][k] \in DerivedEvents
    BY Elements DEF TypeOK
<1>4. \A t \in Callers : pc[t] = "sink" => event[t].seq \in Nat
    BY EventOf DEF Control
<1>5. \A t \in Callers : \A k \in DOMAIN derived[t] : derived[t][k].seq \in Nat
    BY <1>1, <1>3 DEF Events
<1>6. \A t \in Callers : \A n \in Outstanding(t) : n \in Nat
    BY <1>4, <1>5 DEF Outstanding
<1>. QED BY <1>1, <1>2, <1>3, <1>5, <1>6 DEF TypeOK

\* A step that takes a number and passes nothing on.
LEMMA NumberTaken ==
    ASSUME TypeOK, Control, Numbering, NEW t \in Callers,
           log' = log, counter' = counter + 1,
           \A n \in Outstanding(t)' : n \in Outstanding(t) \/ n = counter,
           \A u \in Callers \ {t} : Outstanding(u)' = Outstanding(u) /\ derived'[u] = derived[u],
           Increasing(derived'[t])
    PROVE  Numbering'
<1>. USE NumbersAre
<1>1. \A i \in DOMAIN log' : log'[i].seq < counter'
    BY DEF Numbering
<1>2. \A u \in Callers : \A n \in Outstanding(u)' :
         n < counter' /\ \A i \in DOMAIN log' : log'[i].seq # n
  <2>1. \A u \in Callers : \A n \in Outstanding(u) :
           n < counter' /\ \A i \in DOMAIN log' : log'[i].seq # n
    BY DEF Numbering
  <2>2. counter < counter' /\ \A i \in DOMAIN log' : log'[i].seq # counter
    BY DEF Numbering
  <2>. QED BY <2>1, <2>2
<1>3. \A u, v \in Callers : u # v => Outstanding(u)' \cap Outstanding(v)' = {}
  <2>1. \A u \in Callers : counter \notin Outstanding(u)
    BY DEF Numbering
  <2>. QED BY <2>1 DEF Numbering
<1>4. \A u \in Callers : Increasing(derived'[u])
    BY DEF Numbering, Increasing
<1>. QED BY <1>1, <1>2, <1>3, <1>4 DEF Numbering, Increasing

\* A step that passes an event on.
LEMMA NumberPassed ==
    ASSUME TypeOK, Control, Numbering, NEW t \in Callers, NEW e \in Events,
           log' = Append(log, e), counter' = counter,
           e.seq \in Outstanding(t), e.seq \notin Outstanding(t)',
           Outstanding(t)' \subseteq Outstanding(t),
           \A u \in Callers \ {t} : Outstanding(u)' = Outstanding(u) /\ derived'[u] = derived[u],
           Increasing(derived'[t])
    PROVE  Numbering'
<1>1. /\ Len(log) \in Nat /\ DOMAIN log = 1..Len(log)
      /\ DOMAIN log' = 1..(Len(log) + 1) /\ log'[Len(log) + 1] = e
      /\ \A i \in DOMAIN log : log'[i] = log[i]
    BY AppendFacts DEF TypeOK
<1>2. \A i \in DOMAIN log' : i \in DOMAIN log \/ log'[i] = e
    BY <1>1
<1>3. \A i, j \in DOMAIN log' : i # j => log'[i].seq # log'[j].seq
  <2>1. \A i \in DOMAIN log : log[i].seq # e.seq
    BY DEF Numbering
  <2>2. \A i, j \in DOMAIN log' : i # j => i \in DOMAIN log \/ j \in DOMAIN log
    BY <1>1
  <2>. QED BY <1>1, <1>2, <2>1, <2>2 DEF Numbering
<1>4. \A i \in DOMAIN log' : log'[i].seq < counter'
    BY <1>1, <1>2 DEF Numbering
<1>5. \A u \in Callers : e.seq \notin Outstanding(u)'
    BY DEF Numbering
<1>6. \A u \in Callers : \A n \in Outstanding(u)' :
         n < counter' /\ \A i \in DOMAIN log' : log'[i].seq # n
    BY <1>1, <1>2, <1>5 DEF Numbering
<1>7. \A u, v \in Callers : u # v => Outstanding(u)' \cap Outstanding(v)' = {}
    BY DEF Numbering
<1>8. \A u \in Callers : Increasing(derived'[u])
    BY DEF Numbering, Increasing
<1>. QED BY <1>3, <1>4, <1>6, <1>7, <1>8 DEF Numbering, Increasing

\* A step that does neither.
LEMMA NumbersStay ==
    ASSUME Numbering, log' = log, counter' = counter, derived' = derived,
           \A u \in Callers : pc[u] = "sink" <=> pc'[u] = "sink",
           \A u \in Callers : pc[u] = "sink" => event'[u] = event[u]
    PROVE  Numbering'
<1>1. \A u \in Callers : Outstanding(u)' = Outstanding(u)
    BY DEF Outstanding
<1>. QED BY <1>1 DEF Numbering

LEMMA ConsumeNumbers ==
    ASSUME TypeOK, Control, Numbering, NEW t \in Callers, Consume(t)
    PROVE  Numbering'
<1>1. ASSUME SinkEvent(t) PROVE Numbering'
  <2>1. derived[t] = <<>> /\ derived' = derived /\ counter' = counter
        /\ pc[t] = "sink" /\ pc'[t] # "sink" /\ \A u \in Callers \ {t} : pc'[u] = pc[u]
    BY <1>1 DEF SinkEvent, Goto, Control, TypeOK, session
  <2>2. Outstanding(t) = {event[t].seq} /\ Outstanding(t)' = {}
    BY <2>1 DEF Outstanding
  <2>3. \A u \in Callers \ {t} : Outstanding(u)' = Outstanding(u)
    BY <1>1, <2>1 DEF Outstanding, SinkEvent, session
  <2>4. event[t] \in Events /\ log' = Append(log, event[t])
    BY <1>1, SinkEventFacts
  <2>5. Increasing(derived'[t])
    BY <2>1 DEF Increasing
  <2>. QED BY <2>1, <2>2, <2>3, <2>4, <2>5, NumberPassed
<1>2. ASSUME FeedDecoder(t) PROVE Numbering'
    BY <1>2, NumbersStay DEF FeedDecoder, Goto, TypeOK, session
<1>3. ASSUME ExtractFrame(t) PROVE Numbering'
    BY <1>3, NumbersStay DEF ExtractFrame, TypeOK, session
<1>4. ASSUME DecoderReturned(t) PROVE Numbering'
    BY <1>4, NumbersStay DEF DecoderReturned, Goto, TypeOK, session
<1>5. ASSUME DecoderThrew(t) PROVE Numbering'
  <2>1. PICK e : e.seq = counter /\ derived[t] = <<>> /\ derived' = [derived EXCEPT ![t] = <<e>>]
    BY <1>5, ThrewFacts
  <2>2. derived'[t] = <<e>> /\ \A u \in Callers \ {t} : derived'[u] = derived[u]
    BY <2>1 DEF TypeOK
  <2>3. pc[t] # "sink" /\ pc'[t] # "sink" /\ \A u \in Callers \ {t} : pc'[u] = pc[u]
    BY <1>5 DEF DecoderThrew, Goto, TypeOK
  <2>4. event' = event /\ log' = log /\ counter' = counter + 1
    BY <1>5 DEF DecoderThrew, session
  <2>5. Outstanding(t)' = {counter}
    BY <2>1, <2>2, <2>3 DEF Outstanding
  <2>6. \A u \in Callers \ {t} : Outstanding(u)' = Outstanding(u)
    BY <2>2, <2>3, <2>4 DEF Outstanding
  <2>7. Increasing(derived'[t])
    BY <2>2 DEF Increasing
  <2>. QED BY <2>2, <2>4, <2>5, <2>6, <2>7, NumberTaken
<1>6. ASSUME MakeFrameEvent(t) PROVE Numbering'
  <2>1. PICK e \in DerivedEvents : /\ e.seq = counter
                                   /\ derived' = [derived EXCEPT ![t] = Append(derived[t], e)]
    BY <1>6, MakeFrameFacts DEF DerivedEvents
  <2>2. derived'[t] = Append(derived[t], e) /\ \A u \in Callers \ {t} : derived'[u] = derived[u]
    BY <2>1 DEF TypeOK
  <2>3. pc[t] # "sink" /\ pc' = pc /\ event' = event /\ log' = log /\ counter' = counter + 1
    BY <1>6 DEF MakeFrameEvent, session
  <2>4. /\ Len(derived[t]) \in Nat /\ DOMAIN derived[t] = 1..Len(derived[t])
        /\ DOMAIN derived'[t] = 1..(Len(derived[t]) + 1)
        /\ derived'[t][Len(derived[t]) + 1] = e
        /\ \A k \in DOMAIN derived[t] : derived'[t][k] = derived[t][k]
    BY <2>2, AppendFacts DEF TypeOK
  <2>5. \A k \in DOMAIN derived'[t] : k \in DOMAIN derived[t] \/ k = Len(derived[t]) + 1
    BY <2>4
  <2>6. \A n \in Outstanding(t)' : n \in Outstanding(t) \/ n = counter
    BY <2>1, <2>3, <2>4, <2>5 DEF Outstanding
  <2>7. \A u \in Callers \ {t} : Outstanding(u)' = Outstanding(u)
    BY <2>2, <2>3 DEF Outstanding
  <2>8. Increasing(derived'[t])
    <3>1. \A k \in DOMAIN derived[t] : derived[t][k].seq < counter
      BY <2>3 DEF Numbering, Outstanding
    <3>2. SUFFICES ASSUME NEW k \in DOMAIN derived'[t], NEW l \in DOMAIN derived'[t], k < l
                   PROVE  derived'[t][k].seq < derived'[t][l].seq
      BY DEF Increasing
    <3>3. k \in DOMAIN derived[t]
      BY <2>4, <3>2
    <3>. QED BY <2>1, <2>4, <2>5, <3>1, <3>2, <3>3 DEF Numbering
  <2>. QED BY <2>2, <2>3, <2>6, <2>7, <2>8, NumberTaken
<1>7. ASSUME LeaveDecoder(t) PROVE Numbering'
    BY <1>7, NumbersStay DEF LeaveDecoder, Goto, TypeOK, session
<1>8. ASSUME SinkDerived(t) PROVE Numbering'
  <2>1. CASE derived[t] = <<>>
    BY <1>8, <2>1, NumbersStay DEF SinkDerived, Goto, TypeOK, session
  <2>2. CASE derived[t] # <<>>
    <3>1. PICK e \in Events : /\ e = Head(derived[t]) /\ log' = Append(log, e)
                              /\ derived' = [derived EXCEPT ![t] = Tail(derived[t])]
      BY <1>8, <2>2, SinkDerivedFacts
    <3>2. derived'[t] = Tail(derived[t]) /\ \A u \in Callers \ {t} : derived'[u] = derived[u]
      BY <3>1 DEF TypeOK
    <3>3. pc[t] # "sink" /\ pc' = pc /\ event' = event /\ counter' = counter
      BY <1>8, <2>2 DEF SinkDerived, session
    <3>4. /\ e = derived[t][1] /\ 1 \in DOMAIN derived[t]
          /\ \A k \in DOMAIN derived'[t] :
                k \in Nat /\ 1 < k + 1 /\ k + 1 \in DOMAIN derived[t]
                /\ derived'[t][k] = derived[t][k + 1]
      BY <2>2, <3>1, <3>2, TailFacts DEF TypeOK
    <3>5. \A k \in DOMAIN derived'[t] : e.seq < derived'[t][k].seq
      BY <3>4 DEF Numbering
    <3>6. e.seq \in Outstanding(t) /\ Outstanding(t)' \subseteq Outstanding(t)
      BY <3>3, <3>4 DEF Outstanding
    <3>7. e.seq \notin Outstanding(t)'
      <4>1. e.seq \in Nat
        BY <3>6, NumbersAre
      <4>. QED BY <3>3, <3>5, <4>1 DEF Outstanding
    <3>8. \A u \in Callers \ {t} : Outstanding(u)' = Outstanding(u)
      BY <3>2, <3>3 DEF Outstanding
    <3>9. Increasing(derived'[t])
      <4>1. \A k, l \in DOMAIN derived'[t] : k < l => k + 1 < l + 1
        BY <3>4
      <4>. QED BY <3>4, <4>1 DEF Numbering, Increasing
    <3>. QED BY <3>1, <3>2, <3>3, <3>6, <3>7, <3>8, <3>9, NumberPassed
  <2>. QED BY <2>1, <2>2
<1>. QED BY <1>1, <1>2, <1>3, <1>4, <1>5, <1>6, <1>7, <1>8 DEF Consume

LEMMA MakeNumbers ==
    ASSUME TypeOK, Control, Numbering, NEW t \in Callers, NEW s \in Streams, MakeEvent(t, s)
    PROVE  Numbering'
<1>1. /\ pc[t] = "idle" /\ pc'[t] = "sink" /\ \A u \in Callers \ {t} : pc'[u] = pc[u]
      /\ event'[t].seq = counter /\ \A u \in Callers \ {t} : event'[u] = event[u]
      /\ derived' = derived /\ log' = log /\ counter' = counter + 1
    BY DEF MakeEvent, Goto, TypeOK, RawEvent, StateChange
<1>2. Outstanding(t)' = {counter}
    BY <1>1 DEF Outstanding
<1>3. \A u \in Callers \ {t} : Outstanding(u)' = Outstanding(u)
    BY <1>1 DEF Outstanding
<1>4. Increasing(derived'[t])
    BY <1>1 DEF Numbering, Increasing
<1>. QED BY <1>1, <1>2, <1>3, <1>4, NumberTaken

-----------------------------------------------------------------------------
(***************************************************************************)
(* The order of frames.                                                    *)
(***************************************************************************)
LEMMA HeldAre ==
    ASSUME TypeOK, Control, Numbering
    PROVE  \A s, e : e \in Held(s) =>
              /\ e \in DerivedEvents /\ e.stream = s /\ e.seq \in Nat /\ e.seq < counter
              /\ e.type = "frame" => e \in FrameEvents /\ e.first \in Nat /\ e.last \in Nat
              /\ e.type = "error" => e \in DecoderErrors
<1>. SUFFICES ASSUME NEW s, NEW e \in Held(s)
              PROVE  /\ e \in DerivedEvents /\ e.stream = s /\ e.seq \in Nat /\ e.seq < counter
                     /\ e.type = "frame" => e \in FrameEvents /\ e.first \in Nat /\ e.last \in Nat
                     /\ e.type = "error" => e \in DecoderErrors
    OBVIOUS
<1>1. e \in Emitted /\ Derived(e) /\ e.stream = s
    BY DEF Held
<1>2. \/ \E i \in DOMAIN log : e = log[i]
      \/ \E t \in Callers : \E k \in DOMAIN derived[t] : e = derived[t][k]
    BY <1>1 DEF Emitted, Range
<1>3. e \in Events /\ e.seq \in Nat
    BY <1>2, NumbersAre DEF Events
<1>4. e.seq < counter
  <2>1. ASSUME NEW t \in Callers, NEW k \in DOMAIN derived[t] PROVE derived[t][k].seq < counter
    <3>1. pc[t] # "sink"
      BY <2>1, EmptySeq DEF Control
    <3>. QED BY <3>1 DEF Numbering, Outstanding
  <2>. QED BY <1>2, <2>1 DEF Numbering
<1>5. e \in FrameEvents \/ e \in DecoderErrors
    BY <1>1, <1>3, EventFields DEF Events, DerivedEvents, Derived
<1>. QED BY <1>1, <1>3, <1>4, <1>5, EventFields DEF DerivedEvents

\* Only the thread that owns mutex_ has frames that are not numbered.
LEMMA OnlyOneCuts ==
    ASSUME TypeOK, Control, NEW t \in Callers, Inside(t)
    PROVE  \A u \in Callers \ {t} : ~Inside(u) /\ result[u] = <<>>
BY CallerAssumption DEF Control, Inside

LEMMA CutFields ==
    ASSUME TypeOK
    PROVE  \A t \in Callers : \A k \in DOMAIN result[t] :
              result[t][k].first \in Nat /\ result[t][k].last \in Nat
<1>1. \A t \in Callers : \A k \in DOMAIN result[t] : result[t][k] \in CutFrames
    BY Elements DEF TypeOK
<1>. QED BY <1>1 DEF CutFrames

LEMMA OrderStays ==
    ASSUME TypeOK, Control, TakenInOrder,
           \A s : Held(s)' = Held(s),
           \A s \in Streams : Taken(s)' = Taken(s),
           result' = result,
           \A u \in Callers : Inside(u) => event'[u] = event[u]
    PROVE  TakenInOrder'
<1>1. \A s : HeldFrames(s)' = HeldFrames(s)
    BY DEF HeldFrames
<1>2. \A u \in Callers : \A k \in DOMAIN result'[u] :
         k \in DOMAIN result[u] /\ event'[u] = event[u] /\ event[u].stream \in Streams
  <2>1. \A u \in Callers : \A k \in DOMAIN result[u] : Inside(u)
    BY EmptySeq DEF Control
  <2>2. \A u \in Callers : Inside(u) => event[u].stream \in Streams
    BY EventOf, EventFields DEF Control, Inside
  <2>. QED BY <2>1, <2>2
<1>. QED BY <1>1, <1>2 DEF TakenInOrder

LEMMA ExtractOrder ==
    ASSUME TypeOK, Control, Numbering, TakenInOrder, NEW t \in Callers, ExtractFrame(t)
    PROVE  TakenInOrder'
<1>0. PICK s, span : s = event[t].stream /\ span = FrameSpan(decoder, buffer[s])
    OBVIOUS
<1>1. /\ s \in Streams /\ span \in Nat \ {0} /\ Taken(s) \in Nat
      /\ Taken(s)' = Taken(s) + span
      /\ \A r \in Streams \ {s} : Taken(r)' = Taken(r)
    BY <1>0, ExtractFacts
<1>2. PICK f \in CutFrames : /\ f.first = Taken(s) + 1 /\ f.last = Taken(s) + span
                             /\ result' = [result EXCEPT ![t] = Append(result[t], f)]
    BY <1>0, ExtractFacts
<1>3. /\ Len(result[t]) \in Nat /\ DOMAIN result[t] = 1..Len(result[t])
      /\ DOMAIN result'[t] = 1..(Len(result[t]) + 1)
      /\ result'[t][Len(result[t]) + 1] = f
      /\ \A k \in DOMAIN result[t] : result'[t][k] = result[t][k]
  <2>1. result'[t] = Append(result[t], f)
    BY <1>2 DEF TypeOK
  <2>. QED BY <2>1, AppendFacts DEF TypeOK
<1>4. \A u \in Callers \ {t} : result'[u] = <<>>
  <2>1. Inside(t)
    BY DEF ExtractFrame, Inside
  <2>. QED BY <1>2, <2>1, OnlyOneCuts DEF TypeOK
<1>5. event' = event /\ event[t].stream = s
    BY <1>0 DEF ExtractFrame, session
<1>6. \A r : HeldFrames(r)' = HeldFrames(r)
    BY HeldStays DEF HeldFrames
<1>7. \A r \in Streams : Taken(r) \in Nat /\ Taken(r)' \in Nat /\ Taken(r) <= Taken(r)'
  <2>1. \A r \in Streams : Taken(r) \in Nat
    BY BufferIsWithin
  <2>. QED BY <1>1, <2>1
<1>8. \A r : \A e \in HeldFrames(r) : e.first \in Nat /\ e.last \in Nat
    BY HeldAre DEF HeldFrames
<1>9. \A r \in Streams : \A e \in HeldFrames(r)' :
         1 <= e.first /\ e.first <= e.last /\ e.last <= Taken(r)'
    BY <1>6, <1>7, <1>8 DEF TakenInOrder
<1>10. ASSUME NEW k \in DOMAIN result'[t], NEW r, r = result'[t][k]
       PROVE  /\ 1 <= r.first /\ r.first <= r.last /\ r.last <= Taken(s)'
              /\ \A e \in HeldFrames(s)' : e.last < r.first
              /\ \A l \in DOMAIN result'[t] : k < l => r.last < result'[t][l].first
  <2>1. CASE k \in DOMAIN result[t]
    <3>1. /\ r = result[t][k] /\ r.first \in Nat /\ r.last \in Nat
      BY <1>3, <1>10, <2>1, CutFields
    <3>2. /\ 1 <= r.first /\ r.first <= r.last /\ r.last <= Taken(s)
          /\ \A e \in HeldFrames(s) : e.last < r.first
          /\ \A l \in DOMAIN result[t] : k < l => r.last < result[t][l].first
      BY <1>5, <2>1, <3>1 DEF TakenInOrder
    <3>3. r.last < f.first
      BY <1>1, <1>2, <3>1, <3>2
    <3>4. \A l \in DOMAIN result'[t] : k < l => r.last < result'[t][l].first
      BY <1>3, <3>2, <3>3
    <3>. QED BY <1>1, <1>6, <3>1, <3>2, <3>4
  <2>2. CASE k = Len(result[t]) + 1
    <3>1. r = f /\ \A l \in DOMAIN result'[t] : ~(k < l)
      BY <1>3, <1>10, <2>2
    <3>2. 1 <= r.first /\ r.first <= r.last /\ r.last <= Taken(s)'
      BY <1>1, <1>2, <3>1
    <3>3. \A e \in HeldFrames(s)' : e.last < r.first
      BY <1>1, <1>2, <1>6, <1>8, <3>1 DEF TakenInOrder
    <3>. QED BY <3>1, <3>2, <3>3
  <2>. QED BY <1>3, <2>1, <2>2
<1>11. \A u \in Callers : \A k \in DOMAIN result'[u] : u = t
    BY <1>4, EmptySeq
<1>12. \A r \in Streams : \A e, g \in HeldFrames(r)' : e.seq < g.seq => e.last < g.first
    BY <1>6 DEF TakenInOrder
<1>. QED BY <1>5, <1>9, <1>10, <1>11, <1>12 DEF TakenInOrder

LEMMA MakeFrameOrder ==
    ASSUME TypeOK, Control, Numbering, TakenInOrder, NEW t \in Callers, MakeFrameEvent(t)
    PROVE  TakenInOrder'
<1>0. PICK s, f : s = event[t].stream /\ f = Head(result[t])
    OBVIOUS
<1>1. PICK e \in DerivedEvents :
         /\ e = FrameEvent(counter, event[t], contributors[s], f)
         /\ e.type = "frame" /\ e.seq = counter /\ e.stream = s
         /\ e.first = f.first /\ e.last = f.last
    BY <1>0, MakeFrameFacts DEF DerivedEvents
<1>2. s \in Streams /\ \A r \in Streams : Taken(r)' = Taken(r)
    BY <1>0, MakeFrameFacts DEF MakeFrameEvent, Taken
<1>3. /\ 1 \in DOMAIN result[t] /\ f = result[t][1]
      /\ \A k \in DOMAIN result'[t] :
            /\ k \in Nat /\ 1 < k + 1 /\ k + 1 \in DOMAIN result[t]
            /\ result'[t][k] = result[t][k + 1]
  <2>1. result[t] # <<>> /\ result[t] \in Seq(CutFrames) /\ result'[t] = Tail(result[t])
    BY DEF MakeFrameEvent, TypeOK
  <2>. QED BY <1>0, <2>1, TailFacts
<1>4. \A u \in Callers : \A k \in DOMAIN result'[u] : u = t
  <2>1. Inside(t)
    BY DEF MakeFrameEvent, Inside
  <2>2. \A u \in Callers \ {t} : result'[u] = <<>>
    BY <2>1, OnlyOneCuts DEF TypeOK, MakeFrameEvent
  <2>. QED BY <2>2, EmptySeq
<1>5. event' = event /\ event[t].stream = s
    BY <1>0 DEF MakeFrameEvent, session
<1>6. \A r, x : x \in HeldFrames(r)' <=> x \in HeldFrames(r) \/ (x = e /\ s = r)
    BY <1>0, <1>1, HeldGrows DEF HeldFrames
<1>7. \A r : \A x \in HeldFrames(r) :
         x.seq \in Nat /\ x.seq < counter /\ x.first \in Nat /\ x.last \in Nat
    BY HeldAre DEF HeldFrames
<1>8. /\ 1 <= f.first /\ f.first <= f.last /\ f.last <= Taken(s)
      /\ \A x \in HeldFrames(s) : x.last < f.first
      /\ \A l \in DOMAIN result[t] : 1 < l => f.last < result[t][l].first
    BY <1>3, <1>5 DEF TakenInOrder
<1>9. \A r \in Streams : \A x \in HeldFrames(r)' :
         1 <= x.first /\ x.first <= x.last /\ x.last <= Taken(r)'
    BY <1>1, <1>2, <1>6, <1>8 DEF TakenInOrder
<1>10. \A r \in Streams : \A x, g \in HeldFrames(r)' : x.seq < g.seq => x.last < g.first
  <2>1. counter \in Nat
    BY DEF TypeOK
  <2>2. \A r \in Streams : \A x, g \in HeldFrames(r) : x.seq < g.seq => x.last < g.first
    BY DEF TakenInOrder
  <2>. QED BY <1>1, <1>6, <1>7, <1>8, <2>1, <2>2
<1>11. ASSUME NEW k \in DOMAIN result'[t], NEW r, r = result'[t][k]
       PROVE  /\ 1 <= r.first /\ r.first <= r.last /\ r.last <= Taken(s)'
              /\ \A x \in HeldFrames(s)' : x.last < r.first
              /\ \A l \in DOMAIN result'[t] : k < l => r.last < result'[t][l].first
  <2>1. r = result[t][k + 1] /\ k + 1 \in DOMAIN result[t] /\ 1 < k + 1
    BY <1>3, <1>11
  <2>2. /\ 1 <= r.first /\ r.first <= r.last /\ r.last <= Taken(s)
        /\ \A x \in HeldFrames(s) : x.last < r.first
        /\ \A l \in DOMAIN result[t] : k + 1 < l => r.last < result[t][l].first
    BY <1>5, <2>1 DEF TakenInOrder
  <2>3. f.last < r.first
    BY <1>8, <2>1
  <2>4. \A l \in DOMAIN result'[t] : k < l => k + 1 < l + 1
    BY <1>3
  <2>. QED BY <1>1, <1>2, <1>3, <1>6, <2>2, <2>3, <2>4
<1>. QED BY <1>4, <1>5, <1>9, <1>10, <1>11 DEF TakenInOrder

LEMMA ThrewOrder ==
    ASSUME TypeOK, Control, Numbering, TakenInOrder, NEW t \in Callers, DecoderThrew(t)
    PROVE  TakenInOrder'
<1>1. \A r \in Streams : Taken(r)' = Taken(r)
    BY DEF DecoderThrew, Taken
<1>2. \A r : HeldFrames(r)' = HeldFrames(r)
  <2>1. PICK e \in DerivedEvents :
           /\ e.type = "error"
           /\ e = DecoderError(counter, event[t], contributors[event[t].stream])
    BY ThrewFacts DEF DerivedEvents
  <2>. QED BY <2>1, HeldGrows DEF HeldFrames
<1>3. \A u \in Callers : result'[u] = <<>>
  <2>1. Inside(t)
    BY DEF DecoderThrew, Inside
  <2>. QED BY <2>1, OnlyOneCuts DEF TypeOK, DecoderThrew
<1>4. \A u \in Callers : \A k \in DOMAIN result'[u] : FALSE
    BY <1>3, EmptySeq
<1>. QED BY <1>1, <1>2, <1>4 DEF TakenInOrder

LEMMA ConsumeOrder ==
    ASSUME TypeOK, Control, Numbering, TakenInOrder, NEW t \in Callers, Consume(t)
    PROVE  TakenInOrder'
<1>1. ASSUME SinkEvent(t) PROVE TakenInOrder'
    BY <1>1, HeldStays, OrderStays DEF SinkEvent, decoding, session, Taken
<1>2. ASSUME FeedDecoder(t) PROVE TakenInOrder'
    BY <1>2, HeldStays, FeedFacts, OrderStays DEF FeedDecoder, session
<1>3. ASSUME DecoderReturned(t) PROVE TakenInOrder'
    BY <1>3, HeldStays, OrderStays DEF DecoderReturned, decoding, session, Taken
<1>4. ASSUME LeaveDecoder(t) PROVE TakenInOrder'
    BY <1>4, HeldStays, OrderStays DEF LeaveDecoder, session, Taken
<1>5. ASSUME SinkDerived(t) PROVE TakenInOrder'
    BY <1>5, HeldStays, OrderStays DEF SinkDerived, decoding, session, Taken
<1>. QED BY <1>1, <1>2, <1>3, <1>4, <1>5, ExtractOrder, MakeFrameOrder, ThrewOrder DEF Consume

LEMMA MakeOrder ==
    ASSUME TypeOK, Control, TakenInOrder, NEW t \in Callers, NEW s \in Streams, MakeEvent(t, s)
    PROVE  TakenInOrder'
<1>1. \A u \in Callers : Inside(u) => event'[u] = event[u]
    BY DEF MakeEvent, Inside, TypeOK
<1>. QED BY <1>1, HeldStays, OrderStays DEF MakeEvent, decoding, Taken

-----------------------------------------------------------------------------
(***************************************************************************)
(* Where events and bytes come from.                                       *)
(***************************************************************************)
\* What is in the log stays where it is.
LEMMA LogGrows ==
    ASSUME TypeOK, Control, NEW t \in Callers, Consume(t)
    PROVE  /\ DOMAIN log \subseteq DOMAIN log'
           /\ \A i \in DOMAIN log : log'[i] = log[i]
<1>1. log' = log \/ \E e \in Events : log' = Append(log, e)
    BY SinkEventFacts, SinkDerivedFacts
       DEF Consume, FeedDecoder, ExtractFrame, DecoderReturned, DecoderThrew, MakeFrameEvent,
           LeaveDecoder, SinkDerived
<1>2. CASE \E e \in Events : log' = Append(log, e)
  <2>1. PICK e \in Events : log' = Append(log, e)
    BY <1>2
  <2>2. /\ Len(log) \in Nat /\ DOMAIN log = 1..Len(log) /\ DOMAIN log' = 1..(Len(log) + 1)
        /\ \A i \in DOMAIN log : log'[i] = log[i]
    BY <2>1, AppendFacts DEF TypeOK
  <2>. QED BY <2>2
<1>. QED BY <1>1, <1>2

LEMMA LoggedStays ==
    ASSUME TypeOK, Control, NEW t \in Callers, Consume(t)
    PROVE  \A s, n : IsLogged(s, n) => IsLogged(s, n)'
BY LogGrows DEF IsLogged

\* So is what a decoder has been given.
LEMMA InputGrows ==
    ASSUME TypeOK, Control, NEW t \in Callers, Consume(t)
    PROVE  \A s \in Streams :
              /\ Len(input[s]) \in Nat /\ Len(input'[s]) \in Nat /\ Len(input[s]) <= Len(input'[s])
              /\ \A p \in 1..Len(input[s]) : input'[s][p] = input[s][p]
<1>1. \A s \in Streams : Len(input[s]) \in Nat
    BY BufferIsWithin
<1>2. CASE input' = input
    BY <1>1, <1>2
<1>3. CASE FeedDecoder(t)
  <2>1. PICK s : s = event[t].stream
    OBVIOUS
  <2>2. /\ s \in Streams /\ Len(event[t].payload) \in Nat
        /\ Len(input'[s]) = Len(input[s]) + Len(event[t].payload)
    BY <1>3, <2>1, FedBytes
  <2>3. \A p \in 1..Len(input[s]) : input'[s][p] = input[s][p]
    BY <1>3, <2>1, FedBytes
  <2>4. \A r \in Streams \ {s} : input'[r] = input[r]
    BY <1>3, <2>1 DEF FeedDecoder, TypeOK
  <2>5. Len(input[s]) \in Nat /\ Len(input'[s]) \in Nat /\ Len(input[s]) <= Len(input'[s])
    <3>1. PICK old, new, n : /\ old = Len(input[s]) /\ new = Len(input'[s])
                            /\ n = Len(event[t].payload)
      OBVIOUS
    <3>2. old \in Nat /\ n \in Nat /\ new = old + n
      BY <1>1, <2>2, <3>1
    <3>3. new \in Nat /\ old <= new
      BY <3>2
    <3>. QED BY <3>1, <3>2, <3>3
  <2>6. \A r \in Streams \ {s} :
           /\ Len(input[r]) \in Nat /\ Len(input'[r]) \in Nat /\ Len(input[r]) <= Len(input'[r])
           /\ \A p \in 1..Len(input[r]) : input'[r][p] = input[r][p]
    BY <1>1, <2>4
  <2>. QED BY <2>3, <2>5, <2>6, Zenon
<1>. QED BY <1>2, <1>3
         DEF Consume, SinkEvent, ExtractFrame, DecoderReturned, DecoderThrew, MakeFrameEvent,
             LeaveDecoder, SinkDerived, decoding

\* Whatever is derived is held, and a frame is of bytes that have been given.
LEMMA DerivedIsHeld ==
    ASSUME TypeOK, Control
    PROVE  /\ \A i \in DOMAIN log : Derived(log[i]) =>
                 log[i].stream \in Streams /\ log[i] \in Held(log[i].stream)
           /\ \A t \in Callers : \A k \in DOMAIN derived[t] :
                 /\ derived[t][k].stream \in Streams
                 /\ derived[t][k] \in Held(derived[t][k].stream)
<1>1. \A e \in Events : e.stream \in Streams
    BY EventFields DEF Events, DerivedEvents
<1>2. \A e \in DerivedEvents : Derived(e) /\ e \in Events
    BY EventFields DEF DerivedEvents, Events, Derived
<1>3. \A i \in DOMAIN log : log[i] \in Emitted
    BY DEF Emitted, Range
<1>4. \A t \in Callers : \A k \in DOMAIN derived[t] : derived[t][k] \in Emitted
    BY DEF Emitted, Range
<1>. QED BY <1>1, <1>2, <1>3, <1>4, NumbersAre DEF Held

LEMMA FrameWithin ==
    ASSUME TypeOK, Control, Numbering, TakenInOrder, NEW s \in Streams, NEW e \in Held(s),
           e.type = "frame"
    PROVE  \A p \in e.first..e.last : p \in 1..Taken(s) /\ p \in 1..Len(input[s])
<1>1. e.first \in Nat /\ e.last \in Nat
    BY HeldAre
<1>2. 1 <= e.first /\ e.last <= Taken(s)
    BY DEF TakenInOrder, HeldFrames
<1>3. Taken(s) \in Nat /\ Len(buffer[s]) \in Nat /\ Taken(s) + Len(buffer[s]) = Len(input[s])
    BY BufferIsWithin
<1>. QED BY <1>1, <1>2, <1>3

LEMMA SourcedStays ==
    ASSUME TypeOK, Control, Numbering, TakenInOrder, NEW t \in Callers, Consume(t)
    PROVE  \A e : (e.stream \in Streams /\ e \in Held(e.stream) /\ Sourced(e)) => Sourced(e)'
<1>. SUFFICES ASSUME NEW e, e.stream \in Streams, e \in Held(e.stream), Sourced(e)
              PROVE  Sourced(e)'
    OBVIOUS
<1>1. \A k \in DOMAIN e.parents : IsLogged(e.stream, e.parents[k])'
    BY LoggedStays DEF Sourced
<1>2. e.type = "frame" => \A p \in e.first..e.last : input'[e.stream][p] = input[e.stream][p]
    BY FrameWithin, InputGrows
<1>. QED BY <1>1, <1>2 DEF Sourced, CameIn

\* The log keeps its sources as long as what is added has them.
LEMMA LogSourced ==
    ASSUME TypeOK, Control, Numbering, TakenInOrder, Sourcing, NEW t \in Callers, Consume(t),
           log' = log \/ \E e \in Events : log' = Append(log, e) /\ (Derived(e) => Sourced(e) /\ e \in Held(e.stream))
    PROVE  ParentsAreTheSource'
<1>1. ASSUME NEW j \in DOMAIN log, Derived(log[j])
      PROVE  /\ log[j].parents # <<>> /\ log[j].parent = Last(log[j].parents)
             /\ \A k \in DOMAIN log[j].parents : \E i \in 1..(j - 1) :
                   /\ log'[i].type = "raw_bytes" /\ log'[i].stream = log[j].stream
                   /\ log'[i].seq = log[j].parents[k] /\ log'[i].seq < log[j].seq
             /\ log[j].type = "frame" => \A p \in log[j].first..log[j].last :
                   input'[log[j].stream][p].seq \in Range(log[j].parents)
  <2>1. /\ log[j].parents # <<>> /\ log[j].parent = Last(log[j].parents)
        /\ \A k \in DOMAIN log[j].parents : \E i \in 1..(j - 1) :
              /\ log[i].type = "raw_bytes" /\ log[i].stream = log[j].stream
              /\ log[i].seq = log[j].parents[k] /\ log[i].seq < log[j].seq
        /\ log[j].type = "frame" => \A p \in log[j].first..log[j].last :
              input[log[j].stream][p].seq \in Range(log[j].parents)
    BY <1>1 DEF Sourcing, ParentsAreTheSource
  <2>2. \A i \in 1..(j - 1) : log'[i] = log[i]
    <3>1. DOMAIN log = 1..Len(log) /\ Len(log) \in Nat
      BY LenProperties DEF TypeOK
    <3>2. \A i \in 1..(j - 1) : i \in DOMAIN log
      BY <3>1
    <3>. QED BY <3>2, LogGrows
  <2>3. log[j].type = "frame" => \A p \in log[j].first..log[j].last :
           input'[log[j].stream][p] = input[log[j].stream][p]
    BY <1>1, DerivedIsHeld, FrameWithin, InputGrows
  <2>. QED BY <2>1, <2>2, <2>3
<1>2. CASE log' = log
    BY <1>1, <1>2 DEF ParentsAreTheSource
<1>3. CASE \E e \in Events : log' = Append(log, e) /\ (Derived(e) => Sourced(e) /\ e \in Held(e.stream))
  <2>1. PICK e \in Events : log' = Append(log, e) /\ (Derived(e) => Sourced(e) /\ e \in Held(e.stream))
    BY <1>3
  <2>2. /\ Len(log) \in Nat /\ DOMAIN log = 1..Len(log) /\ DOMAIN log' = 1..(Len(log) + 1)
        /\ log'[Len(log) + 1] = e /\ \A i \in DOMAIN log : log'[i] = log[i]
    BY <2>1, AppendFacts DEF TypeOK
  <2>3. ASSUME Derived(e)
        PROVE  /\ e.parents # <<>> /\ e.parent = Last(e.parents)
               /\ \A k \in DOMAIN e.parents : \E i \in DOMAIN log :
                     /\ log'[i].type = "raw_bytes" /\ log'[i].stream = e.stream
                     /\ log'[i].seq = e.parents[k] /\ log'[i].seq < e.seq
               /\ e.type = "frame" => \A p \in e.first..e.last :
                     input'[e.stream][p].seq \in Range(e.parents)
    <3>1. e.stream \in Streams
      BY EventFields DEF Events, DerivedEvents
    <3>2. Sourced(e) /\ Sourced(e)'
      BY <2>1, <2>3, <3>1, SourcedStays
    <3>. QED BY <2>2, <3>2 DEF Sourced, CameIn, IsLogged
  <2>4. \A j \in DOMAIN log' : j \in DOMAIN log \/ (j = Len(log) + 1 /\ log'[j] = e)
    BY <2>2
  <2>5. DOMAIN log = 1..((Len(log) + 1) - 1)
    BY <2>2
  <2>6. ASSUME NEW j \in DOMAIN log', Derived(log'[j])
        PROVE  /\ log'[j].parents # <<>> /\ log'[j].parent = Last(log'[j].parents)
               /\ \A k \in DOMAIN log'[j].parents : \E i \in 1..(j - 1) :
                     /\ log'[i].type = "raw_bytes" /\ log'[i].stream = log'[j].stream
                     /\ log'[i].seq = log'[j].parents[k] /\ log'[i].seq < log'[j].seq
               /\ log'[j].type = "frame" => \A p \in log'[j].first..log'[j].last :
                     input'[log'[j].stream][p].seq \in Range(log'[j].parents)
    <3>1. CASE j \in DOMAIN log
      BY <1>1, <2>2, <2>6, <3>1
    <3>2. CASE j = Len(log) + 1 /\ log'[j] = e
      BY <2>3, <2>5, <2>6, <3>2
    <3>. QED BY <2>4, <3>1, <3>2
  <2>. QED BY <2>6 DEF ParentsAreTheSource
<1>. QED BY <1>2, <1>3

\* Between two decodings nothing is cut and not numbered.
LEMMA NothingCut ==
    ASSUME TypeOK, Control, \A u \in Callers : ~Inside(u)
    PROVE  \A u \in Callers : result[u] = <<>> /\ \A k \in DOMAIN result[u] : FALSE
BY EmptySeq DEF Control

LEMMA LastOfAppend ==
    ASSUME NEW S, NEW q \in Seq(S), NEW n \in S
    PROVE  Append(q, n) # <<>> /\ Last(Append(q, n)) = n
<1>1. /\ Append(q, n) # <<>> /\ Len(Append(q, n)) = Len(q) + 1
      /\ Append(q, n)[Len(q) + 1] = n
    BY AppendProperties
<1>. QED BY <1>1 DEF Last

\* The parts of Sourcing in the next state, for values that are named.
LEMMA LoggedNext ==
    ASSUME \A u \in Callers : pc'[u] \in {"lock", "decode", "frames"} =>
              \A r, n : r = event'[u].stream /\ n = event'[u].seq => IsLogged(r, n)',
           \A r \in Streams : \A k \in DOMAIN contributors'[r] :
              \A n : n = contributors'[r][k] => IsLogged(r, n)'
    PROVE  ContributorsAreLogged'
BY DEF ContributorsAreLogged, IsLogged

LEMMA SourcedNext ==
    ASSUME \A u \in Callers : \A k \in DOMAIN derived'[u] :
              \A e : e = derived'[u][k] => Sourced(e)'
    PROVE  DerivedAreSourced'
BY DEF DerivedAreSourced, Sourced, CameIn, IsLogged

LEMMA FeedSources ==
    ASSUME TypeOK, Control, Numbering, TakenInOrder, Sourcing, NEW t \in Callers, FeedDecoder(t)
    PROVE  Sourcing'
<1>0. PICK s : s = event[t].stream
    OBVIOUS
<1>1. Consume(t)
    BY DEF Consume
<1>2. /\ event' = event /\ log' = log /\ result' = result /\ derived' = derived
      /\ decoder' = decoder /\ pc[t] = "lock" /\ pc'[t] = "decode"
      /\ \A u \in Callers \ {t} : pc'[u] = pc[u]
      /\ \A u \in Callers : ~Inside(u)
    BY CallerAssumption DEF FeedDecoder, session, Goto, TypeOK, Control
<1>3. /\ s \in Streams /\ event[t] \in RawEvents
      /\ contributors' = [contributors EXCEPT ![s] = Append(contributors[s], event[t].seq)]
    BY <1>0, FeedFacts
<1>4. event[t].seq \in Nat /\ contributors[s] \in Seq(Nat)
    BY <1>3, EventFields DEF TypeOK
<1>5. /\ contributors'[s] = Append(contributors[s], event[t].seq)
      /\ \A r \in Streams \ {s} : contributors'[r] = contributors[r]
    BY <1>3 DEF TypeOK
<1>6. ContributorsAreLogged'
  <2>1. \A r, n : IsLogged(r, n) => IsLogged(r, n)'
    BY <1>1, LoggedStays
  <2>2. IsLogged(s, event[t].seq)
    BY <1>0, <1>2 DEF Sourcing, ContributorsAreLogged
  <2>3. \A k \in DOMAIN contributors'[s] :
           \/ contributors'[s][k] = event[t].seq
           \/ k \in DOMAIN contributors[s] /\ contributors'[s][k] = contributors[s][k]
    <3>1. /\ Len(contributors[s]) \in Nat /\ DOMAIN contributors[s] = 1..Len(contributors[s])
          /\ DOMAIN contributors'[s] = 1..(Len(contributors[s]) + 1)
          /\ contributors'[s][Len(contributors[s]) + 1] = event[t].seq
          /\ \A k \in DOMAIN contributors[s] : contributors'[s][k] = contributors[s][k]
      BY <1>4, <1>5, AppendFacts
    <3>. QED BY <3>1
  <2>4. \A r \in Streams : \A k \in DOMAIN contributors[r] : IsLogged(r, contributors[r][k])
    BY DEF Sourcing, ContributorsAreLogged
  <2>5. \A r \in Streams : \A k \in DOMAIN contributors'[r] :
           IsLogged(r, contributors'[r][k])
    BY <1>3, <1>5, <2>2, <2>3, <2>4
  <2>6. \A u \in Callers : pc'[u] \in {"lock", "decode", "frames"} =>
           IsLogged(event'[u].stream, event'[u].seq)
    BY <1>2 DEF Sourcing, ContributorsAreLogged
  <2>. QED BY <2>1, <2>5, <2>6, LoggedNext, Zenon
<1>7. DecodesTheLast'
  <2>1. contributors'[s] # <<>> /\ Last(contributors'[s]) = event[t].seq
    BY <1>4, <1>5, LastOfAppend
  <2>2. \A u \in Callers : Inside(u)' => u = t
    BY <1>2 DEF Inside
  <2>. QED BY <1>0, <1>2, <2>1, <2>2 DEF DecodesTheLast
<1>8. ContributorsAccount'
  <2>1. Range(contributors'[s]) = Range(contributors[s]) \cup {event[t].seq}
    BY <1>4, <1>5, AppendFacts
  <2>2. ASSUME NEW r \in Streams
        PROVE  \/ LengthRejected(decoder, buffer'[r])
               \/ \A p \in (Taken(r)' + 1)..Len(input'[r]) :
                     input'[r][p].seq \in Range(contributors'[r])
    <3>1. Taken(r)' = Taken(r)
      BY <1>0, FeedFacts
    <3>2. CASE LengthRejected(decoder, buffer[r])
      <4>1. CASE r = s
        <5>1. buffer' = [buffer EXCEPT ![s] = buffer[s] \o event[t].payload]
          BY <1>0, FeedFacts
        <5>2. buffer'[s] = buffer[s] \o event[t].payload
          BY <1>3, <5>1 DEF TypeOK
        <5>3. buffer[s] \in Payload /\ event[t].payload \in Payload
          BY <1>3, EventFields DEF TypeOK
        <5>. QED BY <3>2, <4>1, <5>2, <5>3, RefusalStays, SettingsAreAccepted
      <4>2. CASE r # s
        <5>1. buffer'[r] = buffer[r]
          BY <1>0, <4>2 DEF FeedDecoder, TypeOK
        <5>. QED BY <3>2, <5>1
      <4>. QED BY <4>1, <4>2
    <3>3. CASE \A p \in (Taken(r) + 1)..Len(input[r]) : input[r][p].seq \in Range(contributors[r])
      <4>1. Range(contributors[r]) \subseteq Range(contributors'[r])
        BY <1>5, <2>1
      <4>2. Taken(r) \in Nat /\ Len(input[r]) \in Nat /\ Len(input'[r]) \in Nat
            /\ \A p \in 1..Len(input[r]) : input'[r][p] = input[r][p]
        BY <1>1, InputGrows, BufferIsWithin
      <4>3. \A p \in (Len(input[r]) + 1)..Len(input'[r]) :
               input'[r][p].seq \in Range(contributors'[r])
        <5>1. CASE r = s
          <6>1. \A p \in (Len(input[s]) + 1)..Len(input'[s]) : input'[s][p].seq = event[t].seq
            BY <1>0, FedBytes, ZenonT(30)
          <6>. QED BY <2>1, <5>1, <6>1
        <5>2. CASE r # s
          <6>1. input'[r] = input[r]
            BY <1>0, <5>2 DEF FeedDecoder, TypeOK
          <6>. QED BY <4>2, <6>1
        <5>. QED BY <5>1, <5>2
      <4>4. \A p \in (Taken(r) + 1)..Len(input[r]) : input'[r][p].seq \in Range(contributors'[r])
        BY <3>3, <4>1, <4>2
      <4>5. \A p \in (Taken(r)' + 1)..Len(input'[r]) :
               \/ p \in (Taken(r) + 1)..Len(input[r])
               \/ p \in (Len(input[r]) + 1)..Len(input'[r])
        BY <3>1, <4>2
      <4>. QED BY <4>3, <4>4, <4>5
    <3>. QED BY <3>2, <3>3 DEF Sourcing, ContributorsAccount, CameIn
  <2>3. \A u \in Callers : \A k \in DOMAIN result'[u] : FALSE
    BY <1>2, NothingCut
  <2>. QED BY <1>2, <2>2, <2>3 DEF ContributorsAccount, CameIn
<1>9. DerivedAreSourced'
  <2>1. \A u \in Callers : \A k \in DOMAIN derived'[u] :
           derived'[u][k] = derived[u][k] /\ Sourced(derived[u][k])
    BY <1>2 DEF Sourcing, DerivedAreSourced
  <2>. QED BY <1>1, <1>2, <2>1, SourcedStays, DerivedIsHeld, SourcedNext
<1>10. ParentsAreTheSource'
    BY <1>1, <1>2, LogSourced
<1>. QED BY <1>6, <1>7, <1>8, <1>9, <1>10 DEF Sourcing

\* A step that leaves the decoders alone.
LEMMA SourcesStay ==
    ASSUME TypeOK, Control, Sourcing,
           ParentsAreTheSource',
           \A s, n : IsLogged(s, n) => IsLogged(s, n)',
           DerivedAreSourced',
           \A u \in Callers : pc'[u] \in {"lock", "decode", "frames"} =>
              \A r, n : r = event'[u].stream /\ n = event'[u].seq => IsLogged(r, n)',
           \A u \in Callers : Inside(u)' => Inside(u),
           \A u \in Callers : Inside(u) => event'[u] = event[u],
           decoder' = decoder, buffer' = buffer, contributors' = contributors, input' = input,
           result' = result
    PROVE  Sourcing'
<1>1. \A u \in Callers : \A k \in DOMAIN result[u] : event'[u] = event[u]
    BY EmptySeq DEF Control
<1>2. ContributorsAreLogged'
  <2>1. \A r \in Streams : \A k \in DOMAIN contributors[r] : IsLogged(r, contributors[r][k])
    BY DEF Sourcing, ContributorsAreLogged
  <2>. QED BY <2>1, LoggedNext
<1>3. DecodesTheLast'
    BY DEF Sourcing, DecodesTheLast
<1>4. ContributorsAccount'
    BY <1>1 DEF Sourcing, ContributorsAccount, CameIn, Taken
<1>. QED BY <1>2, <1>3, <1>4 DEF Sourcing
LEMMA ExtractSources ==
    ASSUME TypeOK, Control, Sourcing, NEW t \in Callers, ExtractFrame(t)
    PROVE  Sourcing'
<1>0. PICK s, span : s = event[t].stream /\ span = FrameSpan(decoder, buffer[s])
    OBVIOUS
<1>1. /\ pc' = pc /\ event' = event /\ log' = log /\ derived' = derived /\ decoder' = decoder
      /\ input' = input /\ contributors' = contributors /\ Inside(t)
      /\ ~LengthRejected(decoder, buffer[s])
    BY <1>0 DEF ExtractFrame, session, Inside
<1>2. /\ s \in Streams /\ span \in Nat /\ Taken(s) \in Nat /\ Taken(s) + span <= Len(input[s])
      /\ Taken(s)' = Taken(s) + span
      /\ buffer' = [buffer EXCEPT ![s] = Drop(buffer[s], span)]
      /\ \A r \in Streams \ {s} : Taken(r)' = Taken(r)
    BY <1>0, ExtractFacts
<1>3. PICK f \in CutFrames : /\ f.first = Taken(s) + 1 /\ f.last = Taken(s) + span
                             /\ result' = [result EXCEPT ![t] = Append(result[t], f)]
    BY <1>0, ExtractFacts
<1>4. Len(input[s]) \in Nat
    BY <1>2, BufferIsWithin
<1>5. ContributorsAreLogged'
    BY <1>1 DEF Sourcing, ContributorsAreLogged, IsLogged
<1>6. DecodesTheLast'
    BY <1>1 DEF Sourcing, DecodesTheLast, Inside
<1>7. \A p \in (Taken(s) + 1)..Len(input[s]) : input[s][p].seq \in Range(contributors[s])
    BY <1>1, <1>2 DEF Sourcing, ContributorsAccount, CameIn
<1>8. \A r \in Streams :
         \/ LengthRejected(decoder, buffer'[r])
         \/ \A p \in (Taken(r)' + 1)..Len(input[r]) : input[r][p].seq \in Range(contributors[r])
  <2>1. \A p \in (Taken(s)' + 1)..Len(input[s]) : input[s][p].seq \in Range(contributors[s])
    BY <1>2, <1>4, <1>7
  <2>2. \A r \in Streams \ {s} : buffer'[r] = buffer[r] /\ Taken(r)' = Taken(r)
    BY <1>2 DEF TypeOK
  <2>3. \A r \in Streams :
           \/ LengthRejected(decoder, buffer[r])
           \/ \A p \in (Taken(r) + 1)..Len(input[r]) : input[r][p].seq \in Range(contributors[r])
    BY DEF Sourcing, ContributorsAccount, CameIn
  <2>4. ASSUME NEW r \in Streams \ {s}
        PROVE  \/ LengthRejected(decoder, buffer'[r])
               \/ \A p \in (Taken(r)' + 1)..Len(input[r]) :
                     input[r][p].seq \in Range(contributors[r])
    BY <2>2, <2>3
  <2>. QED BY <2>1, <2>4
<1>9. \A p \in f.first..f.last : input[s][p].seq \in Range(contributors[s])
    BY <1>2, <1>3, <1>4, <1>7
<1>10. \A u \in Callers : \A k \in DOMAIN result'[u] :
          /\ \/ k \in DOMAIN result[u] /\ result'[u][k] = result[u][k]
             \/ u = t /\ result'[u][k] = f
  <2>1. result[t] \in Seq(CutFrames) /\ result'[t] = Append(result[t], f)
    BY <1>3 DEF TypeOK
  <2>2. \A k \in DOMAIN result'[t] : \/ k \in DOMAIN result[t] /\ result'[t][k] = result[t][k]
                                     \/ result'[t][k] = f
    <3>1. /\ Len(result[t]) \in Nat /\ DOMAIN result[t] = 1..Len(result[t])
          /\ DOMAIN result'[t] = 1..(Len(result[t]) + 1)
          /\ result'[t][Len(result[t]) + 1] = f
          /\ \A k \in DOMAIN result[t] : result'[t][k] = result[t][k]
      BY <2>1, AppendFacts
    <3>. QED BY <3>1
  <2>3. \A u \in Callers \ {t} : result'[u] = result[u]
    BY <1>3 DEF TypeOK
  <2>. QED BY <2>2, <2>3
<1>11. \A u \in Callers : \A k \in DOMAIN result'[u] :
          \A p \in result'[u][k].first..result'[u][k].last :
             input[event[u].stream][p].seq \in Range(contributors[event[u].stream])
  <2>1. \A u \in Callers : \A k \in DOMAIN result[u] :
           \A p \in result[u][k].first..result[u][k].last :
              input[event[u].stream][p].seq \in Range(contributors[event[u].stream])
    BY DEF Sourcing, ContributorsAccount, CameIn
  <2>. QED BY <1>0, <1>9, <1>10, <2>1
<1>12. ContributorsAccount'
    BY <1>1, <1>8, <1>11 DEF ContributorsAccount, CameIn
<1>13. DerivedAreSourced' /\ ParentsAreTheSource'
    BY <1>1 DEF Sourcing, DerivedAreSourced, Sourced, IsLogged, CameIn, ParentsAreTheSource
<1>. QED BY <1>5, <1>6, <1>12, <1>13 DEF Sourcing

\* A number that is logged is past.
LEMMA LoggedIsPast ==
    ASSUME TypeOK, Control, Numbering, NEW s, NEW n, IsLogged(s, n)
    PROVE  n < counter
BY DEF IsLogged, Numbering

LEMMA ThrewSources ==
    ASSUME TypeOK, Control, Numbering, TakenInOrder, Sourcing, NEW t \in Callers, DecoderThrew(t)
    PROVE  Sourcing'
<1>0. PICK s, e : s = event[t].stream /\ e = DecoderError(counter, event[t], contributors[s])
    OBVIOUS
<1>1. /\ event' = event /\ log' = log /\ decoder' = decoder /\ buffer' = buffer /\ input' = input
      /\ contributors' = [contributors EXCEPT ![s] = <<>>]
      /\ LengthRejected(decoder, buffer[s])
      /\ Inside(t) /\ pc'[t] = "derived" /\ \A u \in Callers \ {t} : pc'[u] = pc[u]
    BY <1>0 DEF DecoderThrew, session, Goto, Inside, TypeOK
<1>2. /\ event[t] \in RawEvents /\ s \in Streams
      /\ e \in DecoderErrors /\ e.type = "error" /\ e.seq = counter /\ e.stream = s
      /\ e.parent = event[t].seq /\ e.parents = contributors[s]
      /\ derived[t] = <<>>
      /\ derived' = [derived EXCEPT ![t] = <<e>>]
    BY <1>0, ThrewFacts
<1>3. Consume(t)
    BY DEF Consume
<1>4. contributors'[s] = <<>> /\ \A r \in Streams \ {s} : contributors'[r] = contributors[r]
    BY <1>1, <1>2 DEF TypeOK
<1>5. ContributorsAreLogged'
  <2>1. \A r \in Streams : \A k \in DOMAIN contributors'[r] : IsLogged(r, contributors'[r][k])
    BY <1>4, EmptySeq DEF Sourcing, ContributorsAreLogged
  <2>2. \A u \in Callers : pc'[u] \in {"lock", "decode", "frames"} =>
           IsLogged(event'[u].stream, event'[u].seq)
    BY <1>1 DEF Sourcing, ContributorsAreLogged
  <2>. QED BY <1>3, <2>1, <2>2, LoggedStays, LoggedNext, Zenon
<1>6. \A u \in Callers : ~Inside(u)'
    BY <1>1, OnlyOneCuts DEF Inside
<1>7. \A u \in Callers : \A k \in DOMAIN result'[u] : FALSE
  <2>1. \A u \in Callers : result'[u] = <<>>
    BY <1>1, OnlyOneCuts DEF TypeOK, DecoderThrew
  <2>. QED BY <2>1, EmptySeq
<1>8. DecodesTheLast'
    BY <1>6 DEF DecodesTheLast
<1>9. ContributorsAccount'
  <2>1. \A r \in Streams :
           \/ LengthRejected(decoder, buffer[r])
           \/ \A p \in (Taken(r) + 1)..Len(input[r]) : input[r][p].seq \in Range(contributors'[r])
    BY <1>1, <1>4 DEF Sourcing, ContributorsAccount, CameIn
  <2>. QED BY <1>1, <1>7, <2>1 DEF ContributorsAccount, CameIn, Taken
<1>10. Sourced(e)
  <2>1. contributors[s] # <<>> /\ Last(contributors[s]) = event[t].seq
    BY <1>0, <1>1 DEF Sourcing, DecodesTheLast
  <2>2. \A k \in DOMAIN contributors[s] : IsLogged(s, contributors[s][k])
    BY <1>2 DEF Sourcing, ContributorsAreLogged
  <2>3. \A k \in DOMAIN contributors[s] : contributors[s][k] < counter
    BY <2>2, LoggedIsPast
  <2>. QED BY <1>2, <2>1, <2>2, <2>3 DEF Sourced
<1>11. Sourced(e)'
    BY <1>1, <1>10 DEF Sourced, IsLogged, CameIn
<1>12. DerivedAreSourced'
  <2>1. \A k \in DOMAIN <<e>> : <<e>>[k] = e
    OBVIOUS
  <2>2. derived'[t] = <<e>> /\ \A u \in Callers \ {t} : derived'[u] = derived[u]
    BY <1>2 DEF TypeOK
  <2>3. \A u \in Callers : \A k \in DOMAIN derived'[u] : \A x : x = derived'[u][k] =>
           x = e \/ (x.stream \in Streams /\ x \in Held(x.stream) /\ Sourced(x))
    BY <2>1, <2>2, DerivedIsHeld DEF Sourcing, DerivedAreSourced
  <2>. QED BY <1>3, <1>11, <2>3, SourcedStays, SourcedNext
<1>13. ParentsAreTheSource'
    BY <1>1 DEF Sourcing, ParentsAreTheSource
<1>. QED BY <1>5, <1>8, <1>9, <1>12, <1>13 DEF Sourcing

LEMMA MakeFrameSources ==
    ASSUME TypeOK, Control, Numbering, TakenInOrder, Sourcing, NEW t \in Callers,
           MakeFrameEvent(t)
    PROVE  Sourcing'
<1>0. PICK s, f, e : /\ s = event[t].stream /\ f = Head(result[t])
                     /\ e = FrameEvent(counter, event[t], contributors[s], f)
    OBVIOUS
<1>1. /\ pc' = pc /\ event' = event /\ log' = log /\ decoder' = decoder /\ buffer' = buffer
      /\ input' = input /\ contributors' = contributors /\ Inside(t)
      /\ result[t] # <<>> /\ result' = [result EXCEPT ![t] = Tail(result[t])]
    BY <1>0 DEF MakeFrameEvent, session, Inside
<1>2. /\ event[t] \in RawEvents /\ s \in Streams
      /\ e \in FrameEvents /\ e.type = "frame" /\ e.seq = counter /\ e.stream = s
      /\ e.parent = event[t].seq /\ e.parents = contributors[s]
      /\ e.first = f.first /\ e.last = f.last
      /\ derived' = [derived EXCEPT ![t] = Append(derived[t], e)]
    BY <1>0, MakeFrameFacts
<1>3. Consume(t)
    BY DEF Consume
<1>4. /\ 1 \in DOMAIN result[t] /\ f = result[t][1]
      /\ \A k \in DOMAIN Tail(result[t]) :
            k + 1 \in DOMAIN result[t] /\ Tail(result[t])[k] = result[t][k + 1]
  <2>1. result[t] \in Seq(CutFrames)
    BY DEF TypeOK
  <2>2. /\ Len(result[t]) \in Nat \ {0} /\ DOMAIN result[t] = 1..Len(result[t])
        /\ Head(result[t]) = result[t][1]
        /\ \A k \in DOMAIN Tail(result[t]) :
              k + 1 \in DOMAIN result[t] /\ Tail(result[t])[k] = result[t][k + 1]
    BY <1>1, <2>1, TailFacts
  <2>. QED BY <1>0, <2>2
<1>5. ContributorsAreLogged' /\ DecodesTheLast'
    BY <1>1 DEF Sourcing, ContributorsAreLogged, IsLogged, DecodesTheLast, Inside
<1>6. \A u \in Callers : \A k \in DOMAIN result[u] :
         \A p \in result[u][k].first..result[u][k].last :
            input[event[u].stream][p].seq \in Range(contributors[event[u].stream])
    BY DEF Sourcing, ContributorsAccount, CameIn
<1>7. ContributorsAccount'
  <2>1. \A u \in Callers : \A k \in DOMAIN result'[u] :
           \E l \in DOMAIN result[u] : result'[u][k] = result[u][l]
    BY <1>1, <1>4 DEF TypeOK
  <2>2. \A u \in Callers : \A k \in DOMAIN result'[u] :
           \A p \in result'[u][k].first..result'[u][k].last :
              input[event[u].stream][p].seq \in Range(contributors[event[u].stream])
    BY <1>6, <2>1
  <2>3. \A r \in Streams :
           \/ LengthRejected(decoder, buffer[r])
           \/ \A p \in (Taken(r) + 1)..Len(input[r]) : input[r][p].seq \in Range(contributors[r])
    BY DEF Sourcing, ContributorsAccount, CameIn
  <2>. QED BY <1>1, <2>2, <2>3 DEF ContributorsAccount, CameIn, Taken
<1>8. Sourced(e)
  <2>1. contributors[s] # <<>> /\ Last(contributors[s]) = event[t].seq
    BY <1>0, <1>1 DEF Sourcing, DecodesTheLast
  <2>2. \A k \in DOMAIN contributors[s] : IsLogged(s, contributors[s][k])
    BY <1>2 DEF Sourcing, ContributorsAreLogged
  <2>3. \A k \in DOMAIN contributors[s] : contributors[s][k] < counter
    BY <2>2, LoggedIsPast
  <2>4. \A p \in f.first..f.last : input[s][p].seq \in Range(contributors[s])
    BY <1>0, <1>4, <1>6
  <2>. QED BY <1>2, <2>1, <2>2, <2>3, <2>4 DEF Sourced, CameIn
<1>9. Sourced(e)'
    BY <1>1, <1>8 DEF Sourced, IsLogged, CameIn
<1>10. DerivedAreSourced'
  <2>1. \A k \in DOMAIN derived'[t] : \/ derived'[t][k] = e
                                      \/ k \in DOMAIN derived[t] /\ derived'[t][k] = derived[t][k]
    <3>1. derived[t] \in Seq(DerivedEvents) /\ derived'[t] = Append(derived[t], e)
      BY <1>2 DEF TypeOK
    <3>2. e \in DerivedEvents
      BY <1>2 DEF DerivedEvents
    <3>3. /\ Len(derived[t]) \in Nat /\ DOMAIN derived[t] = 1..Len(derived[t])
          /\ DOMAIN derived'[t] = 1..(Len(derived[t]) + 1)
          /\ derived'[t][Len(derived[t]) + 1] = e
          /\ \A k \in DOMAIN derived[t] : derived'[t][k] = derived[t][k]
      BY <3>1, <3>2, AppendFacts
    <3>. QED BY <3>3
  <2>2. \A u \in Callers \ {t} : derived'[u] = derived[u]
    BY <1>2 DEF TypeOK
  <2>3. \A u \in Callers : \A k \in DOMAIN derived'[u] : \A x : x = derived'[u][k] =>
           x = e \/ (x.stream \in Streams /\ x \in Held(x.stream) /\ Sourced(x))
    BY <2>1, <2>2, DerivedIsHeld DEF Sourcing, DerivedAreSourced
  <2>. QED BY <1>3, <1>9, <2>3, SourcedStays, SourcedNext
<1>11. ParentsAreTheSource'
    BY <1>1 DEF Sourcing, ParentsAreTheSource
<1>. QED BY <1>5, <1>7, <1>10, <1>11 DEF Sourcing

LEMMA LeaveSources ==
    ASSUME TypeOK, Control, Sourcing, NEW t \in Callers, LeaveDecoder(t)
    PROVE  Sourcing'
<1>0. PICK s : s = event[t].stream
    OBVIOUS
<1>1. /\ event' = event /\ log' = log /\ derived' = derived /\ decoder' = decoder
      /\ buffer' = buffer /\ input' = input /\ result' = result
      /\ Inside(t) /\ result[t] = <<>>
      /\ pc'[t] = "derived" /\ \A u \in Callers \ {t} : pc'[u] = pc[u]
    BY DEF LeaveDecoder, session, Goto, Inside, TypeOK
<1>2. /\ \A r \in Streams \ {s} : contributors'[r] = contributors[r]
      /\ \/ contributors'[s] = contributors[s]
         \/ buffer[s] = <<>> /\ contributors'[s] = <<>>
  <2>1. s \in Streams
    BY <1>0, EventOf, EventFields DEF LeaveDecoder, Control
  <2>. QED BY <1>0, <2>1 DEF LeaveDecoder, TypeOK
<1>3. Consume(t)
    BY DEF Consume
<1>4. ContributorsAreLogged'
  <2>1. \A r \in Streams : \A k \in DOMAIN contributors'[r] : IsLogged(r, contributors'[r][k])
    BY <1>2, EmptySeq DEF Sourcing, ContributorsAreLogged
  <2>2. \A u \in Callers : pc'[u] \in {"lock", "decode", "frames"} =>
           IsLogged(event'[u].stream, event'[u].seq)
    BY <1>1 DEF Sourcing, ContributorsAreLogged
  <2>. QED BY <1>3, <2>1, <2>2, LoggedStays, LoggedNext, Zenon
<1>5. \A u \in Callers : ~Inside(u)'
    BY <1>1, OnlyOneCuts DEF Inside
<1>6. DecodesTheLast'
    BY <1>5 DEF DecodesTheLast
<1>7. ContributorsAccount'
  <2>1. \A u \in Callers : \A k \in DOMAIN result'[u] : FALSE
    <3>1. \A u \in Callers : result'[u] = <<>>
      BY <1>1, OnlyOneCuts
    <3>. QED BY <3>1, EmptySeq
  <2>2. \A r \in Streams :
           \/ LengthRejected(decoder, buffer[r])
           \/ \A p \in (Taken(r) + 1)..Len(input[r]) : input[r][p].seq \in Range(contributors[r])
    BY DEF Sourcing, ContributorsAccount, CameIn
  <2>3. \A r \in Streams : buffer[r] = <<>> =>
           \A p \in (Taken(r) + 1)..Len(input[r]) : FALSE
    <3>. SUFFICES ASSUME NEW r \in Streams, buffer[r] = <<>>
                  PROVE  \A p \in (Taken(r) + 1)..Len(input[r]) : FALSE
        OBVIOUS
    <3>1. Taken(r) = Len(input[r]) /\ Len(input[r]) \in Nat
      BY BufferIsWithin, EmptySeq
    <3>. QED BY <3>1
  <2>4. \A r \in Streams :
           \/ LengthRejected(decoder, buffer[r])
           \/ \A p \in (Taken(r) + 1)..Len(input[r]) : input[r][p].seq \in Range(contributors'[r])
    BY <1>2, <2>2, <2>3
  <2>. QED BY <1>1, <2>1, <2>4 DEF ContributorsAccount, CameIn, Taken
<1>8. DerivedAreSourced' /\ ParentsAreTheSource'
    BY <1>1 DEF Sourcing, DerivedAreSourced, Sourced, IsLogged, CameIn, ParentsAreTheSource
<1>. QED BY <1>4, <1>6, <1>7, <1>8 DEF Sourcing

LEMMA SinkEventSources ==
    ASSUME TypeOK, Control, Numbering, TakenInOrder, Sourcing, NEW t \in Callers, SinkEvent(t)
    PROVE  Sourcing'
<1>1. Consume(t)
    BY DEF Consume
<1>2. /\ event[t] \in RawEvents \cup StateChanges /\ event[t] \in Events
      /\ log' = Append(log, event[t])
    BY SinkEventFacts
<1>3. ~Derived(event[t])
    BY <1>2, EventFields DEF Derived
<1>4. ParentsAreTheSource'
    BY <1>1, <1>2, <1>3, LogSourced
<1>5. /\ event' = event /\ derived' = derived /\ decoder' = decoder /\ buffer' = buffer
      /\ contributors' = contributors /\ input' = input /\ result' = result
      /\ pc[t] = "sink" /\ pc'[t] = IF event[t].type = "raw_bytes" THEN "lock" ELSE "idle"
      /\ \A u \in Callers \ {t} : pc'[u] = pc[u]
    BY DEF SinkEvent, session, decoding, Goto, TypeOK
<1>6. \A r, n : IsLogged(r, n) => IsLogged(r, n)'
    BY <1>1, LoggedStays
<1>7. event[t].type = "raw_bytes" =>
         \A r, n : r = event[t].stream /\ n = event[t].seq => IsLogged(r, n)'
  <2>1. log'[Len(log) + 1] = event[t] /\ Len(log) + 1 \in DOMAIN log'
    BY <1>2, AppendFacts DEF TypeOK
  <2>. QED BY <2>1 DEF IsLogged
<1>8. \A u \in Callers : pc'[u] \in {"lock", "decode", "frames"} =>
         \A r, n : r = event'[u].stream /\ n = event'[u].seq => IsLogged(r, n)'
    BY <1>5, <1>6, <1>7 DEF Sourcing, ContributorsAreLogged
<1>9. DerivedAreSourced'
  <2>1. \A u \in Callers : \A k \in DOMAIN derived'[u] :
           derived'[u][k] = derived[u][k] /\ Sourced(derived[u][k])
    BY <1>5 DEF Sourcing, DerivedAreSourced
  <2>. QED BY <1>1, <1>5, <2>1, SourcedStays, DerivedIsHeld, SourcedNext
<1>10. \A u \in Callers : Inside(u)' => Inside(u)
    BY <1>5 DEF Inside
<1>. QED BY <1>4, <1>5, <1>6, <1>8, <1>9, <1>10, SourcesStay

LEMMA ReturnedSources ==
    ASSUME TypeOK, Control, Numbering, TakenInOrder, Sourcing, NEW t \in Callers,
           DecoderReturned(t)
    PROVE  Sourcing'
<1>1. /\ event' = event /\ derived' = derived /\ decoder' = decoder /\ buffer' = buffer
      /\ contributors' = contributors /\ input' = input /\ result' = result /\ log' = log
      /\ pc[t] = "decode" /\ pc'[t] = "frames" /\ \A u \in Callers \ {t} : pc'[u] = pc[u]
    BY DEF DecoderReturned, session, decoding, Goto, TypeOK
<1>2. \A u \in Callers : pc'[u] \in {"lock", "decode", "frames"}
                         <=> pc[u] \in {"lock", "decode", "frames"}
    BY <1>1
<1>3. \A u \in Callers : Inside(u)' <=> Inside(u)
    BY <1>1 DEF Inside
<1>4. ContributorsAreLogged'
    BY <1>1, <1>2 DEF Sourcing, ContributorsAreLogged, IsLogged
<1>5. DecodesTheLast'
    BY <1>1, <1>3 DEF Sourcing, DecodesTheLast
<1>6. ContributorsAccount'
    BY <1>1 DEF Sourcing, ContributorsAccount, CameIn, Taken
<1>7. DerivedAreSourced' /\ ParentsAreTheSource'
    BY <1>1 DEF Sourcing, DerivedAreSourced, Sourced, IsLogged, CameIn, ParentsAreTheSource
<1>. QED BY <1>4, <1>5, <1>6, <1>7 DEF Sourcing

LEMMA SinkDerivedSources ==
    ASSUME TypeOK, Control, Numbering, TakenInOrder, Sourcing, NEW t \in Callers, SinkDerived(t)
    PROVE  Sourcing'
<1>1. Consume(t)
    BY DEF Consume
<1>2. /\ event' = event /\ decoder' = decoder /\ buffer' = buffer
      /\ contributors' = contributors /\ input' = input /\ result' = result
      /\ pc[t] = "derived" /\ \A u \in Callers \ {t} : pc'[u] = pc[u]
      /\ pc'[t] \in {"derived", "idle"}
    BY DEF SinkDerived, session, decoding, Goto, TypeOK
<1>3. \A u \in Callers : \A k \in DOMAIN derived[u] :
         /\ derived[u][k].stream \in Streams /\ derived[u][k] \in Held(derived[u][k].stream)
         /\ Sourced(derived[u][k])
    BY DerivedIsHeld DEF Sourcing, DerivedAreSourced
<1>4. /\ log' = log \/ \E e \in Events :
             log' = Append(log, e) /\ (Derived(e) => Sourced(e) /\ e \in Held(e.stream))
      /\ \A u \in Callers : \A k \in DOMAIN derived'[u] :
            \E l \in DOMAIN derived[u] : derived'[u][k] = derived[u][l]
  <2>1. CASE derived[t] = <<>>
    BY <2>1 DEF SinkDerived
  <2>2. CASE derived[t] # <<>>
    <3>1. PICK e : e = Head(derived[t])
      OBVIOUS
    <3>2. derived[t] \in Seq(DerivedEvents)
      BY DEF TypeOK
    <3>3. /\ Len(derived[t]) \in Nat \ {0} /\ DOMAIN derived[t] = 1..Len(derived[t])
          /\ Head(derived[t]) = derived[t][1]
          /\ \A k \in DOMAIN Tail(derived[t]) :
                k + 1 \in DOMAIN derived[t] /\ Tail(derived[t])[k] = derived[t][k + 1]
      BY <2>2, <3>2, TailFacts
    <3>4. 1 \in DOMAIN derived[t]
      BY <3>3
    <3>5. /\ e \in Events /\ log' = Append(log, e)
          /\ derived' = [derived EXCEPT ![t] = Tail(derived[t])]
      BY <2>2, <3>1, SinkDerivedFacts
    <3>6. Sourced(e) /\ e \in Held(e.stream)
      BY <1>3, <3>1, <3>3, <3>4
    <3>7. derived'[t] = Tail(derived[t]) /\ \A u \in Callers \ {t} : derived'[u] = derived[u]
      BY <3>5 DEF TypeOK
    <3>. QED BY <3>3, <3>5, <3>6, <3>7
  <2>. QED BY <2>1, <2>2
<1>5. ParentsAreTheSource'
    BY <1>1, <1>4, LogSourced
<1>6. DerivedAreSourced'
  <2>1. \A u \in Callers : \A k \in DOMAIN derived'[u] : \A x : x = derived'[u][k] =>
           x.stream \in Streams /\ x \in Held(x.stream) /\ Sourced(x)
    BY <1>3, <1>4
  <2>. QED BY <1>1, <2>1, SourcedStays, SourcedNext
<1>7. \A r, n : IsLogged(r, n) => IsLogged(r, n)'
    BY <1>1, LoggedStays
<1>8. \A u \in Callers : pc'[u] \in {"lock", "decode", "frames"} =>
         \A r, n : r = event'[u].stream /\ n = event'[u].seq => IsLogged(r, n)'
    BY <1>2, <1>7 DEF Sourcing, ContributorsAreLogged
<1>9. \A u \in Callers : Inside(u)' => Inside(u)
    BY <1>2 DEF Inside
<1>. QED BY <1>2, <1>5, <1>6, <1>7, <1>8, <1>9, SourcesStay

LEMMA ConsumeSources ==
    ASSUME TypeOK, Control, Numbering, TakenInOrder, Sourcing, NEW t \in Callers, Consume(t)
    PROVE  Sourcing'
BY SinkEventSources, FeedSources, ExtractSources, ReturnedSources, ThrewSources,
   MakeFrameSources, LeaveSources, SinkDerivedSources DEF Consume

LEMMA MakeSources ==
    ASSUME TypeOK, Control, Sourcing, NEW t \in Callers, NEW s \in Streams, MakeEvent(t, s)
    PROVE  Sourcing'
<1>1. /\ log' = log /\ derived' = derived /\ decoder' = decoder /\ buffer' = buffer
      /\ contributors' = contributors /\ input' = input /\ result' = result
      /\ pc[t] = "idle" /\ pc'[t] = "sink"
      /\ \A u \in Callers \ {t} : pc'[u] = pc[u] /\ event'[u] = event[u]
    BY DEF MakeEvent, decoding, Goto, TypeOK
<1>2. ParentsAreTheSource' /\ DerivedAreSourced'
    BY <1>1 DEF Sourcing, DerivedAreSourced, Sourced, IsLogged, CameIn, ParentsAreTheSource
<1>3. \A r, n : IsLogged(r, n) => IsLogged(r, n)'
    BY <1>1 DEF IsLogged
<1>4. \A u \in Callers : pc'[u] \in {"lock", "decode", "frames"} =>
         \A r, n : r = event'[u].stream /\ n = event'[u].seq => IsLogged(r, n)'
    BY <1>1, <1>3 DEF Sourcing, ContributorsAreLogged
<1>5. \A u \in Callers : Inside(u)' => Inside(u)
    BY <1>1 DEF Inside
<1>6. \A u \in Callers : Inside(u) => event'[u] = event[u]
    BY <1>1 DEF Inside
<1>. QED BY <1>1, <1>2, <1>3, <1>4, <1>5, <1>6, SourcesStay

-----------------------------------------------------------------------------
(***************************************************************************)
(* Bytes that are taken.                                                   *)
(***************************************************************************)
LEMMA AccountedStays ==
    ASSUME NEW s \in Streams, NEW p, Accounted(s, p),
           \A x : x \in Held(s) => x \in Held(s)',
           input'[s][p] = input[s][p]
    PROVE  Accounted(s, p)'
BY DEF Accounted

LEMMA LossesStay ==
    ASSUME TypeOK, Control, Losses,
           \A s, x : x \in Held(s) => x \in Held(s)',
           \A s \in Streams : Taken(s)' = Taken(s),
           \A s \in Streams : \A p \in 1..Len(input[s]) : input'[s][p] = input[s][p],
           result' = result,
           \A u \in Callers : Inside(u) /\ result[u] # <<>> =>
              Inside(u)' /\ event'[u] = event[u]
    PROVE  Losses'
<1>1. \A u \in Callers : \A k \in DOMAIN result[u] : result[u] # <<>>
    BY EmptySeq
<1>2. ASSUME NEW s \in Streams, NEW p \in 1..Taken(s)
      PROVE  Accounted(s, p)' \/ BeingFramed(s, p)'
  <2>1. CASE Accounted(s, p)
    <3>1. p \in 1..Len(input[s])
      BY BufferIsWithin
    <3>. QED BY <2>1, <3>1, AccountedStays
  <2>2. CASE BeingFramed(s, p)
    BY <1>1, <2>2 DEF BeingFramed
  <2>. QED BY <2>1, <2>2 DEF Losses
<1>. QED BY <1>2 DEF Losses

LEMMA ExtractLosses ==
    ASSUME TypeOK, Control, Losses, NEW t \in Callers, ExtractFrame(t)
    PROVE  Losses'
<1>0. PICK s, span : s = event[t].stream /\ span = FrameSpan(decoder, buffer[s])
    OBVIOUS
<1>1. /\ pc' = pc /\ event' = event /\ input' = input /\ Inside(t)
    BY DEF ExtractFrame, session, Inside
<1>2. /\ s \in Streams /\ span \in Nat /\ Taken(s) \in Nat /\ Taken(s) + span <= Len(input[s])
      /\ Taken(s)' = Taken(s) + span
      /\ \A r \in Streams \ {s} : Taken(r)' = Taken(r)
    BY <1>0, ExtractFacts
<1>3. PICK f \in CutFrames : /\ f.first = Taken(s) + 1 /\ f.last = Taken(s) + span
                             /\ result' = [result EXCEPT ![t] = Append(result[t], f)]
    BY <1>0, ExtractFacts
<1>4. /\ \A u \in Callers : \A k \in DOMAIN result[u] :
            k \in DOMAIN result'[u] /\ result'[u][k] = result[u][k]
      /\ \E k \in DOMAIN result'[t] : result'[t][k] = f
  <2>1. result[t] \in Seq(CutFrames) /\ result'[t] = Append(result[t], f)
    BY <1>3 DEF TypeOK
  <2>2. /\ Len(result[t]) \in Nat /\ DOMAIN result[t] = 1..Len(result[t])
        /\ DOMAIN result'[t] = 1..(Len(result[t]) + 1)
        /\ result'[t][Len(result[t]) + 1] = f
        /\ \A k \in DOMAIN result[t] : result'[t][k] = result[t][k]
    BY <2>1, AppendFacts
  <2>3. \A u \in Callers \ {t} : result'[u] = result[u]
    BY <1>3 DEF TypeOK
  <2>4. Len(result[t]) + 1 \in DOMAIN result'[t] /\ DOMAIN result[t] \subseteq DOMAIN result'[t]
    BY <2>2
  <2>. QED BY <2>2, <2>3, <2>4
<1>5. \A r : Held(r)' = Held(r)
    BY HeldStays
<1>6. \A r, p : Accounted(r, p) => Accounted(r, p)'
    BY <1>1, <1>5 DEF Accounted
<1>7. \A r, p : BeingFramed(r, p) => BeingFramed(r, p)'
    BY <1>1, <1>4 DEF BeingFramed, Inside
<1>8. \A p \in (Taken(s) + 1)..(Taken(s) + span) : BeingFramed(s, p)'
  <2>1. \A p \in (Taken(s) + 1)..(Taken(s) + span) : f.first <= p /\ p <= f.last
    BY <1>2, <1>3
  <2>. QED BY <1>0, <1>1, <1>4, <2>1 DEF BeingFramed, Inside
<1>9. ASSUME NEW r \in Streams, NEW p \in 1..Taken(r)'
      PROVE  Accounted(r, p)' \/ BeingFramed(r, p)'
  <2>1. CASE p \in 1..Taken(r)
    BY <1>6, <1>7, <2>1 DEF Losses
  <2>2. CASE p \notin 1..Taken(r)
    <3>1. r = s
      BY <1>2, <2>2
    <3>2. p \in (Taken(s) + 1)..(Taken(s) + span)
      BY <1>2, <2>2, <3>1
    <3>. QED BY <1>8, <3>1, <3>2
  <2>. QED BY <2>1, <2>2
<1>. QED BY <1>9 DEF Losses

LEMMA MakeFrameLosses ==
    ASSUME TypeOK, Control, Losses, NEW t \in Callers, MakeFrameEvent(t)
    PROVE  Losses'
<1>0. PICK s, f, e : /\ s = event[t].stream /\ f = Head(result[t])
                     /\ e = FrameEvent(counter, event[t], contributors[s], f)
    OBVIOUS
<1>1. /\ pc' = pc /\ event' = event /\ buffer' = buffer /\ input' = input
      /\ result[t] # <<>> /\ result' = [result EXCEPT ![t] = Tail(result[t])]
    BY <1>0 DEF MakeFrameEvent, session
<1>2. /\ e \in DerivedEvents /\ e.type = "frame" /\ e.stream = s
      /\ e.first = f.first /\ e.last = f.last
    BY <1>0, MakeFrameFacts DEF DerivedEvents
<1>3. \A r, x : x \in Held(r)' <=> x \in Held(r) \/ (x = e /\ e.stream = r)
    BY <1>0, <1>2, HeldGrows
<1>4. \A r, p : Accounted(r, p) => Accounted(r, p)'
    BY <1>1, <1>3 DEF Accounted
<1>5. \A p : f.first <= p /\ p <= f.last => Accounted(s, p)'
    BY <1>2, <1>3 DEF Accounted
<1>6. \A u \in Callers : \A k \in DOMAIN result[u] :
         \/ u = t /\ result[u][k] = f
         \/ \E l \in DOMAIN result'[u] : result'[u][l] = result[u][k]
  <2>1. result[t] \in Seq(CutFrames) /\ result'[t] = Tail(result[t])
    BY <1>1 DEF TypeOK
  <2>2. /\ Len(result[t]) \in Nat \ {0} /\ DOMAIN result[t] = 1..Len(result[t])
        /\ DOMAIN result'[t] = 1..(Len(result[t]) - 1)
        /\ f = result[t][1]
        /\ \A k \in DOMAIN result'[t] : result'[t][k] = result[t][k + 1]
    <3>1. PICK q \in Seq(CutFrames) : q = result[t] /\ q # <<>> /\ result'[t] = Tail(q)
      BY <1>1, <2>1
    <3>2. /\ Len(q) \in Nat \ {0} /\ DOMAIN q = 1..Len(q) /\ DOMAIN Tail(q) = 1..(Len(q) - 1)
          /\ Head(q) = q[1] /\ \A i \in DOMAIN Tail(q) : Tail(q)[i] = q[i + 1]
      BY <3>1, TailFacts
    <3>3. f = Head(q)
      BY <1>0, <3>1
    <3>. QED BY <3>1, <3>2, <3>3, Zenon
  <2>3. \A k \in DOMAIN result[t] : k = 1 \/ (k - 1 \in DOMAIN result'[t] /\ (k - 1) + 1 = k)
    BY <2>2
  <2>4. \A u \in Callers \ {t} : result'[u] = result[u]
    BY <1>1 DEF TypeOK
  <2>5. ASSUME NEW k \in DOMAIN result[t], k # 1
        PROVE  \E l \in DOMAIN result'[t] : result'[t][l] = result[t][k]
    <3>1. k - 1 \in DOMAIN result'[t] /\ (k - 1) + 1 = k
      BY <2>3, <2>5
    <3>2. result'[t][k - 1] = result[t][k]
      BY <2>2, <3>1
    <3>. QED BY <3>1, <3>2
  <2>. QED BY <2>2, <2>4, <2>5
<1>7. ASSUME NEW r \in Streams, NEW p \in 1..Taken(r)
      PROVE  Accounted(r, p)' \/ BeingFramed(r, p)'
  <2>1. CASE Accounted(r, p)
    BY <1>4, <2>1
  <2>2. CASE BeingFramed(r, p)
    <3>1. PICK u \in Callers : Inside(u) /\ event[u].stream = r /\ \E k \in DOMAIN result[u] :
             result[u][k].first <= p /\ p <= result[u][k].last
      BY <2>2 DEF BeingFramed
    <3>2. PICK k \in DOMAIN result[u] : result[u][k].first <= p /\ p <= result[u][k].last
      BY <3>1
    <3>3. CASE u = t /\ result[u][k] = f
      BY <1>0, <1>5, <3>1, <3>2, <3>3
    <3>4. CASE \E l \in DOMAIN result'[u] : result'[u][l] = result[u][k]
      BY <1>1, <3>1, <3>2, <3>4 DEF BeingFramed, Inside
    <3>. QED BY <1>6, <3>3, <3>4
  <2>. QED BY <2>1, <2>2 DEF Losses
<1>. QED BY <1>1, <1>7 DEF Losses, Taken

LEMMA ThrewLosses ==
    ASSUME TypeOK, Control, Sourcing, Losses, NEW t \in Callers, DecoderThrew(t)
    PROVE  Losses'
<1>0. PICK s, e : s = event[t].stream /\ e = DecoderError(counter, event[t], contributors[s])
    OBVIOUS
<1>1. buffer' = buffer /\ input' = input /\ Inside(t)
    BY DEF DecoderThrew, Inside
<1>2. /\ e \in DerivedEvents /\ e.type = "error" /\ e.stream = s /\ e.parents = contributors[s]
    BY <1>0, ThrewFacts DEF DerivedEvents
<1>3. \A r, x : x \in Held(r)' <=> x \in Held(r) \/ (x = e /\ e.stream = r)
    BY <1>0, <1>2, HeldGrows
<1>4. \A r, p : Accounted(r, p) => Accounted(r, p)'
    BY <1>1, <1>3 DEF Accounted
<1>5. \A p : input[s][p].seq \in Range(contributors[s]) => Accounted(s, p)'
    BY <1>1, <1>2, <1>3 DEF Accounted
<1>6. ASSUME NEW r \in Streams, NEW p \in 1..Taken(r)
      PROVE  Accounted(r, p)'
  <2>1. CASE Accounted(r, p)
    BY <1>4, <2>1
  <2>2. CASE BeingFramed(r, p)
    <3>1. PICK u \in Callers : Inside(u) /\ event[u].stream = r /\ \E k \in DOMAIN result[u] :
             result[u][k].first <= p /\ p <= result[u][k].last
      BY <2>2 DEF BeingFramed
    <3>2. PICK k \in DOMAIN result[u] : result[u][k].first <= p /\ p <= result[u][k].last
      BY <3>1
    <3>3. u = t /\ r = s
      BY <1>0, <1>1, <3>1, OnlyOneCuts
    <3>4. p \in result[t][k].first..result[t][k].last
      <4>1. Taken(r) \in Nat /\ result[t][k].first \in Nat /\ result[t][k].last \in Nat
        BY <3>2, <3>3, CutFields, BufferIsWithin
      <4>. QED BY <3>2, <3>3, <4>1
    <3>5. input[s][p].seq \in Range(contributors[s])
      BY <1>0, <3>2, <3>3, <3>4 DEF Sourcing, ContributorsAccount, CameIn
    <3>. QED BY <1>5, <3>3, <3>5
  <2>. QED BY <2>1, <2>2 DEF Losses
<1>. QED BY <1>1, <1>6 DEF Losses, Taken

LEMMA ConsumeLosses ==
    ASSUME TypeOK, Control, Sourcing, Losses, NEW t \in Callers, Consume(t)
    PROVE  Losses'
<1>1. \A s \in Streams : \A p \in 1..Len(input[s]) : input'[s][p] = input[s][p]
    BY InputGrows
<1>2. ASSUME SinkEvent(t) \/ FeedDecoder(t) \/ DecoderReturned(t) \/ LeaveDecoder(t)
             \/ SinkDerived(t)
      PROVE  Losses'
  <2>1. \A s : Held(s)' = Held(s)
    BY <1>2, HeldStays
  <2>2. \A s \in Streams : Taken(s)' = Taken(s)
    <3>1. CASE FeedDecoder(t)
      BY <3>1, FeedFacts
    <3>2. CASE ~FeedDecoder(t)
      BY <1>2, <3>2 DEF SinkEvent, DecoderReturned, LeaveDecoder, SinkDerived, decoding, Taken
    <3>. QED BY <3>1, <3>2
  <2>3. result' = result /\ event' = event
    BY <1>2 DEF SinkEvent, FeedDecoder, DecoderReturned, LeaveDecoder, SinkDerived, decoding,
                session
  <2>4. \A u \in Callers : Inside(u) /\ result[u] # <<>> => Inside(u)'
    BY <1>2 DEF SinkEvent, FeedDecoder, DecoderReturned, LeaveDecoder, SinkDerived, Goto, Inside,
                TypeOK
  <2>. QED BY <1>1, <2>1, <2>2, <2>3, <2>4, LossesStay
<1>. QED BY <1>2, ExtractLosses, MakeFrameLosses, ThrewLosses DEF Consume

LEMMA MakeLosses ==
    ASSUME TypeOK, Control, Losses, NEW t \in Callers, NEW s \in Streams, MakeEvent(t, s)
    PROVE  Losses'
<1>1. \A r : Held(r)' = Held(r)
    BY HeldStays
<1>2. input' = input /\ buffer' = buffer /\ result' = result
    BY DEF MakeEvent, decoding
<1>3. \A u \in Callers : Inside(u) => Inside(u)' /\ event'[u] = event[u]
    BY DEF MakeEvent, Goto, Inside, TypeOK
<1>. QED BY <1>1, <1>2, <1>3, LossesStay DEF Taken

-----------------------------------------------------------------------------
(***************************************************************************)
(* The invariant.                                                          *)
(***************************************************************************)
LEMMA InitInvariant ==
    ASSUME Init
    PROVE  PipelineInv
<1>1. /\ log = <<>> /\ \A t \in Callers : pc[t] = "idle" /\ result[t] = <<>> /\ derived[t] = <<>>
      /\ \A s \in Streams : contributors[s] = <<>> /\ input[s] = <<>> /\ buffer[s] = <<>>
    BY DEF Init
<1>2. /\ \A i \in DOMAIN log : FALSE
      /\ \A t \in Callers : DOMAIN result[t] = {} /\ DOMAIN derived[t] = {}
      /\ \A s \in Streams : DOMAIN contributors[s] = {}
    BY <1>1, EmptySeq
<1>3. \A s \in Streams : Taken(s) = 0 /\ Len(input[s]) = 0
    BY <1>1, EmptySeq DEF Taken
<1>4. \A s : \A e \in Held(s) : FALSE
    BY <1>1, <1>2 DEF Held, Emitted, Range
<1>5. \A t \in Callers : Outstanding(t) = {}
    BY <1>1, <1>2 DEF Outstanding
<1>6. Numbering
    BY <1>2, <1>5 DEF Numbering
<1>7. TakenInOrder
    BY <1>2, <1>4 DEF TakenInOrder, HeldFrames
<1>8. Sourcing
  <2>1. ContributorsAreLogged
    BY <1>1, <1>2 DEF ContributorsAreLogged
  <2>2. DecodesTheLast
    BY <1>1 DEF DecodesTheLast, Inside
  <2>3. ContributorsAccount
    <3>1. \A s \in Streams : \A p \in (Taken(s) + 1)..Len(input[s]) : FALSE
      BY <1>3
    <3>. QED BY <1>2, <3>1 DEF ContributorsAccount, CameIn
  <2>4. DerivedAreSourced
    BY <1>2 DEF DerivedAreSourced
  <2>5. ParentsAreTheSource
    BY <1>2 DEF ParentsAreTheSource
  <2>. QED BY <2>1, <2>2, <2>3, <2>4, <2>5 DEF Sourcing
<1>9. Losses
    BY <1>3 DEF Losses
<1>. QED BY <1>6, <1>7, <1>8, <1>9, InitControl DEF PipelineInv

LEMMA StutterInvariant ==
    ASSUME TypeOK, Control, Numbering, TakenInOrder, Sourcing, Losses, UNCHANGED vars
    PROVE  TypeOK' /\ PipelineInv'
<1>1. /\ UNCHANGED <<work, decoder, made, event, counter, pc, mutex, buffer, contributors>>
      /\ UNCHANGED <<result, input, cuts, derived, log>>
    BY DEF vars, session, decoding
<1>2. TypeOK' /\ Control'
    BY <1>1 DEF TypeOK, Control, Inside
<1>3. \A s : Held(s)' = Held(s)
    BY <1>1 DEF Held, Emitted
<1>4. /\ \A s \in Streams : Taken(s)' = Taken(s)
      /\ \A u \in Callers : Inside(u)' <=> Inside(u)
    BY <1>1 DEF Taken, Inside
<1>5. Numbering'
    BY <1>1, NumbersStay
<1>6. TakenInOrder'
    BY <1>1, <1>3, <1>4, OrderStays
<1>7. ContributorsAreLogged' /\ DecodesTheLast'
    BY <1>1, <1>4 DEF Sourcing, ContributorsAreLogged, DecodesTheLast, IsLogged
<1>8. ContributorsAccount'
    BY <1>1 DEF Sourcing, ContributorsAccount, CameIn, Taken
<1>9. DerivedAreSourced' /\ ParentsAreTheSource'
    BY <1>1 DEF Sourcing, DerivedAreSourced, Sourced, IsLogged, CameIn, ParentsAreTheSource
<1>10. Losses'
    BY <1>1, <1>3, <1>4, LossesStay
<1>. QED BY <1>2, <1>5, <1>6, <1>7, <1>8, <1>9, <1>10 DEF Sourcing, PipelineInv

LEMMA StepInvariant ==
    ASSUME TypeOK, PipelineInv, [Next]_vars
    PROVE  TypeOK' /\ PipelineInv'
<1>. USE DEF PipelineInv
<1>1. ASSUME NEW t \in Callers, Consume(t)
      PROVE  TypeOK' /\ PipelineInv'
    BY <1>1, ConsumeType, ConsumeControl, ConsumeNumbers, ConsumeOrder, ConsumeSources,
       ConsumeLosses
<1>2. ASSUME NEW t \in Callers, NEW s \in Streams, MakeEvent(t, s)
      PROVE  TypeOK' /\ PipelineInv'
    BY <1>2, MakeType, MakeControl, MakeNumbers, MakeOrder, MakeSources, MakeLosses
<1>3. ASSUME UNCHANGED vars
      PROVE  TypeOK' /\ PipelineInv'
    BY <1>3, StutterInvariant
<1>. QED BY <1>1, <1>2, <1>3 DEF Next

\* Every state of consume, with any number of callers on any streams: numbers
\* are given out once, frames are taken in the order of their numbers, what is
\* decoded and derived has its sources in the log, and what is taken is kept or
\* told of.
THEOREM Invariant == Spec => [](TypeOK /\ PipelineInv)
<1>1. Init => TypeOK /\ PipelineInv
    BY InitType, InitInvariant
<1>2. TypeOK /\ PipelineInv /\ [Next]_vars => (TypeOK /\ PipelineInv)'
    BY StepInvariant
<1>. QED BY <1>1, <1>2, PTL DEF Spec

\* Whatever the threads do, the pipeline's variables keep their types: what a
\* decoder cuts from a buffer is a payload, and what it leaves is one.
THEOREM TypeCorrect == Spec => []TypeOK
BY Invariant, PTL

\* No two events of the log have a number in common, and of two frames of a
\* stream the one with the smaller number ends before the other begins, although
\* the threads that decoded them pass them to the sink in any order.
THEOREM NumbersAreUnique == Spec => []NumbersTellTheOrder
<1>1. TypeOK /\ PipelineInv => NumbersTellTheOrder
  <2>. SUFFICES ASSUME TypeOK, PipelineInv
                PROVE  NumbersTellTheOrder
      OBVIOUS
  <2>1. \A s \in Streams : \A i \in Frames(s) : log[i] \in HeldFrames(s)
    <3>1. \A i \in DOMAIN log : Derived(log[i]) => log[i] \in Held(log[i].stream)
      BY DerivedIsHeld DEF PipelineInv
    <3>. QED BY <3>1 DEF Frames, HeldFrames, Derived
  <2>2. \A s \in Streams : \A e, f \in HeldFrames(s) : e.seq < f.seq => e.last < f.first
    BY DEF PipelineInv, TakenInOrder
  <2>. QED BY <2>1, <2>2 DEF NumbersTellTheOrder, PipelineInv, Numbering
<1>. QED BY <1>1, Invariant, PTL

\* A frame or a decoder error is logged after every raw event it names as a
\* parent and has a larger number, the last parent is the event that was being
\* decoded, and every byte of a frame came in one of them.
THEOREM ParentsAreKnown == Spec => []ParentsAreTheSource
<1>1. PipelineInv => ParentsAreTheSource
    BY DEF PipelineInv, Sourcing
<1>. QED BY <1>1, Invariant, PTL

\* When no decoder is at work, each byte that has left a buffer is in a frame
\* that is logged or on its way to the log, or an error names the event it came in.
THEOREM LossesAreTold == Spec => []LossIsReported
<1>1. TypeOK /\ PipelineInv => LossIsReported
  <2>. SUFFICES ASSUME TypeOK, PipelineInv, mutex = Free
                PROVE  \A s \in Streams : \A p \in 1..Taken(s) : Accounted(s, p)
      BY DEF LossIsReported
  <2>1. \A t \in Callers : ~Inside(t)
    BY CallerAssumption DEF PipelineInv, Control
  <2>. QED BY <2>1 DEF PipelineInv, Losses, BeingFramed
<1>. QED BY <1>1, Invariant, PTL
=============================================================================
