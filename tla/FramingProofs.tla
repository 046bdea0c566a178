---------------------------- MODULE FramingProofs ----------------------------
(***************************************************************************)
(* What the decoders make of a stream does not depend on how it is divided *)
(* into events, for any settings, chunks, streams and threads.             *)
(***************************************************************************)
EXTENDS EventPipelineProofs

-----------------------------------------------------------------------------
(***************************************************************************)
(* One round of a decoder, and the sequences a buffer begins with.         *)
(***************************************************************************)
Begins(c, b) ==
    c \in Payload /\ Len(c) <= Len(b) /\ \A i \in 1..Len(c) : c[i] = b[i]

LEMMA SamePayload ==
    ASSUME NEW b \in Payload, NEW c \in Payload, Len(b) = Len(c), \A i \in 1..Len(c) : b[i] = c[i]
    PROVE  b = c
BY SeqEqual DEF Payload

LEMMA SuffixIs ==
    ASSUME NEW S, NEW q \in Seq(S), NEW r \in Seq(S)
    PROVE  IsSuffix(q, r) <=> /\ Len(q) <= Len(r)
                              /\ \A i \in 1..Len(q) : q[i] = r[Len(r) - Len(q) + i]
<1>1. Len(q) \in Nat /\ Len(r) \in Nat
    BY LenProperties
<1>. DEFINE p == Reverse(q)
            t == Reverse(r)
<1>2. /\ \A i \in 1..Len(q) : p[i] = q[(Len(q) - i) + 1]
      /\ \A i \in 1..Len(r) : t[i] = r[(Len(r) - i) + 1]
    BY Zenon DEF Reverse
<1>3. p \in Seq(S) /\ t \in Seq(S) /\ Len(p) = Len(q) /\ Len(t) = Len(r)
  <2>0. /\ \A i \in 1..Len(q) : (Len(q) - i) + 1 \in 1..Len(q)
        /\ \A i \in 1..Len(r) : (Len(r) - i) + 1 \in 1..Len(r)
    BY <1>1
  <2>1. p \in [1..Len(q) -> S] /\ t \in [1..Len(r) -> S]
    BY <2>0, Elements, Zenon DEF Reverse
  <2>. HIDE DEF p, t
  <2>. QED BY <1>1, <2>1, FunctionIsSeq
<1>. HIDE DEF p, t
<1>4. IsSuffix(q, r) <=> Len(p) <= Len(t) /\ SubSeq(p, 1, Len(p)) = SubSeq(t, 1, Len(p))
    BY DEF IsSuffix, IsPrefix, p, t
<1>5. ASSUME Len(q) <= Len(r)
      PROVE  SubSeq(p, 1, Len(p)) = SubSeq(t, 1, Len(p)) <=> \A i \in 1..Len(q) : p[i] = t[i]
  <2>1. /\ SubSeq(p, 1, Len(q)) \in Seq(S) /\ Len(SubSeq(p, 1, Len(q))) = Len(q)
        /\ \A i \in 1..Len(q) : SubSeq(p, 1, Len(q))[i] = p[i]
    <3>1. \A i \in 1..Len(q) : p[i] \in S
      BY <1>3, Elements
    <3>. QED BY <1>1, <3>1, SubSeqProperties
  <2>2. /\ SubSeq(t, 1, Len(q)) \in Seq(S) /\ Len(SubSeq(t, 1, Len(q))) = Len(q)
        /\ \A i \in 1..Len(q) : SubSeq(t, 1, Len(q))[i] = t[i]
    <3>1. \A i \in 1..Len(q) : t[i] \in S
      BY <1>1, <1>3, <1>5, Elements
    <3>. QED BY <1>1, <3>1, SubSeqProperties
  <2>3. (\A i \in 1..Len(q) : p[i] = t[i]) => SubSeq(p, 1, Len(q)) = SubSeq(t, 1, Len(q))
    BY <2>1, <2>2, SeqEqual
  <2>. QED BY <1>3, <2>1, <2>2, <2>3
<1>6. ASSUME Len(q) <= Len(r)
      PROVE  (\A i \in 1..Len(q) : p[i] = t[i])
             <=> \A i \in 1..Len(q) : q[i] = r[Len(r) - Len(q) + i]
  <2>1. ASSUME \A i \in 1..Len(q) : p[i] = t[i], NEW i \in 1..Len(q)
        PROVE  q[i] = r[Len(r) - Len(q) + i]
    <3>1. PICK j : j = Len(q) - i + 1
      OBVIOUS
    <3>2. j \in 1..Len(q) /\ j \in 1..Len(r) /\ Len(q) - j + 1 = i
          /\ Len(r) - j + 1 = Len(r) - Len(q) + i
      BY <1>1, <1>6, <3>1
    <3>. QED BY <1>2, <2>1, <3>2
  <2>2. ASSUME \A i \in 1..Len(q) : q[i] = r[Len(r) - Len(q) + i], NEW i \in 1..Len(q)
        PROVE  p[i] = t[i]
    <3>1. PICK j : j = Len(q) - i + 1
      OBVIOUS
    <3>2. j \in 1..Len(q) /\ i \in 1..Len(r) /\ Len(r) - i + 1 = Len(r) - Len(q) + j
      BY <1>1, <1>6, <3>1
    <3>. QED BY <1>2, <2>2, <3>1, <3>2
  <2>. QED BY <2>1, <2>2
<1>. QED BY <1>3, <1>4, <1>5, <1>6

\* What DelimiterEndsAt says, byte by byte.
LEMMA EndsAtIs ==
    ASSUME NEW d, d.delimiter \in Payload, NEW b \in Payload, NEW k \in 1..Len(b)
    PROVE  DelimiterEndsAt(d, b, k) <=>
             /\ Len(d.delimiter) <= k
             /\ \A i \in 1..Len(d.delimiter) : d.delimiter[i] = b[k - Len(d.delimiter) + i]
<1>0. PICK m : m = Len(d.delimiter)
    OBVIOUS
<1>1. Len(b) \in Nat /\ m \in Nat
    BY <1>0, LenProperties DEF Payload
<1>2. ASSUME m <= k
      PROVE  SubSeq(b, k - m + 1, k) = d.delimiter
             <=> \A i \in 1..m : d.delimiter[i] = b[k - m + i]
  <2>1. PICK n : n = k - m + 1
    OBVIOUS
  <2>2. n \in Nat \ {0} /\ k \in Int /\ k <= Len(b) /\ k - n + 1 = m
        /\ (n <= k \/ m = 0)
    BY <1>1, <1>2, <2>1
  <2>3. \A i \in n..k : b[i] \in Byte
    BY <1>1, <2>2, Elements DEF Payload
  <2>4. /\ SubSeq(b, n, k) \in Seq(Byte)
        /\ Len(SubSeq(b, n, k)) = IF n <= k THEN k - n + 1 ELSE 0
        /\ \A i \in 1..(k - n + 1) : SubSeq(b, n, k)[i] = b[n + i - 1]
    BY <2>2, <2>3, SubSeqProperties
  <2>5. Len(SubSeq(b, n, k)) = m /\ \A i \in 1..m : SubSeq(b, n, k)[i] = b[k - m + i]
    <3>1. \A i \in 1..m : n + i - 1 = k - m + i
      BY <1>1, <2>1
    <3>2. n <= k => k - n + 1 = m
      BY <2>2
    <3>3. ~(n <= k) => m = 0
      BY <2>2
    <3>. QED BY <2>2, <2>4, <3>1, <3>2, <3>3
  <2>6. SubSeq(b, n, k) \in Payload
    BY <2>4 DEF Payload
  <2>7. ASSUME \A i \in 1..m : d.delimiter[i] = b[k - m + i]
        PROVE  SubSeq(b, n, k) = d.delimiter
    <3>1. PICK c, e : c = SubSeq(b, n, k) /\ e = d.delimiter
      OBVIOUS
    <3>2. c \in Payload /\ e \in Payload /\ Len(c) = Len(e)
      BY <1>0, <2>5, <2>6, <3>1
    <3>3. \A i \in 1..Len(e) : c[i] = e[i]
      BY <1>0, <2>5, <2>7, <3>1
    <3>. QED BY <3>1, <3>2, <3>3, SamePayload
  <2>. QED BY <2>1, <2>5, <2>7
<1>. QED BY <1>0, <1>1, <1>2 DEF DelimiterEndsAt

\* A frame of the delimiter decoder is what ends with the delimiter.
LEMMA EndsWithDelimiter ==
    ASSUME NEW d, d.delimiter \in Payload, NEW b \in Payload, NEW c, Begins(c, b), c # <<>>
    PROVE  IsSuffix(d.delimiter, c) <=> DelimiterEndsAt(d, b, Len(c))
<1>1. PICK m, k : m = Len(d.delimiter) /\ k = Len(c)
    OBVIOUS
<1>2. m \in Nat /\ k \in 1..Len(b) /\ \A i \in 1..k : c[i] = b[i]
    BY <1>1, LenProperties, EmptySeq DEF Begins, Payload
<1>3. IsSuffix(d.delimiter, c) <=> m <= k /\ \A i \in 1..m : d.delimiter[i] = c[k - m + i]
  <2>1. PICK q \in Payload : q = d.delimiter
    OBVIOUS
  <2>2. c \in Payload
    BY DEF Begins
  <2>3. IsSuffix(q, c) <=> Len(q) <= Len(c) /\ \A i \in 1..Len(q) : q[i] = c[Len(c) - Len(q) + i]
    BY <2>2, SuffixIs DEF Payload
  <2>. QED BY <1>1, <2>1, <2>3, Zenon
<1>4. m <= k => \A i \in 1..m : c[k - m + i] = b[k - m + i]
    BY <1>2
<1>5. DelimiterEndsAt(d, b, k) <=> m <= k /\ \A i \in 1..m : d.delimiter[i] = b[k - m + i]
    BY <1>1, <1>2, EndsAtIs
<1>6. DelimiterEndsAt(d, b, k) <=> m <= k /\ \A i \in 1..m : d.delimiter[i] = c[k - m + i]
    BY <1>4, <1>5
<1>. QED BY <1>1, <1>3, <1>6, Zenon

\* The length field, read as the code reads it and as its bytes are weighted.
LEMMA DeclaredIsRead ==
    ASSUME NEW d, Accepted(d), d.decoder = "length-prefix", NEW c \in Payload, HasHeader(d, c)
    PROVE  Declared(d, c) = ReadLength(d, c)
<1>1. PICK n, little, h : n = d.length_size /\ little = d.little_endian /\ h = LengthField(d, c)
    OBVIOUS
<1>2. n \in {1, 2, 4} /\ little \in BOOLEAN
    BY <1>1 DEF Accepted
<1>3. \A i \in 1..n : c[i] \in Nat
  <2>1. Len(c) \in Nat /\ n <= Len(c)
    BY <1>1, LenProperties DEF HasHeader, Payload
  <2>2. \A i \in 1..Len(c) : c[i] \in Byte
    BY Elements DEF Payload
  <2>3. Byte \subseteq Nat
    BY DEF Byte
  <2>4. \A i \in 1..n : i \in 1..Len(c)
    BY <1>2, <2>1
  <2>. QED BY <2>2, <2>3, <2>4
<1>4. \A i \in 1..n : h[i] = IF little THEN c[n + 1 - i] ELSE c[i]
    BY <1>1 DEF LengthField
<1>5. ReadLength(d, c) = Number(h, n)
    BY <1>1 DEF ReadLength
<1>6. CASE n = 1
  <2>1. c[1] \in Nat /\ h[1] = c[1]
    BY <1>3, <1>4, <1>6
  <2>. QED BY <1>1, <1>5, <1>6, <2>1 DEF Declared, Number
<1>7. CASE n = 2 /\ little
  <2>1. c[1] \in Nat /\ c[2] \in Nat /\ h[1] = c[2] /\ h[2] = c[1]
    BY <1>3, <1>4, <1>7
  <2>2. Declared(d, c) = c[1] + 256 * c[2]
    BY <1>1, <1>7 DEF Declared
  <2>3. Number(h, n) = h[1] * 256 + h[2]
    BY <1>7 DEF Number
  <2>. QED BY <1>5, <2>1, <2>2, <2>3
<1>8. CASE n = 2 /\ ~little
  <2>1. c[1] \in Nat /\ c[2] \in Nat /\ h[1] = c[1] /\ h[2] = c[2]
    BY <1>3, <1>4, <1>8
  <2>2. Declared(d, c) = 256 * c[1] + c[2]
    BY <1>1, <1>8 DEF Declared
  <2>3. Number(h, n) = h[1] * 256 + h[2]
    BY <1>8 DEF Number
  <2>. QED BY <1>5, <2>1, <2>2, <2>3
<1>9. CASE n = 4 /\ little
  <2>1. c[1] \in Nat /\ c[2] \in Nat /\ c[3] \in Nat /\ c[4] \in Nat
    BY <1>3, <1>9
  <2>2. h[1] = c[4] /\ h[2] = c[3] /\ h[3] = c[2] /\ h[4] = c[1]
    BY <1>4, <1>9
  <2>3. Declared(d, c) = c[1] + 256 * c[2] + 65536 * c[3] + 16777216 * c[4]
    BY <1>1, <1>9 DEF Declared
  <2>4. Number(h, n) = ((h[1] * 256 + h[2]) * 256 + h[3]) * 256 + h[4]
    BY <1>9 DEF Number
  <2>. QED BY <1>5, <2>1, <2>2, <2>3, <2>4
<1>10. CASE n = 4 /\ ~little
  <2>1. c[1] \in Nat /\ c[2] \in Nat /\ c[3] \in Nat /\ c[4] \in Nat
    BY <1>3, <1>10
  <2>2. h[1] = c[1] /\ h[2] = c[2] /\ h[3] = c[3] /\ h[4] = c[4]
    BY <1>4, <1>10
  <2>3. Declared(d, c) = 16777216 * c[1] + 65536 * c[2] + 256 * c[3] + c[4]
    BY <1>1, <1>10 DEF Declared
  <2>4. Number(h, n) = ((h[1] * 256 + h[2]) * 256 + h[3]) * 256 + h[4]
    BY <1>10 DEF Number
  <2>. QED BY <1>5, <2>1, <2>2, <2>3, <2>4
<1>. QED BY <1>2, <1>6, <1>7, <1>8, <1>9, <1>10

\* What a buffer begins with has its length field.
LEMMA SameHeader ==
    ASSUME NEW d, Accepted(d), d.decoder = "length-prefix",
           NEW b \in Payload, NEW c, Begins(c, b), HasHeader(d, c)
    PROVE  HasHeader(d, b) /\ ReadLength(d, c) = ReadLength(d, b)
<1>1. Len(b) \in Nat /\ Len(c) \in Nat /\ Len(c) <= Len(b)
    BY LenProperties DEF Begins, Payload
<1>2. d.length_size \in {1, 2, 4} /\ d.length_size <= Len(c)
    BY DEF Accepted, HasHeader
<1>3. \A i \in 1..d.length_size : c[i] = b[i] /\ c[d.length_size + 1 - i] = b[d.length_size + 1 - i]
    BY <1>1, <1>2 DEF Begins
<1>4. LengthField(d, c) = LengthField(d, b)
    BY <1>3 DEF LengthField
<1>. QED BY <1>1, <1>2, <1>4 DEF HasHeader, ReadLength

\* A round takes the first bytes that are a frame, and nothing when none are.
LEMMA SpanIsFrame ==
    ASSUME NEW d, Accepted(d), d.decoder # "raw",
           NEW b \in Payload, NEW c, Begins(c, b), c # <<>>
    PROVE  /\ IsFrame(d, c) => ~LengthRejected(d, b) /\ 0 < FrameSpan(d, b)
                               /\ FrameSpan(d, b) <= Len(c)
           /\ ~LengthRejected(d, b) /\ FrameSpan(d, b) = Len(c) => IsFrame(d, c)
<1>1. Len(b) \in Nat /\ Len(c) \in Nat /\ 0 < Len(c) /\ Len(c) <= Len(b)
    BY LenProperties, EmptySeq DEF Begins, Payload
<1>2. CASE d.decoder = "fixed"
  <2>1. d.frame_size \in Nat \ {0} /\ ~LengthRejected(d, b)
    BY <1>2 DEF Accepted, LengthRejected
  <2>2. FrameSpan(d, b) = IF Len(b) >= d.frame_size THEN d.frame_size ELSE 0
    BY <1>2 DEF FrameSpan
  <2>3. IsFrame(d, c) <=> Len(c) = d.frame_size
    BY <1>2 DEF IsFrame
  <2>. QED BY <1>1, <2>1, <2>2, <2>3
<1>3. CASE d.decoder = "delimiter"
  <2>1. d.delimiter \in Payload /\ ~LengthRejected(d, b)
    BY <1>3 DEF Accepted, LengthRejected, Payload, Byte
  <2>2. PICK ends : ends = {i \in DOMAIN b : DelimiterEndsAt(d, b, i)}
    OBVIOUS
  <2>3. FrameSpan(d, b) = IF ends = {} THEN 0 ELSE CHOOSE i \in ends : \A j \in ends : i <= j
    BY <1>3, <2>2 DEF FrameSpan
  <2>4. ends \subseteq 1..Len(b) /\ ends \subseteq Nat
    BY <1>1, <2>2 DEF Payload
  <2>5. IsFrame(d, c) <=> Len(c) \in ends
    <3>1. IsFrame(d, c) <=> IsSuffix(d.delimiter, c)
      BY <1>3 DEF IsFrame
    <3>2. IsSuffix(d.delimiter, c) <=> DelimiterEndsAt(d, b, Len(c))
      BY <2>1, EndsWithDelimiter
    <3>3. Len(c) \in DOMAIN b
      BY <1>1, LenProperties DEF Payload
    <3>. QED BY <2>2, <3>1, <3>2, <3>3
  <2>6. CASE ends = {}
    BY <1>1, <2>3, <2>5, <2>6
  <2>7. CASE ends # {}
    <3>1. PICK m \in ends : \A j \in ends : m <= j
      BY <2>4, <2>7, LeastOf
    <3>2. FrameSpan(d, b) \in ends /\ \A j \in ends : FrameSpan(d, b) <= j
      BY <2>3, <2>7, <3>1
    <3>3. PICK n : n = FrameSpan(d, b)
      OBVIOUS
    <3>4. n \in 1..Len(b) /\ n \in ends /\ (Len(c) \in ends => n <= Len(c))
      BY <2>4, <3>2, <3>3
    <3>. QED BY <1>1, <2>1, <2>5, <3>3, <3>4
  <2>. QED BY <2>6, <2>7
<1>4. CASE d.decoder = "length-prefix"
  <2>1. d.length_size \in {1, 2, 4} /\ d.length_includes_header \in BOOLEAN
    BY <1>4 DEF Accepted
  <2>2. PICK more : more = IF d.length_includes_header THEN 0 ELSE d.length_size
    OBVIOUS
  <2>3. FrameSpan(d, b) = IF HasHeader(d, b) /\ Len(b) >= ReadLength(d, b) + more
                          THEN ReadLength(d, b) + more ELSE 0
    BY <1>4, <2>2 DEF FrameSpan, TotalSize
  <2>4. IsFrame(d, c) <=> HasHeader(d, c) /\ Len(c) = Declared(d, c) + more
    BY <1>4, <2>2 DEF IsFrame, HasHeader
  <2>5. CASE HasHeader(d, c)
    <3>1. HasHeader(d, b) /\ ReadLength(d, b) \in Nat /\ Declared(d, c) = ReadLength(d, b)
      BY <1>4, <2>5, SameHeader, DeclaredIsRead, LengthIsNat DEF Begins
    <3>2. d.length_size <= Len(c)
      BY <2>5 DEF HasHeader
    <3>3. LengthRejected(d, b) <=> d.length_includes_header /\ ReadLength(d, b) < d.length_size
      BY <1>4, <3>1 DEF LengthRejected
    <3>. QED BY <1>1, <2>1, <2>2, <2>3, <2>4, <2>5, <3>1, <3>2, <3>3
  <2>6. CASE ~HasHeader(d, c)
    <3>1. Len(c) < d.length_size
      BY <1>1, <2>1, <2>6 DEF HasHeader
    <3>2. ASSUME HasHeader(d, b), ~LengthRejected(d, b)
          PROVE  ReadLength(d, b) + more >= d.length_size
      <4>1. ReadLength(d, b) \in Nat
        BY <1>4, <3>2, LengthIsNat
      <4>2. d.length_includes_header => ReadLength(d, b) >= d.length_size
        BY <1>4, <2>1, <3>2, <4>1 DEF LengthRejected
      <4>. QED BY <2>1, <2>2, <4>1, <4>2
    <3>3. HasHeader(d, b) => ReadLength(d, b) \in Nat
      BY <1>4, LengthIsNat
    <3>. QED BY <1>1, <2>1, <2>2, <2>3, <2>4, <2>6, <3>1, <3>2, <3>3
  <2>. QED BY <2>5, <2>6
<1>. QED BY <1>2, <1>3, <1>4 DEF Accepted

\* Bytes m to n of a buffer.
LEMMA PartOf ==
    ASSUME NEW b \in Payload, NEW m \in Nat \ {0}, NEW n \in Nat, n <= Len(b), m <= n + 1
    PROVE  /\ SubSeq(b, m, n) \in Payload /\ Len(SubSeq(b, m, n)) = n + 1 - m
           /\ \A i \in 1..(n + 1 - m) : SubSeq(b, m, n)[i] = b[m + i - 1]
<1>1. Len(b) \in Nat /\ \A i \in m..n : b[i] \in Byte
    BY Elements DEF Payload
<1>2. /\ SubSeq(b, m, n) \in Seq(Byte)
      /\ Len(SubSeq(b, m, n)) = IF m <= n THEN n - m + 1 ELSE 0
      /\ \A i \in 1..(n - m + 1) : SubSeq(b, m, n)[i] = b[m + i - 1]
    BY <1>1, SubSeqProperties
<1>3. n - m + 1 = n + 1 - m /\ (~(m <= n) => n + 1 - m = 0)
    OBVIOUS
<1>. QED BY <1>2, <1>3 DEF Payload

LEMMA BeginningIs ==
    ASSUME NEW b \in Payload, NEW c, Begins(c, b)
    PROVE  SubSeq(b, 1, Len(c)) = c
<1>1. Len(c) \in Nat /\ Len(b) \in Nat /\ Len(c) <= Len(b) /\ c \in Payload
      /\ \A i \in 1..Len(c) : c[i] = b[i]
    BY LenProperties DEF Begins, Payload
<1>2. PICK q, n : q = SubSeq(b, 1, n) /\ n = Len(c)
    OBVIOUS
<1>3. /\ q \in Payload /\ Len(q) = n + 1 - 1
      /\ \A i \in 1..(n + 1 - 1) : q[i] = b[1 + i - 1]
    BY <1>1, <1>2, PartOf
<1>4. Len(q) = Len(c) /\ \A i \in 1..Len(c) : q[i] = c[i]
    BY <1>1, <1>2, <1>3
<1>. QED BY <1>1, <1>2, <1>3, <1>4, SamePayload

\* What a frame carries of the bytes that it takes.
LEMMA PayloadIsCarried ==
    ASSUME NEW d, Accepted(d), NEW b \in Payload, NEW c, Begins(c, b), c # <<>>,
           ~LengthRejected(d, b), FrameSpan(d, b) = Len(c)
    PROVE  Carries(d, FramePayload(d, b, Len(c)), c)
<1>1. PICK n : n = Len(c)
    OBVIOUS
<1>2. n \in Nat \ {0} /\ Len(b) \in Nat /\ n <= Len(b) /\ c \in Payload
      /\ \A i \in 1..n : c[i] = b[i]
    BY <1>1, LenProperties, EmptySeq DEF Begins, Payload
<1>3. SubSeq(b, 1, n) = c
    BY <1>1, BeginningIs
<1>4. CASE d.decoder \in {"raw", "fixed"}
    BY <1>1, <1>3, <1>4 DEF Carries, FramePayload
<1>5. CASE d.decoder = "delimiter" /\ d.include_delimiter
    BY <1>1, <1>3, <1>5 DEF Carries, FramePayload
<1>6. CASE d.decoder = "delimiter" /\ ~d.include_delimiter
  <2>1. d.delimiter \in Payload
    BY <1>6 DEF Accepted, Payload, Byte
  <2>2. PICK e, m : e = d.delimiter /\ m = Len(e)
    OBVIOUS
  <2>3. m \in Nat
    BY <2>1, <2>2, LenProperties DEF Payload
  <2>4. IsFrame(d, c)
    BY <1>6, SpanIsFrame
  <2>5. m <= n /\ \A i \in 1..m : e[i] = c[n - m + i]
    <3>1. IsSuffix(e, c)
      BY <1>6, <2>2, <2>4 DEF IsFrame
    <3>2. IsSuffix(e, c) <=> /\ Len(e) <= Len(c)
                             /\ \A i \in 1..Len(e) : e[i] = c[Len(c) - Len(e) + i]
      BY <1>2, <2>1, <2>2, SuffixIs DEF Payload
    <3>. QED BY <1>1, <2>2, <3>1, <3>2
  <2>6. PICK p : p = SubSeq(b, 1, n - m)
    OBVIOUS
  <2>7. p \in Payload /\ Len(p) = n - m /\ \A i \in 1..(n - m) : p[i] = b[i]
    <3>1. PICK k : k = n - m
      OBVIOUS
    <3>2. k \in Nat /\ k <= Len(b) /\ k + 1 - 1 = k /\ 1 <= k + 1
      BY <1>2, <2>3, <2>5, <3>1
    <3>3. /\ SubSeq(b, 1, k) \in Payload /\ Len(SubSeq(b, 1, k)) = k + 1 - 1
          /\ \A i \in 1..(k + 1 - 1) : SubSeq(b, 1, k)[i] = b[1 + i - 1]
      BY <3>2, PartOf
    <3>. QED BY <2>6, <3>1, <3>2, <3>3
  <2>8. /\ p \o e \in Payload /\ Len(p \o e) = n
        /\ \A i \in 1..n : (p \o e)[i] = IF i <= n - m THEN p[i] ELSE e[i - (n - m)]
    <3>1. \A x, y \in Seq(Byte) :
             /\ x \o y \in Seq(Byte)
             /\ Len(x \o y) = Len(x) + Len(y)
             /\ \A i \in 1..(Len(x) + Len(y)) :
                   (x \o y)[i] = IF i <= Len(x) THEN x[i] ELSE y[i - Len(x)]
      BY ConcatProperties, Zenon
    <3>2. /\ p \o e \in Payload /\ Len(p \o e) = Len(p) + Len(e)
          /\ \A i \in 1..(Len(p) + Len(e)) :
                (p \o e)[i] = IF i <= Len(p) THEN p[i] ELSE e[i - Len(p)]
      BY <2>1, <2>2, <2>7, <3>1, Zenon DEF Payload
    <3>3. Len(p) = n - m /\ Len(e) = m /\ (n - m) + m = n
      BY <1>2, <2>2, <2>3, <2>7
    <3>. QED BY <3>2, <3>3
  <2>9. \A i \in 1..n : (p \o e)[i] = c[i]
    <3>. TAKE i \in 1..n
    <3>1. CASE i <= n - m
      <4>1. i \in 1..(n - m)
        BY <1>2, <2>3, <3>1
      <4>2. p[i] = b[i] /\ c[i] = b[i]
        BY <1>2, <2>7, <4>1
      <4>. QED BY <2>8, <3>1, <4>2
    <3>2. CASE ~(i <= n - m)
      <4>1. PICK j : j = i - (n - m)
        OBVIOUS
      <4>2. j \in 1..m /\ n - m + j = i
        BY <1>2, <2>3, <3>2, <4>1
      <4>. QED BY <2>5, <2>8, <3>2, <4>1, <4>2
    <3>. QED BY <3>1, <3>2
  <2>10. p \o e = c
    BY <1>1, <1>2, <2>8, <2>9, SamePayload
  <2>11. FramePayload(d, b, n) = p
    BY <1>6, <2>2, <2>6 DEF FramePayload
  <2>. QED BY <1>1, <1>6, <2>2, <2>10, <2>11 DEF Carries
<1>7. CASE d.decoder = "length-prefix" /\ d.length_includes_header
    BY <1>1, <1>3, <1>7 DEF Carries, FramePayload
<1>8. CASE d.decoder = "length-prefix" /\ ~d.length_includes_header
  <2>1. PICK m, p : m = d.length_size /\ p = SubSeq(b, m + 1, n)
    OBVIOUS
  <2>2. m \in Nat
    BY <1>8, <2>1 DEF Accepted
  <2>3. m <= n
    <3>1. IsFrame(d, c)
      BY <1>8, SpanIsFrame
    <3>. QED BY <1>1, <1>2, <1>8, <2>1, <2>2, <3>1 DEF IsFrame
  <2>4. /\ p \in Payload /\ Len(p) = n + 1 - (m + 1)
        /\ \A i \in 1..(n + 1 - (m + 1)) : p[i] = b[(m + 1) + i - 1]
    BY SMTT(20), <1>2, <2>1, <2>2, <2>3, PartOf
  <2>5. Len(p) = n - m /\ \A i \in 1..(n - m) : p[i] = c[m + i]
    <3>1. n + 1 - (m + 1) = n - m
      BY <1>2, <2>2
    <3>2. \A i \in 1..(n - m) : (m + 1) + i - 1 = m + i /\ m + i \in 1..n
      BY <1>2, <2>2, <2>3
    <3>. QED BY <1>2, <2>4, <3>1, <3>2
  <2>6. Len(p) <= n /\ n - Len(p) = m
    BY <1>2, <2>2, <2>3, <2>5
  <2>7. IsSuffix(p, c)
    <3>1. IsSuffix(p, c) <=> /\ Len(p) <= Len(c)
                             /\ \A i \in 1..Len(p) : p[i] = c[Len(c) - Len(p) + i]
      BY <1>2, <2>4, SuffixIs DEF Payload
    <3>. QED BY <1>1, <2>5, <2>6, <3>1
  <2>8. FramePayload(d, b, n) = p
    BY <1>8, <2>1 DEF FramePayload
  <2>. QED BY <1>1, <1>8, <2>1, <2>6, <2>7, <2>8 DEF Carries
<1>. QED BY <1>4, <1>5, <1>6, <1>7, <1>8 DEF Accepted
-----------------------------------------------------------------------------
(***************************************************************************)
(* A stream and the buffer that follows what was taken of it.              *)
(***************************************************************************)
LEMMA BytesAre ==
    ASSUME NEW q \in Seq(InputBytes), NEW i \in Nat \ {0}, NEW j \in Nat, i <= j, j <= Len(q)
    PROVE  /\ Bytes(q, i, j) \in Payload /\ Len(Bytes(q, i, j)) = j - i + 1
           /\ \A k \in 1..(j - i + 1) : Bytes(q, i, j)[k] = q[i + k - 1].byte
<1>1. PICK n : n = j - i + 1
    OBVIOUS
<1>2. n \in Nat /\ \A k \in 1..n : i + k - 1 \in 1..Len(q)
    BY <1>1
<1>3. \A k \in 1..n : q[i + k - 1].byte \in Byte
  <2>1. \A p \in 1..Len(q) : q[p] \in InputBytes
    BY Elements
  <2>. QED BY <1>2, <2>1 DEF InputBytes
<1>4. Bytes(q, i, j) = [k \in 1..n |-> q[i + k - 1].byte]
    BY <1>1 DEF Bytes
<1>5. Bytes(q, i, j) \in [1..n -> Byte]
    BY <1>3, <1>4
<1>6. Bytes(q, i, j) \in Seq(Byte) /\ Len(Bytes(q, i, j)) = n
    BY <1>2, <1>5, FunctionIsSeq
<1>. QED BY <1>1, <1>4, <1>6 DEF Payload

\* The bytes after the first n are those the buffer begins with.
LEMMA BufferBegins ==
    ASSUME NEW q \in Seq(InputBytes), NEW b \in Payload, NEW n \in Nat,
           n + Len(b) = Len(q), Follows(q, n, b), NEW j \in (n + 1)..Len(q)
    PROVE  /\ Begins(Bytes(q, n + 1, j), b) /\ Bytes(q, n + 1, j) # <<>>
           /\ Len(Bytes(q, n + 1, j)) = j - n
<1>1. Len(b) \in Nat /\ Len(q) \in Nat
    BY LenProperties DEF Payload
<1>2. PICK c : c = Bytes(q, n + 1, j)
    OBVIOUS
<1>3. PICK i : i = n + 1
    OBVIOUS
<1>4. /\ c \in Payload /\ Len(c) = j - i + 1
      /\ \A k \in 1..(j - i + 1) : c[k] = q[i + k - 1].byte
  <2>1. i \in Nat \ {0} /\ j \in Nat /\ i <= j /\ j <= Len(q) /\ c = Bytes(q, i, j)
    BY <1>1, <1>2, <1>3
  <2>. QED BY <2>1, BytesAre
<1>5. j - i + 1 = j - n /\ j - n \in Nat \ {0} /\ j - n <= Len(b)
    BY <1>1, <1>3
<1>6. \A k \in 1..(j - n) : c[k] = b[k]
  <2>. TAKE k \in 1..(j - n)
  <2>1. i + k - 1 = n + k /\ k \in 1..Len(b)
    BY <1>1, <1>3, <1>5
  <2>. QED BY <1>4, <1>5, <2>1 DEF Follows
<1>. QED BY <1>2, <1>4, <1>5, <1>6, EmptySeq DEF Begins

\* What a raw decoder has not taken came in one event.
OneEvent(d, q, n, b) ==
    d.decoder = "raw" =>
        \E m : \A k \in 1..Len(b) : q[n + k].seq = m

\* A round of the decoder cuts off what a reader of the whole stream would.
LEMMA RoundIsShortest ==
    ASSUME NEW d, Accepted(d), NEW q \in Seq(InputBytes), NEW b \in Payload, NEW n \in Nat,
           n + Len(b) = Len(q), Follows(q, n, b), OneEvent(d, q, n, b),
           ~LengthRejected(d, b), NEW span \in Nat \ {0}, span = FrameSpan(d, b), span <= Len(b)
    PROVE  /\ Shortest(d, q, n + 1, n + span)
           /\ Carries(d, FramePayload(d, b, span), Bytes(q, n + 1, n + span))
<1>1. PICK m, i : m = n + span /\ i = n + 1
    OBVIOUS
<1>2. Len(b) \in Nat /\ Len(q) \in Nat /\ m \in (n + 1)..Len(q) /\ m - n = span
    BY <1>1, LenProperties DEF Payload
<1>3. /\ Begins(Bytes(q, n + 1, m), b) /\ Bytes(q, n + 1, m) # <<>>
      /\ Len(Bytes(q, n + 1, m)) = span
    BY <1>2, BufferBegins
<1>4. Carries(d, FramePayload(d, b, span), Bytes(q, n + 1, m))
    BY <1>3, PayloadIsCarried
<1>5. CASE d.decoder # "raw"
  <2>1. Complete(d, q, n + 1, m)
    BY <1>3, <1>5, SpanIsFrame DEF Complete
  <2>2. ASSUME NEW k \in (n + 1)..(m - 1)
        PROVE  ~Complete(d, q, n + 1, k)
    <3>1. k \in (n + 1)..Len(q) /\ k - n < span
      BY <1>2
    <3>2. /\ Begins(Bytes(q, n + 1, k), b) /\ Bytes(q, n + 1, k) # <<>>
          /\ Len(Bytes(q, n + 1, k)) = k - n
      BY <3>1, BufferBegins
    <3>3. IsFrame(d, Bytes(q, n + 1, k)) => FrameSpan(d, b) <= k - n
      BY <1>5, <3>2, SpanIsFrame
    <3>. QED BY <1>5, <3>1, <3>3 DEF Complete
  <2>. QED BY <1>1, <1>4, <2>1, <2>2 DEF Shortest
<1>6. CASE d.decoder = "raw"
  <2>1. m = Len(q)
    BY <1>1, <1>2, <1>6 DEF FrameSpan
  <2>2. PICK e : \A p \in i..m : q[p].seq = e
    <3>1. PICK e : \A k \in 1..Len(b) : q[n + k].seq = e
      BY <1>6 DEF OneEvent
    <3>2. ASSUME NEW p \in i..m
          PROVE  q[p].seq = e
      <4>1. PICK k : k = p - n
        OBVIOUS
      <4>2. k \in 1..Len(b) /\ n + k = p
        BY <1>1, <1>2, <2>1, <4>1
      <4>. QED BY <3>1, <4>2
    <3>. QED BY <3>2
  <2>3. Complete(d, q, i, m)
    BY <1>1, <1>2, <1>6, <2>1, <2>2 DEF Complete
  <2>4. ASSUME NEW k \in i..(m - 1)
        PROVE  ~Complete(d, q, i, k)
    <3>1. k \in i..m /\ k + 1 \in i..m /\ k # Len(q)
      BY <1>1, <1>2, <2>1
    <3>. QED BY <1>6, <2>2, <3>1 DEF Complete
  <2>. QED BY <1>1, <1>4, <2>3, <2>4 DEF Shortest
<1>. QED BY <1>5, <1>6

\* When a round cuts nothing, nothing is complete.
LEMMA NothingComplete ==
    ASSUME NEW d, Accepted(d), NEW q \in Seq(InputBytes), NEW b \in Payload, NEW n \in Nat,
           n + Len(b) = Len(q), Follows(q, n, b),
           LengthRejected(d, b) \/ FrameSpan(d, b) = 0
    PROVE  /\ \A j \in (n + 1)..Len(q) : ~Complete(d, q, n + 1, j)
           /\ d.decoder = "raw" => b = <<>>
<1>1. Len(b) \in Nat /\ Len(q) \in Nat
    BY LenProperties DEF Payload
<1>2. d.decoder = "raw" => b = <<>>
  <2>. SUFFICES ASSUME d.decoder = "raw" PROVE b = <<>>
      OBVIOUS
  <2>1. ~LengthRejected(d, b)
    BY DEF LengthRejected
  <2>2. Len(b) = 0
    BY <2>1 DEF FrameSpan
  <2>. QED BY <2>2, EmptySeq DEF Payload
<1>3. ASSUME NEW j \in (n + 1)..Len(q)
      PROVE  ~Complete(d, q, n + 1, j)
  <2>1. CASE d.decoder = "raw"
    <3>1. Len(b) = 0
      BY <1>2, <2>1, EmptySeq
    <3>. QED BY <1>1, <1>3, <3>1
  <2>2. CASE d.decoder # "raw"
    <3>1. Begins(Bytes(q, n + 1, j), b) /\ Bytes(q, n + 1, j) # <<>>
      BY BufferBegins
    <3>2. IsFrame(d, Bytes(q, n + 1, j)) => ~LengthRejected(d, b) /\ 0 < FrameSpan(d, b)
      BY <2>2, <3>1, SpanIsFrame
    <3>. QED BY <2>2, <3>2 DEF Complete
  <2>. QED BY <2>1, <2>2
<1>. QED BY <1>2, <1>3

-----------------------------------------------------------------------------
(***************************************************************************)
(* What is cut stays cut when the stream goes on.                          *)
(***************************************************************************)
\* The stream r is q and what came in other events than q's.
GoesOn(q, r) ==
    /\ r \in Seq(InputBytes) /\ Len(q) <= Len(r)
    /\ \A p \in 1..Len(q) : r[p] = q[p]
    /\ \A p \in 1..Len(q) : \A k \in (Len(q) + 1)..Len(r) : r[k].seq # q[p].seq

LEMMA CompleteStays ==
    ASSUME NEW d, NEW q \in Seq(InputBytes), NEW r, GoesOn(q, r),
           NEW i \in Nat \ {0}, NEW j \in i..Len(q)
    PROVE  Bytes(r, i, j) = Bytes(q, i, j) /\ (Complete(d, r, i, j) <=> Complete(d, q, i, j))
<1>1. Len(q) \in Nat /\ Len(r) \in Nat /\ Len(q) <= Len(r)
    BY LenProperties DEF GoesOn
<1>2. \A p \in i..j : p \in 1..Len(q) /\ r[p] = q[p]
    BY <1>1 DEF GoesOn
<1>3. Bytes(r, i, j) = Bytes(q, i, j)
  <2>1. \A k \in 1..(j - i + 1) : i + k - 1 \in i..j
    BY <1>1
  <2>2. \A k \in 1..(j - i + 1) : r[i + k - 1] = q[i + k - 1]
    BY <1>2, <2>1
  <2>. QED BY <2>2 DEF Bytes
<1>4. ASSUME d.decoder = "raw"
      PROVE  (j = Len(r) \/ r[j + 1].seq # r[j].seq) <=> (j = Len(q) \/ q[j + 1].seq # q[j].seq)
  <2>1. j \in i..j
    BY <1>1
  <2>2. CASE j < Len(q)
    <3>1. j + 1 \in 1..Len(q) /\ j # Len(r)
      BY <1>1, <2>2
    <3>2. r[j + 1] = q[j + 1]
      BY <3>1 DEF GoesOn
    <3>. QED BY <1>2, <2>1, <2>2, <3>1, <3>2
  <2>3. CASE j = Len(q)
    <3>1. j = Len(r) \/ j + 1 \in (Len(q) + 1)..Len(r)
      BY <1>1, <2>3
    <3>2. j \in 1..Len(q)
      BY <1>2, <2>1
    <3>3. j = Len(r) \/ r[j + 1].seq # q[j].seq
      BY <3>1, <3>2 DEF GoesOn
    <3>. QED BY <1>2, <2>1, <2>3, <3>3
  <2>. QED BY <1>1, <2>2, <2>3
<1>5. (\A p \in i..j : r[p].seq = r[i].seq) <=> (\A p \in i..j : q[p].seq = q[i].seq)
  <2>1. i \in i..j
    BY <1>1
  <2>. QED BY <1>2, <2>1
<1>. QED BY <1>3, <1>4, <1>5 DEF Complete

LEMMA ShortestStays ==
    ASSUME NEW d, NEW q \in Seq(InputBytes), NEW r, GoesOn(q, r),
           NEW i \in Nat \ {0}, NEW j \in i..Len(q), Shortest(d, q, i, j)
    PROVE  Shortest(d, r, i, j)
<1>1. Complete(d, r, i, j)
    BY CompleteStays DEF Shortest
<1>2. ASSUME NEW k \in i..(j - 1)
      PROVE  ~Complete(d, r, i, k)
  <2>1. k \in i..Len(q)
    BY LenProperties
  <2>. QED BY <2>1, CompleteStays DEF Shortest
<1>. QED BY <1>1, <1>2 DEF Shortest

LEMMA BoundsAre ==
    ASSUME NEW c \in Seq(Nat)
    PROVE  /\ Len(c) \in Nat /\ DOMAIN c = 1..Len(c)
           /\ Bounds(c) \in Seq(Nat) /\ Len(Bounds(c)) = Len(c) + 1
           /\ Bounds(c)[1] = 0 /\ \A i \in 1..Len(c) : Bounds(c)[i + 1] = c[i]
           /\ Last(Bounds(c)) = Bounds(c)[Len(c) + 1]
           /\ \A i \in 1..(Len(c) + 1) : Bounds(c)[i] \in Nat
<1>1. PICK n, b : n = Len(c) /\ b = Bounds(c)
    OBVIOUS
<1>2. <<0>> \in Seq(Nat) /\ Len(<<0>>) = 1 /\ <<0>>[1] = 0
    OBVIOUS
<1>3. n \in Nat /\ DOMAIN c = 1..n
    BY <1>1, LenProperties
<1>4. /\ b \in Seq(Nat) /\ Len(b) = 1 + n
      /\ \A i \in 1..(1 + n) : b[i] = IF i <= 1 THEN <<0>>[i] ELSE c[i - 1]
    BY <1>1, <1>2, ConcatProperties DEF Bounds
<1>5. b[1] = 0
    BY <1>2, <1>3, <1>4
<1>6. \A i \in 1..n : b[i + 1] = c[i]
  <2>. TAKE i \in 1..n
  <2>1. PICK k : k = i + 1
    OBVIOUS
  <2>2. k \in 1..(1 + n) /\ ~(k <= 1) /\ k - 1 = i
    BY <1>3, <2>1
  <2>. QED BY <1>4, <2>1, <2>2
<1>7. Last(b) = b[n + 1]
    BY <1>3, <1>4 DEF Last
<1>8. \A i \in 1..(n + 1) : b[i] \in Nat
    BY <1>3, <1>4, Elements
<1>. QED BY <1>1, <1>3, <1>4, <1>5, <1>6, <1>7, <1>8

\* One more cut, and the bounds there were.
LEMMA BoundsOfAppend ==
    ASSUME NEW c \in Seq(Nat), NEW m \in Nat
    PROVE  /\ DOMAIN Append(c, m) = 1..(Len(c) + 1)
           /\ \A i \in 1..(Len(c) + 1) : Bounds(Append(c, m))[i] = Bounds(c)[i]
           /\ Bounds(Append(c, m))[(Len(c) + 1) + 1] = m
           /\ Last(Bounds(Append(c, m))) = m
<1>1. PICK n, b, e, g : n = Len(c) /\ b = Bounds(c) /\ e = Append(c, m) /\ g = Bounds(e)
    OBVIOUS
<1>2. /\ e \in Seq(Nat) /\ n \in Nat /\ Len(e) = n + 1 /\ DOMAIN e = 1..(n + 1)
      /\ e[n + 1] = m /\ \A i \in 1..n : e[i] = c[i]
    BY <1>1, AppendProperties, LenProperties
<1>3. /\ g[1] = 0 /\ \A i \in 1..(n + 1) : g[i + 1] = e[i]
      /\ Last(g) = g[(n + 1) + 1]
    BY <1>1, <1>2, BoundsAre
<1>4. b[1] = 0 /\ \A i \in 1..n : b[i + 1] = c[i]
    BY <1>1, BoundsAre
<1>5. g[(n + 1) + 1] = m
  <2>1. n + 1 \in 1..(n + 1)
    BY <1>2
  <2>. QED BY <1>2, <1>3, <2>1
<1>6. \A i \in 1..(n + 1) : g[i] = b[i]
  <2>. TAKE i \in 1..(n + 1)
  <2>1. CASE i = 1
    BY <1>3, <1>4, <2>1
  <2>2. CASE i # 1
    <3>1. PICK k : k = i - 1
      OBVIOUS
    <3>2. k \in 1..n /\ k \in 1..(n + 1) /\ k + 1 = i
      BY <1>2, <2>2, <3>1
    <3>3. g[k + 1] = e[k] /\ b[k + 1] = c[k] /\ e[k] = c[k]
      BY <1>2, <1>3, <1>4, <3>2
    <3>. QED BY <3>2, <3>3
  <2>. QED BY <2>1, <2>2
<1>. QED BY <1>1, <1>2, <1>3, <1>5, <1>6

\* The bounds of a stream that is divided as it should be are within what is taken.
LEMMA DividedAt ==
    ASSUME NEW d, NEW q, NEW n \in Nat, NEW c \in Seq(Nat), Divides(d, q, n, c),
           NEW i \in DOMAIN c
    PROVE  /\ Bounds(c)[i] \in Nat /\ Bounds(c)[i + 1] \in Nat
           /\ Bounds(c)[i] < Bounds(c)[i + 1] /\ Bounds(c)[i + 1] <= n
           /\ Shortest(d, q, Bounds(c)[i] + 1, Bounds(c)[i + 1])
<1>1. Len(c) \in Nat /\ DOMAIN c = 1..Len(c) /\ \A k \in 1..(Len(c) + 1) : Bounds(c)[k] \in Nat
    BY BoundsAre
<1>2. i \in 1..(Len(c) + 1) /\ i + 1 \in 1..(Len(c) + 1)
    BY <1>1
<1>. QED BY <1>1, <1>2 DEF Divides

LEMMA StaysDivided ==
    ASSUME NEW d, NEW q \in Seq(InputBytes), NEW r, GoesOn(q, r),
           NEW n \in Nat, n <= Len(q), NEW c \in Seq(Nat), Divides(d, q, n, c)
    PROVE  Divides(d, r, n, c) /\ \A f : CutFrom(d, q, c, f) => CutFrom(d, r, c, f)
<1>1. ASSUME NEW i \in DOMAIN c
      PROVE  /\ Shortest(d, r, Bounds(c)[i] + 1, Bounds(c)[i + 1])
             /\ Bytes(r, Bounds(c)[i] + 1, Bounds(c)[i + 1])
                  = Bytes(q, Bounds(c)[i] + 1, Bounds(c)[i + 1])
  <2>1. PICK k, j : k = Bounds(c)[i] + 1 /\ j = Bounds(c)[i + 1]
    OBVIOUS
  <2>2. k \in Nat \ {0} /\ j \in k..Len(q) /\ Shortest(d, q, k, j)
    <3>1. Len(q) \in Nat
      BY LenProperties
    <3>2. /\ Bounds(c)[i] \in Nat /\ j \in Nat /\ Bounds(c)[i] < j /\ j <= n
          /\ Shortest(d, q, k, j)
      BY <2>1, DividedAt
    <3>. QED BY SMTT(20), <2>1, <3>1, <3>2
  <2>3. Shortest(d, r, k, j)
    BY <2>2, ShortestStays
  <2>4. Bytes(r, k, j) = Bytes(q, k, j)
    BY <2>2, CompleteStays
  <2>. QED BY <2>1, <2>3, <2>4
<1>2. Divides(d, r, n, c)
    BY <1>1 DEF Divides
<1>3. ASSUME NEW f, CutFrom(d, q, c, f)
      PROVE  CutFrom(d, r, c, f)
  <2>1. PICK i \in DOMAIN c : f.first = Bounds(c)[i] + 1 /\ f.last = Bounds(c)[i + 1]
    BY <1>3 DEF CutFrom
  <2>2. Bytes(r, f.first, f.last) = Bytes(q, f.first, f.last)
    BY <1>1, <2>1
  <2>. QED BY <1>3, <2>2 DEF CutFrom
<1>. QED BY <1>2, <1>3

\* One more cut, of what a reader of the whole stream would cut next.
LEMMA OneMoreCut ==
    ASSUME NEW d, NEW q, NEW n \in Nat, NEW c \in Seq(Nat), Divides(d, q, n, c),
           NEW m \in Nat, n < m, Shortest(d, q, n + 1, m)
    PROVE  /\ Divides(d, q, m, Append(c, m))
           /\ \A f : CutFrom(d, q, c, f) => CutFrom(d, q, Append(c, m), f)
           /\ \A f : f.first = n + 1 /\ f.last = m /\ Carries(d, f.payload, Bytes(q, n + 1, m))
                     => CutFrom(d, q, Append(c, m), f)
<1>1. PICK l, e : l = Len(c) /\ e = Append(c, m)
    OBVIOUS
<1>2. /\ l \in Nat /\ DOMAIN c = 1..l /\ DOMAIN e = 1..(l + 1)
      /\ Last(Bounds(c)) = Bounds(c)[l + 1]
    BY <1>1, BoundsAre, BoundsOfAppend
<1>3. /\ \A i \in 1..(l + 1) : Bounds(e)[i] = Bounds(c)[i]
      /\ Bounds(e)[(l + 1) + 1] = m /\ Last(Bounds(e)) = m
    BY <1>1, BoundsOfAppend
<1>4. Bounds(e)[l + 1] = n
  <2>1. l + 1 \in 1..(l + 1)
    BY <1>2
  <2>. QED BY <1>2, <1>3, <2>1 DEF Divides
<1>5. \A i \in 1..l : i \in DOMAIN e /\ Bounds(e)[i] = Bounds(c)[i]
                      /\ Bounds(e)[i + 1] = Bounds(c)[i + 1]
  <2>1. \A i \in 1..l : i \in 1..(l + 1) /\ i + 1 \in 1..(l + 1)
    BY <1>2
  <2>. QED BY <1>2, <1>3, <2>1
<1>6. ASSUME NEW i \in DOMAIN e
      PROVE  /\ Bounds(e)[i] < Bounds(e)[i + 1] /\ Bounds(e)[i + 1] <= m
             /\ Shortest(d, q, Bounds(e)[i] + 1, Bounds(e)[i + 1])
  <2>1. i \in 1..l \/ i = l + 1
    BY <1>2
  <2>2. CASE i = l + 1
    BY <1>3, <1>4, <2>2
  <2>3. CASE i \in 1..l
    <3>1. PICK x, y : x = Bounds(c)[i] /\ y = Bounds(c)[i + 1]
      OBVIOUS
    <3>2. x \in Nat /\ y \in Nat /\ x < y /\ y <= n /\ Shortest(d, q, x + 1, y)
      BY <1>2, <2>3, <3>1, DividedAt
    <3>3. y <= m
      BY <3>2
    <3>. QED BY <1>5, <2>3, <3>1, <3>2, <3>3
  <2>. QED BY <2>1, <2>2, <2>3
<1>7. Divides(d, q, m, e)
    BY <1>3, <1>6 DEF Divides
<1>8. ASSUME NEW f, CutFrom(d, q, c, f)
      PROVE  CutFrom(d, q, e, f)
    BY <1>2, <1>5, <1>8 DEF CutFrom
<1>9. ASSUME NEW f, f.first = n + 1, f.last = m, Carries(d, f.payload, Bytes(q, n + 1, m))
      PROVE  CutFrom(d, q, e, f)
  <2>1. l + 1 \in DOMAIN e
    BY <1>2
  <2>2. \E i \in DOMAIN e : f.first = Bounds(e)[i] + 1 /\ f.last = Bounds(e)[i + 1]
    BY <1>3, <1>4, <1>9, <2>1
  <2>. QED BY <1>9, <2>2 DEF CutFrom
<1>. QED BY <1>1, <1>7, <1>8, <1>9

-----------------------------------------------------------------------------
(***************************************************************************)
(* Every event is fed once.                                                *)
(***************************************************************************)
LEMMA NumbersOfBytes ==
    ASSUME TypeOK, Control
    PROVE  /\ \A s \in Streams : \A p \in 1..Len(input[s]) : input[s][p].seq \in Nat
           /\ \A u \in Callers : pc[u] \in {"sink", "lock"} => event[u].seq \in Nat
<1>1. \A s \in Streams : \A p \in 1..Len(input[s]) : input[s][p] \in InputBytes
    BY Elements DEF TypeOK
<1>2. \A u \in Callers : pc[u] \in {"sink", "lock"} => event[u] # NoEvent
    BY EventFields DEF Control
<1>. QED BY <1>1, <1>2, EventOf DEF InputBytes

LEMMA FedOnceStays ==
    ASSUME TypeOK, Control, FedOnce, input' = input, event' = event,
           counter' = counter \/ counter' = counter + 1,
           \A u \in Callers : pc'[u] \in {"sink", "lock"} => pc[u] \in {"sink", "lock"}
    PROVE  FedOnce'
<1>1. \A n \in Nat : n < counter => n < counter'
    BY DEF TypeOK
<1>2. \A s \in Streams : \A p \in 1..Len(input[s]) : input[s][p].seq < counter'
    BY <1>1, NumbersOfBytes DEF FedOnce
<1>3. \A u \in Callers : pc'[u] \in {"sink", "lock"} => event[u].seq < counter'
    BY <1>1, NumbersOfBytes DEF FedOnce
<1>. QED BY <1>2, <1>3 DEF FedOnce

LEMMA MakeFedOnce ==
    ASSUME TypeOK, Control, FedOnce, NEW t \in Callers, NEW s \in Streams, MakeEvent(t, s)
    PROVE  FedOnce'
<1>1. event'[t].seq = counter /\ \A u \in Callers \ {t} : event'[u] = event[u]
    BY DEF MakeEvent, RawEvent, StateChange, TypeOK
<1>2. input' = input /\ counter' = counter + 1 /\ counter \in Nat
    BY DEF MakeEvent, decoding, TypeOK
<1>3. \A u \in Callers \ {t} : pc'[u] = pc[u]
    BY DEF MakeEvent, Goto, TypeOK
<1>4. \A r \in Streams : \A p \in 1..Len(input[r]) :
         input[r][p].seq \in Nat /\ input[r][p].seq < counter
    BY NumbersOfBytes DEF FedOnce
<1>5. \A u \in Callers \ {t} : pc[u] \in {"sink", "lock"} =>
         event[u].seq \in Nat /\ event[u].seq < counter
    BY NumbersOfBytes DEF FedOnce
<1>6. \A r \in Streams : \A p \in 1..Len(input'[r]) : input'[r][p].seq < counter'
    BY <1>2, <1>4
<1>7. \A u \in Callers : pc'[u] \in {"sink", "lock"} =>
         /\ event'[u].seq < counter'
         /\ \A r \in Streams : \A p \in 1..Len(input'[r]) : input'[r][p].seq # event'[u].seq
  <2>1. counter < counter' /\ \A r \in Streams : \A p \in 1..Len(input[r]) : input[r][p].seq # counter
    BY <1>2, <1>4
  <2>2. \A u \in Callers \ {t} : pc[u] \in {"sink", "lock"} => event[u].seq < counter'
    BY <1>2, <1>5
  <2>. QED BY <1>1, <1>2, <1>3, <2>1, <2>2 DEF FedOnce
<1>8. \A u, v \in Callers : u # v /\ pc'[u] \in {"sink", "lock"} /\ pc'[v] \in {"sink", "lock"} =>
         event'[u].seq # event'[v].seq
  <2>1. \A u \in Callers \ {t} : pc[u] \in {"sink", "lock"} => event[u].seq # counter
    BY <1>2, <1>5
  <2>. QED BY <1>1, <1>3, <2>1 DEF FedOnce
<1>. QED BY <1>6, <1>7, <1>8 DEF FedOnce

LEMMA FeedFedOnce ==
    ASSUME TypeOK, Control, FedOnce, NEW t \in Callers, FeedDecoder(t)
    PROVE  FedOnce' /\ \A s \in Streams : GoesOn(input[s], input'[s])
<1>0. PICK s, n : s = event[t].stream /\ n = event[t].seq
    OBVIOUS
<1>1. /\ s \in Streams /\ input' \in [Streams -> Seq(InputBytes)]
      /\ \A r \in Streams \ {s} : input'[r] = input[r]
    BY <1>0, FedBytes
<1>2. \A r \in Streams : /\ Len(input[r]) \in Nat /\ Len(input'[r]) \in Nat
                         /\ Len(input[r]) <= Len(input'[r])
                         /\ \A p \in 1..Len(input[r]) : input'[r][p] = input[r][p]
    BY InputGrows DEF Consume
<1>3. \A p \in (Len(input[s]) + 1)..Len(input'[s]) : input'[s][p].seq = n
    BY <1>0, FedBytes, ZenonT(30)
<1>4. \A r \in Streams : \A p \in (Len(input[r]) + 1)..Len(input'[r]) : input'[r][p].seq = n
  <2>. TAKE r \in Streams
  <2>1. CASE r = s
    BY <1>3, <2>1
  <2>2. CASE r # s
    <3>1. input'[r] = input[r]
      BY <1>1, <2>2
    <3>. QED BY <1>2, <3>1
  <2>. QED BY <2>1, <2>2
<1>5. pc[t] = "lock" /\ event' = event /\ counter' = counter
    BY DEF FeedDecoder, session
<1>6. n < counter /\ \A r \in Streams : \A p \in 1..Len(input[r]) : input[r][p].seq # n
    BY <1>0, <1>5 DEF FedOnce
<1>7. \A r \in Streams : GoesOn(input[r], input'[r])
    BY <1>1, <1>2, <1>4, <1>6 DEF GoesOn
<1>8. \A r \in Streams : \A p \in 1..Len(input'[r]) :
         p \in 1..Len(input[r]) \/ p \in (Len(input[r]) + 1)..Len(input'[r])
    BY <1>2
<1>9. \A r \in Streams : \A p \in 1..Len(input'[r]) :
         input'[r][p].seq = n \/ \E k \in 1..Len(input[r]) : input'[r][p].seq = input[r][k].seq
    BY <1>2, <1>4, <1>8
<1>10. \A r \in Streams : \A p \in 1..Len(input'[r]) : input'[r][p].seq < counter'
    BY <1>5, <1>6, <1>9 DEF FedOnce
<1>11. \A u \in Callers : pc'[u] \in {"sink", "lock"} => u # t /\ pc[u] \in {"sink", "lock"}
    BY DEF FeedDecoder, Goto, TypeOK
<1>12. \A u \in Callers : pc'[u] \in {"sink", "lock"} =>
          /\ event'[u].seq < counter'
          /\ \A r \in Streams : \A p \in 1..Len(input'[r]) : input'[r][p].seq # event'[u].seq
  <2>1. \A u \in Callers : pc'[u] \in {"sink", "lock"} => event[u].seq # n
    BY <1>0, <1>5, <1>11 DEF FedOnce
  <2>. QED BY <1>5, <1>9, <1>11, <2>1 DEF FedOnce
<1>13. \A u, v \in Callers : u # v /\ pc'[u] \in {"sink", "lock"} /\ pc'[v] \in {"sink", "lock"} =>
          event'[u].seq # event'[v].seq
    BY <1>5, <1>11 DEF FedOnce
<1>. QED BY <1>7, <1>10, <1>12, <1>13 DEF FedOnce

LEMMA ConsumeFedOnce ==
    ASSUME TypeOK, Control, FedOnce, NEW t \in Callers, Consume(t)
    PROVE  FedOnce'
<1>1. CASE FeedDecoder(t)
    BY <1>1, FeedFedOnce
<1>2. CASE ~FeedDecoder(t)
  <2>1. input' = input /\ event' = event /\ (counter' = counter \/ counter' = counter + 1)
    BY <1>2 DEF Consume, SinkEvent, ExtractFrame, DecoderReturned, DecoderThrew,
                MakeFrameEvent, LeaveDecoder, SinkDerived, session, decoding
  <2>2. \A u \in Callers : pc'[u] \in {"sink", "lock"} => pc[u] \in {"sink", "lock"}
    BY <1>2 DEF Consume, SinkEvent, ExtractFrame, DecoderReturned, DecoderThrew,
                MakeFrameEvent, LeaveDecoder, SinkDerived, Goto, TypeOK
  <2>. QED BY <2>1, <2>2, FedOnceStays
<1>. QED BY <1>1, <1>2

-----------------------------------------------------------------------------
(***************************************************************************)
(* The steps that leave the streams and the buffers as they are.           *)
(***************************************************************************)
LEMMA BufferOf ==
    ASSUME TypeOK, Control, BuffersTheRest, NEW s \in Streams
    PROVE  /\ input[s] \in Seq(InputBytes) /\ buffer[s] \in Payload /\ cuts[s] \in Seq(Nat)
           /\ Taken(s) \in Nat /\ Taken(s) + Len(buffer[s]) = Len(input[s])
           /\ Taken(s) <= Len(input[s])
           /\ Follows(input[s], Taken(s), buffer[s])
           /\ Accepted(decoder)
<1>1. /\ Taken(s) \in Nat /\ Len(buffer[s]) \in Nat /\ Len(input[s]) \in Nat
      /\ Taken(s) + Len(buffer[s]) = Len(input[s])
    BY BufferIsWithin
<1>. QED BY <1>1, SettingsAreAccepted DEF TypeOK, BuffersTheRest

LEMMA StreamsStay ==
    ASSUME TypeOK, Control, BuffersTheRest, RawKeepsNothing, CutsDivide, NothingIsLeft,
           UNCHANGED <<decoder, input, buffer, cuts>>,
           \A u \in Callers : \A s \in Streams : Decoding(u, s)' =>
              Decoding(u, s) /\ event'[u] = event[u],
           \A u \in Callers : \A s \in Streams : Decoding(u, s) /\ ~Decoding(u, s)' =>
              LengthRejected(decoder, buffer[s]) \/ FrameSpan(decoder, buffer[s]) = 0
    PROVE  BuffersTheRest' /\ RawKeepsNothing' /\ CutsDivide' /\ NothingIsLeft'
<1>1. \A s \in Streams : Taken(s)' = Taken(s)
    BY DEF Taken
<1>2. BuffersTheRest' /\ CutsDivide'
    BY <1>1 DEF BuffersTheRest, CutsDivide
<1>3. ASSUME NEW s \in Streams, \A u \in Callers : ~Decoding(u, s)'
      PROVE  /\ decoder.decoder = "raw" => buffer[s] = <<>>
             /\ \A j \in (Taken(s) + 1)..Len(input[s]) :
                   ~Complete(decoder, input[s], Taken(s) + 1, j)
  <2>1. CASE \A u \in Callers : ~Decoding(u, s)
    BY <2>1 DEF RawKeepsNothing, NothingIsLeft
  <2>2. CASE LengthRejected(decoder, buffer[s]) \/ FrameSpan(decoder, buffer[s]) = 0
    BY <2>2, BufferOf, NothingComplete
  <2>. QED BY <1>3, <2>1, <2>2
<1>4. NothingIsLeft'
    BY <1>1, <1>3 DEF NothingIsLeft
<1>5. RawKeepsNothing'
    BY <1>1, <1>3 DEF RawKeepsNothing
<1>. QED BY <1>2, <1>4, <1>5

\* Where no caller starts or ends a round of its decoder.
LEMMA FramesStay ==
    ASSUME FramesAreCut, UNCHANGED <<decoder, input, cuts>>,
           \A s : \A e \in HeldFrames(s)' : s \in Streams =>
              CutFrom(decoder, input[s], cuts[s], e),
           \A u \in Callers : \A k \in DOMAIN result'[u] : \E l \in DOMAIN result[u] :
              result'[u][k] = result[u][l] /\ event'[u] = event[u]
    PROVE  FramesAreCut'
<1>1. \A s \in Streams : \A e \in HeldFrames(s)' : CutFrom(decoder, input[s], cuts[s], e)
    OBVIOUS
<1>2. ASSUME NEW u \in Callers, NEW k \in DOMAIN result'[u], NEW s, s = event'[u].stream
      PROVE  CutFrom(decoder, input[s], cuts[s], result'[u][k])
  <2>1. PICK l \in DOMAIN result[u] : result'[u][k] = result[u][l] /\ event'[u] = event[u]
    OBVIOUS
  <2>. QED BY <1>2, <2>1 DEF FramesAreCut
<1>. QED BY <1>1, <1>2 DEF FramesAreCut

Framing == BuffersTheRest /\ RawKeepsNothing /\ CutsDivide /\ NothingIsLeft /\ FramesAreCut

\* The steps that derive nothing either.
LEMMA RestFraming ==
    ASSUME TypeOK, Control, Framing, NEW t \in Callers,
           \/ SinkEvent(t) \/ DecoderReturned(t) \/ LeaveDecoder(t) \/ SinkDerived(t)
           \/ \E s \in Streams : MakeEvent(t, s)
    PROVE  Framing'
<1>1. UNCHANGED <<decoder, input, buffer, cuts, result>>
    BY DEF SinkEvent, DecoderReturned, LeaveDecoder, SinkDerived, MakeEvent, session, decoding
<1>2. \A s : HeldFrames(s)' = HeldFrames(s)
    BY HeldStays DEF HeldFrames
<1>3. \A u \in Callers : Inside(u) => event'[u] = event[u]
    BY DEF SinkEvent, DecoderReturned, LeaveDecoder, SinkDerived, MakeEvent, session, Inside, TypeOK
<1>4. \A u \in Callers : pc'[u] = "decode" => pc[u] = "decode"
    BY DEF SinkEvent, DecoderReturned, LeaveDecoder, SinkDerived, MakeEvent, Goto, TypeOK
<1>5. \A u \in Callers : pc[u] = "decode" /\ pc'[u] # "decode" =>
         FrameSpan(decoder, buffer[event[u].stream]) = 0
    BY DEF SinkEvent, DecoderReturned, LeaveDecoder, SinkDerived, MakeEvent, Goto, TypeOK
<1>6. \A u \in Callers : \A s \in Streams : Decoding(u, s)' => Decoding(u, s) /\ event'[u] = event[u]
    BY <1>3, <1>4 DEF Decoding, Inside
<1>7. \A u \in Callers : \A s \in Streams : Decoding(u, s) /\ ~Decoding(u, s)' =>
         LengthRejected(decoder, buffer[s]) \/ FrameSpan(decoder, buffer[s]) = 0
    BY <1>3, <1>5 DEF Decoding, Inside
<1>8. FramesAreCut'
  <2>1. \A u \in Callers : \A k \in DOMAIN result[u] : Inside(u)
    BY EmptySeq DEF Control
  <2>2. \A s : \A e \in HeldFrames(s)' : s \in Streams => CutFrom(decoder, input[s], cuts[s], e)
    BY <1>2 DEF Framing, FramesAreCut
  <2>. QED BY <1>1, <1>3, <2>1, <2>2, FramesStay DEF Framing
<1>. QED BY <1>1, <1>6, <1>7, <1>8, StreamsStay DEF Framing

LEMMA ThrewFraming ==
    ASSUME TypeOK, Control, Framing, NEW t \in Callers, DecoderThrew(t)
    PROVE  Framing'
<1>1. UNCHANGED <<decoder, input, buffer, cuts>> /\ event' = event
    BY DEF DecoderThrew, session
<1>2. \A r : HeldFrames(r)' = HeldFrames(r)
  <2>1. PICK e \in DerivedEvents :
           /\ e.type = "error"
           /\ e = DecoderError(counter, event[t], contributors[event[t].stream])
    BY ThrewFacts DEF DerivedEvents
  <2>. QED BY <2>1, HeldGrows DEF HeldFrames
<1>3. \A u \in Callers : \A k \in DOMAIN result'[u] : FALSE
  <2>1. Inside(t)
    BY DEF DecoderThrew, Inside
  <2>2. \A u \in Callers : result'[u] = <<>>
    BY <2>1, OnlyOneCuts DEF TypeOK, DecoderThrew
  <2>. QED BY <2>2, EmptySeq
<1>4. \A u \in Callers \ {t} : pc'[u] = pc[u]
    BY DEF DecoderThrew, Goto, TypeOK
<1>5. pc'[t] = "derived" /\ LengthRejected(decoder, buffer[event[t].stream])
    BY DEF DecoderThrew, Goto, TypeOK
<1>6. \A u \in Callers : \A s \in Streams : Decoding(u, s)' => Decoding(u, s) /\ event'[u] = event[u]
    BY <1>1, <1>4, <1>5 DEF Decoding
<1>7. \A u \in Callers : \A s \in Streams : Decoding(u, s) /\ ~Decoding(u, s)' =>
         LengthRejected(decoder, buffer[s]) \/ FrameSpan(decoder, buffer[s]) = 0
    BY <1>1, <1>4, <1>5 DEF Decoding
<1>8. \A s : \A e \in HeldFrames(s)' : s \in Streams => CutFrom(decoder, input[s], cuts[s], e)
    BY <1>2 DEF Framing, FramesAreCut
<1>9. FramesAreCut'
    BY <1>1, <1>3, <1>8, FramesStay DEF Framing
<1>. QED BY <1>1, <1>6, <1>7, <1>9, StreamsStay DEF Framing

LEMMA MakeFrameFraming ==
    ASSUME TypeOK, Control, Framing, NEW t \in Callers, MakeFrameEvent(t)
    PROVE  Framing'
<1>0. PICK s, f : s = event[t].stream /\ f = Head(result[t])
    OBVIOUS
<1>1. PICK e \in DerivedEvents :
         /\ e = FrameEvent(counter, event[t], contributors[s], f)
         /\ e.type = "frame" /\ e.stream = s
         /\ e.first = f.first /\ e.last = f.last /\ e.payload = f.payload
    BY <1>0, MakeFrameFacts DEF DerivedEvents
<1>2. s \in Streams
    BY <1>0, MakeFrameFacts
<1>3. UNCHANGED <<decoder, input, buffer, cuts>> /\ event' = event /\ pc' = pc
    BY DEF MakeFrameEvent, session
<1>4. /\ 1 \in DOMAIN result[t] /\ f = result[t][1]
      /\ \A k \in DOMAIN result'[t] :
            k + 1 \in DOMAIN result[t] /\ result'[t][k] = result[t][k + 1]
  <2>1. result[t] # <<>> /\ result[t] \in Seq(CutFrames) /\ result'[t] = Tail(result[t])
    BY DEF MakeFrameEvent, TypeOK
  <2>. QED BY <1>0, <2>1, TailFacts
<1>5. CutFrom(decoder, input[s], cuts[s], f)
    BY <1>0, <1>4 DEF Framing, FramesAreCut
<1>6. CutFrom(decoder, input[s], cuts[s], e)
    BY <1>1, <1>5 DEF CutFrom
<1>7. \A r, x : x \in HeldFrames(r)' <=> x \in HeldFrames(r) \/ (x = e /\ s = r)
    BY <1>0, <1>1, HeldGrows DEF HeldFrames
<1>8. \A r : \A x \in HeldFrames(r)' : r \in Streams => CutFrom(decoder, input[r], cuts[r], x)
    BY <1>6, <1>7 DEF Framing, FramesAreCut
<1>9. \A u \in Callers : \A k \in DOMAIN result'[u] : \E l \in DOMAIN result[u] :
         result'[u][k] = result[u][l] /\ event'[u] = event[u]
  <2>1. \A u \in Callers \ {t} : result'[u] = result[u]
    BY DEF MakeFrameEvent, TypeOK
  <2>. QED BY <1>3, <1>4, <2>1
<1>10. FramesAreCut'
    BY <1>3, <1>8, <1>9, FramesStay DEF Framing
<1>11. \A u \in Callers : \A r \in Streams : Decoding(u, r)' <=> Decoding(u, r)
    BY <1>3 DEF Decoding
<1>. QED BY <1>3, <1>10, <1>11, StreamsStay DEF Framing

-----------------------------------------------------------------------------
(***************************************************************************)
(* A stream goes on, and is cut.                                           *)
(***************************************************************************)
LEMMA FeedFraming ==
    ASSUME TypeOK, Control, Numbering, FedOnce, Framing, NEW t \in Callers, FeedDecoder(t)
    PROVE  Framing'
<1>0. PICK s : s = event[t].stream
    OBVIOUS
<1>1. /\ s \in Streams /\ event[t] \in RawEvents
      /\ \A r \in Streams : Taken(r)' = Taken(r)
    BY <1>0, FeedFacts
<1>2. UNCHANGED <<decoder, cuts, result>> /\ event' = event
    BY DEF FeedDecoder, session
<1>3. \A r \in Streams : GoesOn(input[r], input'[r])
    BY FeedFedOnce
<1>4. \A u \in Callers : ~Inside(u) /\ pc[u] # "decode"
    BY CallerAssumption DEF FeedDecoder, Control, Inside
<1>5. pc'[t] = "decode" /\ \A u \in Callers \ {t} : pc'[u] # "decode"
    BY <1>4 DEF FeedDecoder, Goto, TypeOK
<1>6. \A r \in Streams : /\ Divides(decoder, input'[r], Taken(r), cuts[r])
                         /\ \A f : CutFrom(decoder, input[r], cuts[r], f) =>
                                      CutFrom(decoder, input'[r], cuts[r], f)
    BY <1>3, BufferOf, StaysDivided DEF Framing, CutsDivide
<1>7. CutsDivide'
    BY <1>1, <1>2, <1>6 DEF CutsDivide
<1>8. FramesAreCut'
  <2>1. \A r : HeldFrames(r)' = HeldFrames(r)
    BY HeldStays DEF HeldFrames
  <2>2. \A u \in Callers : \A k \in DOMAIN result[u] : FALSE
    BY <1>4, NothingCut
  <2>. QED BY <1>2, <1>6, <2>1, <2>2 DEF Framing, FramesAreCut
<1>9. \A r \in Streams \ {s} : buffer'[r] = buffer[r] /\ input'[r] = input[r]
    BY <1>0, <1>1 DEF FeedDecoder, TypeOK
<1>10. PICK b, n, m, k : /\ b = buffer[s] /\ n = Taken(s) /\ m = Len(b)
                         /\ k = Len(event[t].payload)
    OBVIOUS
<1>11. /\ n \in Nat /\ m \in Nat /\ k \in Nat /\ n + m = Len(input[s])
       /\ b \in Payload /\ event[t].payload \in Payload
  <2>1. /\ Taken(s) \in Nat /\ Len(buffer[s]) \in Nat /\ Taken(s) + Len(buffer[s]) = Len(input[s])
    BY <1>1, BufferIsWithin
  <2>2. event[t].payload \in Payload /\ buffer[s] \in Payload
    BY <1>1, EventFields DEF TypeOK
  <2>. QED BY <1>10, <2>1, <2>2, LenProperties DEF Payload
<1>12. buffer'[s] = b \o event[t].payload
  <2>1. buffer' = [buffer EXCEPT ![s] = buffer[s] \o event[t].payload]
    BY <1>0, FeedFacts
  <2>. QED BY <1>1, <1>10, <2>1 DEF TypeOK
<1>13. /\ Len(buffer'[s]) = m + k
       /\ \A i \in 1..m : buffer'[s][i] = b[i]
       /\ \A i \in 1..k : buffer'[s][m + i] = event[t].payload[i]
  <2>1. PICK pl : pl = event[t].payload
    OBVIOUS
  <2>2. /\ Len(b \o pl) = Len(b) + Len(pl)
        /\ \A i \in 1..Len(b) : (b \o pl)[i] = b[i]
        /\ \A i \in 1..Len(pl) : (b \o pl)[Len(b) + i] = pl[i]
    BY <1>11, <2>1, PayloadConcat, Zenon
  <2>. QED BY <1>10, <1>12, <2>1, <2>2, Zenon
<1>14. /\ \A i \in 1..k : input'[s][(n + m) + i].byte = event[t].payload[i]
       /\ Len(input'[s]) = (n + m) + k
  <2>1. PICK l, y : l = Len(input[s]) /\ y = input'[s]
    OBVIOUS
  <2>2. Len(y) = l + k
    BY <1>0, <1>10, <2>1, FedBytes
  <2>3. \A p \in (l + 1)..Len(y) : y[p].byte = event[t].payload[p - l]
    <3>1. \A p \in (Len(input[s]) + 1)..Len(input'[s]) :
             input'[s][p].byte = event[t].payload[p - Len(input[s])]
      BY <1>0, FedPayload, Zenon
    <3>. QED BY <2>1, <3>1, Zenon
  <2>4. ASSUME NEW i \in 1..k
        PROVE  y[l + i].byte = event[t].payload[i]
    <3>1. PICK p : p = l + i
      OBVIOUS
    <3>2. p \in (l + 1)..Len(y) /\ p - l = i
      BY <1>11, <2>1, <2>2, <3>1
    <3>. QED BY <2>3, <3>1, <3>2
  <2>. QED BY <1>11, <2>1, <2>2, <2>4
<1>15. BuffersTheRest'
  <2>1. \A i \in 1..(m + k) : buffer'[s][i] = input'[s][n + i].byte
    <3>. TAKE i \in 1..(m + k)
    <3>1. CASE i <= m
      <4>1. i \in 1..m /\ n + i \in 1..Len(input[s])
        BY <1>11, <3>1
      <4>2. b[i] = input[s][n + i].byte
        BY <1>1, <1>10, <4>1 DEF Framing, BuffersTheRest, Follows
      <4>3. input'[s][n + i] = input[s][n + i]
        BY <1>1, <1>3, <4>1 DEF GoesOn
      <4>. QED BY <1>13, <4>1, <4>2, <4>3
    <3>2. CASE m < i
      <4>1. PICK j : j = i - m
        OBVIOUS
      <4>2. j \in 1..k /\ m + j = i /\ (n + m) + j = n + i
        BY <1>11, <3>2, <4>1
      <4>. QED BY <1>13, <1>14, <4>2
    <3>. QED BY <1>11, <3>1, <3>2
  <2>2. Follows(input'[s], n, buffer'[s])
    BY <1>13, <2>1 DEF Follows
  <2>3. \A r \in Streams \ {s} : Follows(input'[r], Taken(r), buffer'[r])
    BY <1>9 DEF Framing, BuffersTheRest
  <2>. QED BY <1>1, <1>10, <2>2, <2>3 DEF BuffersTheRest
<1>16. \A r \in Streams \ {s} : \A u \in Callers : ~Decoding(u, r) /\ ~Decoding(u, r)'
    BY <1>0, <1>2, <1>4, <1>5 DEF Decoding
<1>17. \A r \in Streams : \A u \in Callers : ~Decoding(u, r)
    BY <1>4 DEF Decoding
<1>18. Decoding(t, s)' /\ \A u \in Callers : Decoding(u, s)' => u = t
    BY <1>0, <1>2, <1>5 DEF Decoding
<1>19. NothingIsLeft'
  <2>1. \A r \in Streams : (\A u \in Callers : ~Decoding(u, r)') => r # s
    BY <1>18
  <2>. QED BY <1>1, <1>2, <1>9, <1>17, <2>1 DEF Framing, NothingIsLeft
<1>20. RawKeepsNothing'
  <2>. SUFFICES ASSUME decoder.decoder = "raw"
                PROVE  RawKeepsNothing'
      BY <1>2 DEF RawKeepsNothing
  <2>1. \A r \in Streams : buffer[r] = <<>>
    BY <1>17 DEF Framing, RawKeepsNothing
  <2>2. m = 0
    BY <1>1, <1>10, <2>1, EmptySeq
  <2>3. \A i \in 1..Len(buffer'[s]) : input'[s][Taken(s) + i].seq = event[t].seq
    <3>1. \A p \in (Len(input[s]) + 1)..Len(input'[s]) : input'[s][p].seq = event[t].seq
      BY <1>0, FedBytes, ZenonT(30)
    <3>2. \A i \in 1..k : n + i \in (Len(input[s]) + 1)..Len(input'[s])
      BY <1>11, <1>14, <2>2
    <3>. QED BY <1>10, <1>11, <1>13, <2>2, <3>1, <3>2
  <2>4. \A r \in Streams \ {s} : buffer'[r] = <<>>
    BY <1>9, <2>1
  <2>. QED BY <1>1, <1>2, <1>16, <1>18, <2>3, <2>4 DEF RawKeepsNothing
<1>. QED BY <1>7, <1>8, <1>15, <1>19, <1>20 DEF Framing

\* What a buffer keeps after a round follows what has been taken.
LEMMA DropFollows ==
    ASSUME NEW q, NEW n \in Nat, NEW b \in Payload, Follows(q, n, b),
           NEW span \in Nat, span <= Len(b), NEW taken, taken = n + span
    PROVE  /\ Drop(b, span) \in Payload /\ Len(Drop(b, span)) = Len(b) - span
           /\ Follows(q, taken, Drop(b, span))
<1>1. PICK m, l, c : m = span + 1 /\ l = Len(b) /\ c = Drop(b, span)
    OBVIOUS
<1>2. l \in Nat
    BY <1>1, LenProperties DEF Payload
<1>3. /\ c \in Payload /\ Len(c) = l + 1 - m
      /\ \A i \in 1..(l + 1 - m) : c[i] = b[m + i - 1]
    BY <1>1, <1>2, PartOf DEF Drop
<1>4. Len(c) = l - span
    BY <1>1, <1>2, <1>3
<1>5. ASSUME NEW i \in 1..Len(c)
      PROVE  c[i] = q[taken + i].byte
  <2>1. PICK k : k = m + i - 1
    OBVIOUS
  <2>2. k \in 1..l /\ n + k = taken + i
    BY <1>1, <1>2, <1>4, <2>1
  <2>3. c[i] = b[k]
    BY <1>3, <1>5, <2>1
  <2>. QED BY <1>1, <2>2, <2>3 DEF Follows
<1>. QED BY <1>1, <1>3, <1>4, <1>5 DEF Follows

LEMMA ExtractFraming ==
    ASSUME TypeOK, Control, Framing, NEW t \in Callers, ExtractFrame(t)
    PROVE  Framing'
<1>0. PICK s, span, b, q, c, n, m :
         /\ s = event[t].stream /\ span = FrameSpan(decoder, buffer[s])
         /\ b = buffer[s] /\ q = input[s] /\ c = cuts[s] /\ n = Taken(s) /\ m = n + span
    OBVIOUS
<1>1. /\ s \in Streams /\ span \in Nat \ {0} /\ span <= Len(b)
      /\ Taken(s)' = Taken(s) + span /\ \A r \in Streams \ {s} : Taken(r)' = Taken(r)
    BY <1>0, ExtractFacts
<1>2. PICK f \in CutFrames :
         /\ f.payload = FramePayload(decoder, buffer[s], span)
         /\ f.first = Taken(s) + 1 /\ f.last = Taken(s) + span
         /\ result' = [result EXCEPT ![t] = Append(result[t], f)]
    BY <1>0, ExtractFacts
<1>3. /\ UNCHANGED <<decoder, input, event, pc>> /\ pc[t] = "decode"
      /\ ~LengthRejected(decoder, b)
    BY <1>0 DEF ExtractFrame, session
<1>4. /\ q \in Seq(InputBytes) /\ b \in Payload /\ c \in Seq(Nat) /\ n \in Nat
      /\ n + Len(b) = Len(q) /\ Follows(q, n, b) /\ Accepted(decoder)
    BY <1>0, <1>1, BufferOf DEF Framing
<1>5. m \in Nat /\ n < m /\ Taken(s)' = m /\ span = FrameSpan(decoder, b)
    BY <1>0, <1>1, <1>4
<1>6. /\ buffer'[s] = Drop(b, span) /\ cuts'[s] = Append(c, m)
      /\ \A r \in Streams \ {s} : buffer'[r] = buffer[r] /\ cuts'[r] = cuts[r]
  <2>1. /\ buffer' = [buffer EXCEPT ![s] = Drop(buffer[s], span)]
        /\ cuts' = [cuts EXCEPT ![s] = Append(cuts[s], Taken(s) + span)]
    BY <1>0 DEF ExtractFrame
  <2>. QED BY <1>0, <1>1, <2>1 DEF TypeOK
<1>7. Decoding(t, s) /\ \A u \in Callers : \A r \in Streams : Decoding(u, r) <=> u = t /\ r = s
  <2>1. Inside(t) /\ \A u \in Callers \ {t} : ~Inside(u)
    BY <1>3, OnlyOneCuts DEF Inside
  <2>. QED BY <1>0, <1>3, <2>1 DEF Decoding, Inside
<1>8. \A u \in Callers : \A r \in Streams : Decoding(u, r)' <=> Decoding(u, r)
    BY <1>3 DEF Decoding
<1>9. decoder.decoder = "raw" => \A k \in 1..Len(b) : q[n + k].seq = event[t].seq
    BY <1>0, <1>1, <1>7 DEF Framing, RawKeepsNothing
<1>10. OneEvent(decoder, q, n, b)
    BY <1>9 DEF OneEvent
<1>11. /\ Shortest(decoder, q, n + 1, m)
       /\ Carries(decoder, FramePayload(decoder, b, span), Bytes(q, n + 1, m))
    BY <1>0, <1>1, <1>3, <1>4, <1>5, <1>10, RoundIsShortest
<1>12. Divides(decoder, q, n, c)
    BY <1>0, <1>1 DEF Framing, CutsDivide
<1>13. /\ Divides(decoder, q, m, Append(c, m))
       /\ \A g : CutFrom(decoder, q, c, g) => CutFrom(decoder, q, Append(c, m), g)
       /\ CutFrom(decoder, q, Append(c, m), f)
  <2>1. /\ f.first = n + 1 /\ f.last = m
        /\ Carries(decoder, f.payload, Bytes(q, n + 1, m))
    BY <1>0, <1>2, <1>11
  <2>. QED BY <1>4, <1>5, <1>11, <1>12, <2>1, OneMoreCut
<1>14. Drop(b, span) \in Payload /\ Len(Drop(b, span)) = Len(b) - span
       /\ Follows(q, m, Drop(b, span))
  <2>1. /\ n \in Nat /\ b \in Payload /\ Follows(q, n, b)
        /\ span \in Nat /\ span <= Len(b) /\ m = n + span
    BY <1>0, <1>1, <1>4
  <2>. QED BY <2>1, DropFollows
<1>15. BuffersTheRest'
  <2>1. \A r \in Streams \ {s} : Follows(input[r], Taken(r), buffer[r])
    BY DEF Framing, BuffersTheRest
  <2>. QED BY <1>0, <1>1, <1>3, <1>5, <1>6, <1>14, <2>1 DEF BuffersTheRest
<1>16. CutsDivide'
  <2>1. \A r \in Streams \ {s} : Divides(decoder, input[r], Taken(r), cuts[r])
    BY DEF Framing, CutsDivide
  <2>. QED BY <1>0, <1>1, <1>3, <1>5, <1>6, <1>13, <2>1 DEF CutsDivide
<1>17. RawKeepsNothing'
  <2>. SUFFICES ASSUME decoder.decoder = "raw"
                PROVE  RawKeepsNothing'
      BY <1>3 DEF RawKeepsNothing
  <2>1. \A r \in Streams \ {s} : buffer'[r] = <<>>
    BY <1>6, <1>7 DEF Framing, RawKeepsNothing
  <2>2. span = Len(b)
    BY <1>5 DEF FrameSpan
  <2>3. Len(buffer'[s]) = 0
    BY <1>1, <1>6, <1>14, <2>2
  <2>4. \A k \in 1..Len(buffer'[s]) : FALSE
    BY <2>3
  <2>. QED BY <1>7, <1>8, <2>1, <2>4 DEF RawKeepsNothing
<1>18. NothingIsLeft'
  <2>1. \A r \in Streams : (\A u \in Callers : ~Decoding(u, r)') =>
           r # s /\ \A u \in Callers : ~Decoding(u, r)
    BY <1>7, <1>8
  <2>. QED BY <1>1, <1>3, <2>1 DEF Framing, NothingIsLeft
<1>19. FramesAreCut'
  <2>1. \A r : HeldFrames(r)' = HeldFrames(r)
    BY HeldStays DEF HeldFrames
  <2>2. \A r \in Streams : \A g : CutFrom(decoder, input[r], cuts[r], g)
                                     => CutFrom(decoder, input[r], cuts'[r], g)
    BY <1>0, <1>6, <1>13
  <2>3. ASSUME NEW r \in Streams, NEW e \in HeldFrames(r)'
        PROVE  CutFrom(decoder, input[r], cuts'[r], e)
    BY <2>1, <2>2, <2>3 DEF Framing, FramesAreCut
  <2>4. ASSUME NEW u \in Callers, NEW k \in DOMAIN result'[u]
        PROVE  /\ u = t
               /\ \/ k \in DOMAIN result[t] /\ result'[t][k] = result[t][k]
                  \/ result'[t][k] = f
    <3>1. Inside(t)
      BY <1>3 DEF Inside
    <3>2. \A v \in Callers \ {t} : result'[v] = <<>>
      BY <1>2, <3>1, OnlyOneCuts DEF TypeOK
    <3>3. u = t
      BY <2>4, <3>2, EmptySeq
    <3>4. result'[t] = Append(result[t], f) /\ result[t] \in Seq(CutFrames)
      BY <1>2 DEF TypeOK
    <3>5. /\ Len(result[t]) \in Nat /\ DOMAIN result[t] = 1..Len(result[t])
          /\ DOMAIN result'[t] = 1..(Len(result[t]) + 1)
          /\ result'[t][Len(result[t]) + 1] = f
          /\ \A i \in DOMAIN result[t] : result'[t][i] = result[t][i]
      BY <3>4, AppendFacts
    <3>6. k \in 1..Len(result[t]) \/ k = Len(result[t]) + 1
      BY <2>4, <3>3, <3>5
    <3>. QED BY <3>3, <3>5, <3>6
  <2>5. \A u \in Callers : \A k \in DOMAIN result'[u] :
           CutFrom(decoder, input[event[u].stream], cuts'[event[u].stream], result'[u][k])
    <3>1. \A k \in DOMAIN result[t] : CutFrom(decoder, q, c, result[t][k])
      BY <1>0 DEF Framing, FramesAreCut
    <3>. QED BY <1>0, <1>6, <1>13, <2>4, <3>1
  <2>. QED BY <1>3, <2>3, <2>5 DEF FramesAreCut
<1>. QED BY <1>15, <1>16, <1>17, <1>18, <1>19 DEF Framing

LEMMA ConsumeFraming ==
    ASSUME TypeOK, Control, Numbering, FedOnce, Framing, NEW t \in Callers, Consume(t)
    PROVE  Framing'
BY RestFraming, ThrewFraming, MakeFrameFraming, FeedFraming, ExtractFraming DEF Consume

-----------------------------------------------------------------------------
(***************************************************************************)
(* The invariant.                                                          *)
(***************************************************************************)
LEMMA InitFraming ==
    ASSUME Init
    PROVE  FramingInv
<1>1. /\ log = <<>> /\ \A t \in Callers : pc[t] = "idle" /\ result[t] = <<>> /\ derived[t] = <<>>
      /\ \A s \in Streams : cuts[s] = <<>> /\ input[s] = <<>> /\ buffer[s] = <<>>
    BY DEF Init
<1>2. /\ DOMAIN log = {} /\ \A t \in Callers : DOMAIN result[t] = {} /\ DOMAIN derived[t] = {}
      /\ \A s \in Streams : /\ DOMAIN cuts[s] = {} /\ Len(input[s]) = 0 /\ Len(buffer[s]) = 0
                            /\ Taken(s) = 0
    BY <1>1, EmptySeq DEF Taken
<1>3. \A s : \A e \in Held(s) : FALSE
    BY <1>1, <1>2 DEF Held, Emitted, Range
<1>4. FedOnce
    BY <1>1, <1>2 DEF FedOnce
<1>5. BuffersTheRest
    BY <1>2 DEF BuffersTheRest, Follows
<1>6. RawKeepsNothing
    BY <1>1, <1>2 DEF RawKeepsNothing
<1>7. CutsDivide
  <2>1. PICK c : c = <<>>
    OBVIOUS
  <2>2. c \in Seq(Nat) /\ Len(c) = 0
    BY <2>1, EmptySeq
  <2>3. Last(Bounds(c)) = Bounds(c)[Len(c) + 1] /\ Bounds(c)[1] = 0
    BY <2>2, BoundsAre
  <2>4. Last(Bounds(c)) = 0
    BY <2>2, <2>3
  <2>. QED BY <1>1, <1>2, <2>1, <2>4 DEF CutsDivide, Divides
<1>8. NothingIsLeft
    BY <1>2 DEF NothingIsLeft
<1>9. FramesAreCut
    BY <1>2, <1>3 DEF FramesAreCut, HeldFrames
<1>. QED BY <1>4, <1>5, <1>6, <1>7, <1>8, <1>9 DEF FramingInv

LEMMA StutterFraming ==
    ASSUME FramingInv, UNCHANGED vars
    PROVE  FramingInv'
<1>1. /\ UNCHANGED <<work, decoder, made, event, counter, pc, mutex, buffer, contributors>>
      /\ UNCHANGED <<result, input, cuts, derived, log>>
    BY DEF vars, session, decoding
<1>2. \A s : HeldFrames(s)' = HeldFrames(s)
    BY <1>1 DEF HeldFrames, Held, Emitted
<1>3. \A s \in Streams : Taken(s)' = Taken(s)
    BY <1>1 DEF Taken
<1>4. \A t \in Callers : \A s \in Streams : Decoding(t, s)' <=> Decoding(t, s)
    BY <1>1 DEF Decoding
<1>5. FedOnce'
    BY <1>1 DEF FramingInv, FedOnce
<1>6. BuffersTheRest' /\ CutsDivide'
    BY <1>1, <1>3 DEF FramingInv, BuffersTheRest, CutsDivide
<1>7. RawKeepsNothing' /\ NothingIsLeft'
    BY <1>1, <1>3, <1>4 DEF FramingInv, RawKeepsNothing, NothingIsLeft
<1>8. FramesAreCut'
    BY <1>1, <1>2 DEF FramingInv, FramesAreCut
<1>. QED BY <1>5, <1>6, <1>7, <1>8 DEF FramingInv

LEMMA StepFraming ==
    ASSUME TypeOK, PipelineInv, FramingInv, [Next]_vars
    PROVE  FramingInv'
<1>1. Control /\ Numbering /\ FedOnce /\ Framing
    BY DEF PipelineInv, FramingInv, Framing
<1>2. FedOnce' /\ Framing' => FramingInv'
    BY DEF FramingInv, Framing
<1>3. ASSUME NEW t \in Callers, Consume(t)
      PROVE  FramingInv'
    BY <1>1, <1>2, <1>3, ConsumeFedOnce, ConsumeFraming
<1>4. ASSUME NEW t \in Callers, NEW s \in Streams, MakeEvent(t, s)
      PROVE  FramingInv'
    BY <1>1, <1>2, <1>4, MakeFedOnce, RestFraming
<1>5. ASSUME UNCHANGED vars
      PROVE  FramingInv'
    BY <1>5, StutterFraming
<1>. QED BY <1>3, <1>4, <1>5 DEF Next

\* Every state of the decoders behind consume: a buffer is what has been given
\* and not taken, the cuts are those of a reader of the whole stream, and every
\* frame that is cut, numbered or passed on is of the bytes between two of them.
THEOREM FramingInvariant == Spec => []FramingInv
<1>1. Init => FramingInv
    BY InitFraming
<1>2. TypeOK /\ PipelineInv /\ FramingInv /\ [Next]_vars => FramingInv'
    BY StepFraming
<1>. QED BY <1>1, <1>2, Invariant, PTL DEF Spec

\* However a stream is divided into events, and whichever callers bring them, it
\* is cut where a reader of all of it would cut it, each frame in the log carries
\* the bytes between two cuts, and once mutex_ is free nothing complete is left.
THEOREM FramingIsTheWholes == Spec => []FramingIsCanonical
<1>1. TypeOK /\ PipelineInv /\ FramingInv => FramingIsCanonical
  <2>. SUFFICES ASSUME TypeOK, PipelineInv, FramingInv
                PROVE  FramingIsCanonical
      OBVIOUS
  <2>1. \A s \in Streams : /\ Last(Bounds(cuts[s])) = Taken(s)
                           /\ \A i \in DOMAIN cuts[s] :
                                 Shortest(decoder, input[s], Bounds(cuts[s])[i] + 1,
                                          Bounds(cuts[s])[i + 1])
    BY DEF FramingInv, CutsDivide, Divides
  <2>2. mutex = Free => \A s \in Streams : \A t \in Callers : ~Decoding(t, s)
    BY CallerAssumption DEF PipelineInv, Control, Inside, Decoding
  <2>3. CutsAreCanonical
    BY <2>1, <2>2 DEF CutsAreCanonical, FramingInv, NothingIsLeft
  <2>4. \A s \in Streams : \A j \in Frames(s) : log[j] \in HeldFrames(s)
    <3>1. \A j \in DOMAIN log : Derived(log[j]) => log[j] \in Held(log[j].stream)
      BY DerivedIsHeld DEF PipelineInv
    <3>. QED BY <3>1 DEF Frames, HeldFrames, Derived
  <2>5. FramesCarryTheirBytes
    BY <2>4 DEF FramesCarryTheirBytes, FramingInv, FramesAreCut
  <2>. QED BY <2>3, <2>5 DEF FramingIsCanonical
<1>. QED BY <1>1, Invariant, FramingInvariant, PTL
=============================================================================
