---------------------------- MODULE FrameDecoders ----------------------------
(***************************************************************************)
(* The four frame decoders, one round of their loops at a time: what the   *)
(* front of a stream's buffer yields, how much of it is taken, and when    *)
(* the front is refused.  A buffer is a sequence of byte values.           *)
(***************************************************************************)
EXTENDS Naturals, Sequences

Raw == [decoder |-> "raw"]
Fixed(size) == [decoder |-> "fixed", frame_size |-> size]
Delimiter(bytes, included) ==
    [decoder |-> "delimiter", delimiter |-> bytes, include_delimiter |-> included]
LengthPrefix(size, little, header) ==
    [decoder |-> "length-prefix", length_size |-> size, little_endian |-> little,
     length_includes_header |-> header]

\* create_frame_decoder and the constructors throw on any other settings.
Accepted(d) ==
    \/ d.decoder = "raw"
    \/ d.decoder = "fixed" /\ d.frame_size \in Nat \ {0}
    \/ /\ d.decoder = "delimiter"
       /\ d.delimiter \in Seq(0..255) \ {<<>>} /\ d.include_delimiter \in BOOLEAN
    \/ /\ d.decoder = "length-prefix"
       /\ d.length_size \in {1, 2, 4}
       /\ d.little_endian \in BOOLEAN /\ d.length_includes_header \in BOOLEAN

\* The number that size bytes are, the most significant first.
Number(bytes, size) ==
    LET upper == bytes[1] * 256 + bytes[2] IN
    CASE size = 1 -> bytes[1]
      [] size = 2 -> upper
      [] size = 4 -> (upper * 256 + bytes[3]) * 256 + bytes[4]

\* Mutant: a little-endian length field is taken as it comes.
LengthField_BigOnly(d, buffer) == [i \in 1..d.length_size |-> buffer[i]]

LengthField(d, buffer) ==
    [i \in 1..d.length_size |->
        IF d.little_endian THEN buffer[d.length_size + 1 - i] ELSE buffer[i]]

\* (4 bytes are at most 2^32 - 1, in 64-bit arithmetic.)
ReadLength(d, buffer) == Number(LengthField(d, buffer), d.length_size)

HasHeader(d, buffer) == Len(buffer) >= d.length_size

\* A length that is meant to cover its own header but does not: consume throws.
LengthRejected(d, buffer) ==
    /\ d.decoder = "length-prefix" /\ d.length_includes_header
    /\ HasHeader(d, buffer)
    /\ ReadLength(d, buffer) < d.length_size

TotalSize(d, buffer) ==
    ReadLength(d, buffer) + (IF d.length_includes_header THEN 0 ELSE d.length_size)

\* The delimiter ends at position i of the buffer.
DelimiterEndsAt(d, buffer, i) ==
    /\ i >= Len(d.delimiter)
    /\ SubSeq(buffer, i - Len(d.delimiter) + 1, i) = d.delimiter

\* How many bytes the next frame takes off the front of the buffer; 0 when
\* no frame is complete.
FrameSpan(d, buffer) ==
    CASE d.decoder = "raw" -> Len(buffer)
      [] d.decoder = "fixed" -> IF Len(buffer) >= d.frame_size THEN d.frame_size ELSE 0
      [] d.decoder = "delimiter" ->
            LET ends == {i \in DOMAIN buffer : DelimiterEndsAt(d, buffer, i)}
            IN  IF ends = {} THEN 0 ELSE CHOOSE i \in ends : \A j \in ends : i <= j
      [] d.decoder = "length-prefix" ->
            IF HasHeader(d, buffer) /\ Len(buffer) >= TotalSize(d, buffer)
            THEN TotalSize(d, buffer) ELSE 0

\* The payload of the frame that takes span bytes.
FramePayload(d, buffer, span) ==
    CASE d.decoder \in {"raw", "fixed"} -> SubSeq(buffer, 1, span)
      [] d.decoder = "delimiter" ->
            SubSeq(buffer, 1, IF d.include_delimiter THEN span ELSE span - Len(d.delimiter))
      [] d.decoder = "length-prefix" ->
            SubSeq(buffer, IF d.length_includes_header THEN 1 ELSE d.length_size + 1, span)

Drop(buffer, span) == SubSeq(buffer, span + 1, Len(buffer))
=============================================================================
