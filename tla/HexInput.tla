------------------------------- MODULE HexInput -------------------------------
(***************************************************************************)
(* Bytes written in hex: parse_hex_payload, behind stdin and every send    *)
(* command, the cleaning the viewer does before it sends one, and the      *)
(* delimiter settings.  A text is a sequence of characters; " " stands for *)
(* all white space.                                                        *)
(***************************************************************************)
EXTENDS Integers, Sequences

LOCAL INSTANCE SequencesExt

Upper == <<"0", "1", "2", "3", "4", "5", "6", "7", "8", "9", "A", "B", "C", "D", "E", "F">>
Lower == <<"0", "1", "2", "3", "4", "5", "6", "7", "8", "9", "a", "b", "c", "d", "e", "f">>

IsHex(ch) == ch \in Range(Upper) \cup Range(Lower)

HexValue(ch) == (CHOOSE k \in 1..16 : ch \in {Upper[k], Lower[k]}) - 1

IsSeparator(ch) == ch \in {" ", ":", "-"}

PrefixAt(line, i) == i < Len(line) /\ line[i] = "0" /\ line[i + 1] \in {"x", "X"}

HexByte(high, low) == 16 * HexValue(high) + HexValue(low)

Read(bytes) == [ok |-> TRUE, bytes |-> bytes]
Refused == [ok |-> FALSE, bytes |-> <<>>]

Prepend(byte, rest) == IF rest.ok THEN Read(<<byte>> \o rest.bytes) ELSE Refused

\* Mutant: separators are skipped wherever a digit is expected.
ParseHexPayload_Lenient(text) ==
    LET line == SelectSeq(text, LAMBDA ch : ~IsSeparator(ch))
        from[i \in 1..(Len(line) + 1)] ==
            LET j == IF PrefixAt(line, i) THEN i + 2 ELSE i IN
            IF i > Len(line) THEN Read(<<>>)
            ELSE IF j < Len(line) /\ IsHex(line[j]) /\ IsHex(line[j + 1])
                 THEN Prepend(HexByte(line[j], line[j + 1]), from[j + 2])
                 ELSE Refused
    IN  from[1]

\* from[i] is what the loop makes of the line from column i.
ParseHexPayload(line) ==
    LET from[i \in 1..(Len(line) + 1)] ==
            LET j == IF PrefixAt(line, i) THEN i + 2 ELSE i IN
            IF i > Len(line) THEN Read(<<>>)
            ELSE IF IsSeparator(line[i]) THEN from[i + 1]
            ELSE IF /\ j < Len(line) /\ IsHex(line[j]) /\ IsHex(line[j + 1])
                    /\ j + 2 <= Len(line) => IsHex(line[j + 2]) \/ IsSeparator(line[j + 2])
                 THEN Prepend(HexByte(line[j], line[j + 1]), from[j + 2])
                 ELSE Refused
    IN  from[1]

\* Mutant: a 0x is left in the text.
CleanHexInput_KeepsPrefix(text) ==
    LET clean == SelectSeq(text, LAMBDA ch : ~IsSeparator(ch))
    IN  [ok |-> clean # <<>> /\ Len(clean) % 2 = 0 /\ \A i \in DOMAIN clean : IsHex(clean[i]),
         chars |-> clean]

\* The viewer removes what it takes for decoration and checks the rest; what it
\* sends is that rest.
CleanHexInput(text) ==
    LET from[i \in 1..(Len(text) + 1)] ==
            IF i > Len(text) THEN <<>>
            ELSE IF PrefixAt(text, i) THEN from[i + 2]
            ELSE IF IsSeparator(text[i]) THEN from[i + 1]
            ELSE <<text[i]>> \o from[i + 1]
        clean == from[1]
    IN  [ok |-> clean # <<>> /\ Len(clean) % 2 = 0 /\ \A i \in DOMAIN clean : IsHex(clean[i]),
         chars |-> clean]

\* stoul takes a sign for a digit; a negative byte is too large unless it is 0.
PairValue(a, b) ==
    IF IsHex(a) /\ IsHex(b) THEN {HexByte(a, b)}
    ELSE IF a \in {"+", "-"} /\ IsHex(b) /\ (a = "-" => b = "0") THEN {HexValue(b)}
    ELSE {}

ParseDelimiterBytes(text) ==
    LET compact == SelectSeq(text, LAMBDA ch : ch # " ")
        pairs == 1..(Len(compact) \div 2)
        value(k) == PairValue(compact[2 * k - 1], compact[2 * k])
    IN  CASE text = <<"l", "f">> -> Read(<<10>>)
          [] text = <<"c", "r", "l", "f">> -> Read(<<13, 10>>)
          [] OTHER -> IF /\ compact # <<>> /\ Len(compact) % 2 = 0
                         /\ \A k \in pairs : value(k) # {}
                      THEN Read([k \in pairs |-> CHOOSE v \in value(k) : TRUE])
                      ELSE Refused

\* Mutant: a byte below 16 is written with one digit.
ToHex_Unpadded(bytes) ==
    FlattenSeq([i \in DOMAIN bytes |->
        LET b == bytes[i] IN
        (IF b < 16 THEN <<>> ELSE <<Upper[b \div 16 + 1]>>) \o <<Upper[(b % 16) + 1]>>])

ToHex(bytes) ==
    [i \in 1..(2 * Len(bytes)) |->
        LET b == bytes[(i + 1) \div 2] IN Upper[(IF i % 2 = 1 THEN b \div 16 ELSE b % 16) + 1]]
=============================================================================
