----------------------------- MODULE IdaPattern -----------------------------
(* The parser of IDA patterns at the head of findIdaPatternAll and          *)
(* findIdaPatternFirst (src/KittyMemory/KittyScanner.cpp): characters to a  *)
(* sequence of bytes and wildcards.                                         *)
EXTENDS Naturals, Sequences
LOCAL INSTANCE SequencesExt
LOCAL INSTANCE TLC

CONSTANT Wild

\* The value of a hexadecimal digit; a few stand for the sixteen.
Digits == ("0" :> 0) @@ ("1" :> 1)
IsDigit(c) == c \in DOMAIN Digits

\* Faulty: i is not moved past the second digit of a pair.
Bug_Parse(text) ==
  LET rest[i \in 1..(Len(text) + 2)] ==
        IF i > Len(text) THEN <<>>
        ELSE IF text[i] = "?" THEN <<Wild>> \o rest[i + 1]
        ELSE IF i < Len(text) /\ IsDigit(text[i]) /\ IsDigit(text[i + 1])
          THEN <<16 * Digits[text[i]] + Digits[text[i + 1]]>> \o rest[i + 1]
        ELSE rest[i + 1]
  IN  rest[1]

\* Blanks, and whatever else is no '?' and no pair of digits, are skipped.
Parse(text) ==
  LET rest[i \in 1..(Len(text) + 2)] ==
        IF i > Len(text) THEN <<>>
        ELSE IF text[i] = "?" THEN <<Wild>> \o rest[i + 1]
        ELSE IF i < Len(text) /\ IsDigit(text[i]) /\ IsDigit(text[i + 1])
          THEN <<16 * Digits[text[i]] + Digits[text[i + 1]]>> \o rest[i + 2]
        ELSE rest[i + 1]
  IN  rest[1]

\* The text the header's example has for a pattern ("FF DD ? 99"): a pair of
\* digits or a '?' for each byte, separated by blanks; or with nothing between.
Pairs == {<<c, d>> : c, d \in DOMAIN Digits}
Written(symbol) ==
  IF symbol = Wild THEN <<"?">>
  ELSE CHOOSE p \in Pairs : 16 * Digits[p[1]] + Digits[p[2]] = symbol
Separators == {<<" ">>, <<>>}
Text(pattern, between) ==
  FoldLeft(LAMBDA t, x : t \o (IF t = <<>> THEN <<>> ELSE between) \o Written(x),
           <<>>, pattern)
=============================================================================
