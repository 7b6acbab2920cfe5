--------------------------- MODULE MCPatternScan ---------------------------
(* Every pattern of up to three symbols, in every memory of up to MaxSize   *)
(* bytes of two values; the pattern as text, for the parser.                *)
EXTENDS PatternScan
INSTANCE IdaPattern

MCPatterns == UNION {[1..n -> Symbols] : n \in 0..3}

\* Parsing the text of a pattern gives the pattern that is searched for
\* (findIdaPatternAll and findIdaPatternFirst), with or without blanks: no
\* symbol is lost, split or put together from two neighbours.
ParsedAsWritten ==
  pc = "start" => \A b \in Separators : Parse(Text(pattern, b)) = pattern
=============================================================================
