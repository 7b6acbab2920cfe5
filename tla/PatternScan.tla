----------------------------- MODULE PatternScan -----------------------------
(***************************************************************************)
(* KittyScannerMgr::findBytesFirst and findBytesAll, which every other     *)
(* find* of that class ends in: the range is read into a zeroed buffer     *)
(* with IKittyMemOp::Read (module MemOp), which may leave holes, and       *)
(* findInRange searches the buffer, once or again behind each hit.         *)
(*                                                                         *)
(* src/KittyMemory/KittyScanner.cpp.  Addresses are offsets from the start *)
(* of the range; bytes and mask are one sequence, with Wild for '?'.       *)
(***************************************************************************)
EXTENDS Naturals, Sequences

CONSTANTS
  MaxSize,   \* bound on the range, for the model checker
  Byte,      \* values of a byte
  Wild,      \* '?' in the mask
  Patterns   \* patterns to look for

Symbols == Byte \cup {Wild}

ASSUME ScanAssumption ==
  /\ MaxSize \in Nat
  /\ Byte \subseteq Nat /\ 0 \in Byte
  /\ Wild \notin Byte
  /\ Patterns \subseteq Seq(Symbols)

VARIABLES
  mode,     \* "first" or "all"
  pattern,
  size,     \* bytes in the range
  mem,      \* the target's memory
  hole,     \* offsets that Read leaves out
  buf,      \* the local copy
  from,     \* curr_search_address
  cur,      \* findInRange's cursor
  found,    \* the result
  pc        \* "start", "enter", "scan", "hit" or "done"

args == <<mode, pattern, size, mem, hole>>
vars == <<args, buf, from, cur, found, pc>>

Offsets == 0..(size - 1)

Init ==
  /\ mode \in {"first", "all"}
  /\ pattern \in Patterns
  /\ size \in 0..MaxSize
  /\ mem \in [Offsets -> Byte]
  /\ hole \in SUBSET Offsets
  /\ buf = [o \in Offsets |-> 0]
  /\ from = 0 /\ cur = 0 /\ found = {} /\ pc = "start"

TypeOK ==
  /\ mode \in {"first", "all"}
  /\ pattern \in Patterns
  /\ size \in Nat
  /\ mem \in [Offsets -> Byte]
  /\ hole \in SUBSET Offsets
  /\ buf \in [Offsets -> Byte]
  /\ from \in 0..size
  /\ cur \in 0..size
  /\ found \in SUBSET Offsets
  /\ pc \in {"start", "enter", "scan", "hit", "done"}

-----------------------------------------------------------------------------
(* Matching.                                                               *)

\* compare: the mask at every byte of the pattern.
MatchAt(bytes, o) ==
  /\ o + Len(pattern) <= size
  /\ \A k \in 1..Len(pattern) :
       pattern[k] # Wild => bytes[o + k - 1] = pattern[k]

HasFixed == \E k \in 1..Len(pattern) : pattern[k] # Wild

\* first_fixed: the first byte of the pattern that is not a wildcard.
IsFirstFixed(f) ==
  /\ f \in 1..Len(pattern) /\ pattern[f] # Wild
  /\ \A g \in 1..(f - 1) : pattern[g] = Wild

-----------------------------------------------------------------------------
(* The search.                                                             *)

\* The checks of the arguments; Read, which fails when nothing can be read.
Begin ==
  /\ pc = "start"
  /\ IF pattern = <<>> \/ size = 0 \/ hole = Offsets
       THEN pc' = "done" /\ UNCHANGED buf
       ELSE /\ pc' = "enter"
            /\ buf' = [o \in Offsets |-> IF o \in hole THEN 0 ELSE mem[o]]
  /\ UNCHANGED <<args, from, cur, found>>

\* Faulty: `>=` for `>`, so the last position is never tried.
Bug_Enter ==
  /\ pc = "enter"
  /\ IF from + Len(pattern) >= size \/ ~HasFixed
       THEN pc' = "done" /\ UNCHANGED cur
       ELSE pc' = "scan" /\ cur' = from
  /\ UNCHANGED <<args, buf, from, found>>

\* findInRange(from, size): nothing to find in a range that is shorter than
\* the pattern, or with a pattern of wildcards only.
Enter ==
  /\ pc = "enter"
  /\ IF from + Len(pattern) > size \/ ~HasFixed
       THEN pc' = "done" /\ UNCHANGED cur
       ELSE pc' = "scan" /\ cur' = from
  /\ UNCHANGED <<args, buf, from, found>>

\* memchr for the first fixed byte, from the cursor to scan_end.
Candidates(f) ==
  {o \in cur..(size - Len(pattern)) : buf[o + f - 1] = pattern[f]}

\* What becomes of the candidate at o: a hit, or `++cur` and on.
TryAt(o) ==
  IF MatchAt(buf, o)
    THEN cur' = o /\ pc' = "hit"
    ELSE /\ cur' = o + 1
         /\ pc' = IF o + 1 + Len(pattern) <= size THEN "scan" ELSE "done"

Scan ==
  /\ pc = "scan"
  /\ \E f \in 1..Len(pattern) :
       /\ IsFirstFixed(f)
       /\ \/ Candidates(f) = {} /\ pc' = "done" /\ UNCHANGED cur
          \/ \E o \in Candidates(f) :
               (\A q \in Candidates(f) : o <= q) /\ TryAt(o)
  /\ UNCHANGED <<args, buf, from, found>>

\* Faulty: the next search starts behind the match, not one byte on.
Bug_Hit ==
  /\ pc = "hit"
  /\ found' = found \cup {cur}
  /\ IF mode = "first" THEN pc' = "done" /\ UNCHANGED from
                       ELSE pc' = "enter" /\ from' = cur + Len(pattern)
  /\ UNCHANGED <<args, buf, cur>>

\* findBytesFirst returns; findBytesAll searches again one byte further on.
Hit ==
  /\ pc = "hit"
  /\ found' = found \cup {cur}
  /\ IF mode = "first" THEN pc' = "done" /\ UNCHANGED from
                       ELSE pc' = "enter" /\ from' = cur + 1
  /\ UNCHANGED <<args, buf, cur>>

Next == Begin \/ Enter \/ Scan \/ Hit

Spec == Init /\ [][Next]_vars

-----------------------------------------------------------------------------
(* Properties.                                                             *)

Matches(bytes) == {o \in Offsets : MatchAt(bytes, o)}

\* Was there anything to search, and with?
Searchable == pattern # <<>> /\ hole # Offsets /\ HasFixed

\* The search is exact on what was read: findBytesAll reports every match,
\* overlapping ones too, findBytesFirst the leftmost, although memchr skips
\* over most positions.
ExactOnBuffer ==
  pc = "done" /\ Searchable =>
    found = IF mode = "all"
              THEN Matches(buf)
              ELSE {o \in Matches(buf) : \A p \in Matches(buf) : o <= p}

\* In terms of the target: where the read left no hole, what is reported is
\* there, and findBytesAll reports all there is.
GenuineWhereRead ==
  pc = "done" /\ Searchable =>
    \A o \in Offsets :
      (o..(o + Len(pattern) - 1)) \cap hole = {} =>
        /\ o \in found => MatchAt(mem, o)
        /\ mode = "all" /\ MatchAt(mem, o) => o \in found
==============================================================================
