-------------------------- MODULE PatternScanProofs --------------------------
(* Proofs about PatternScan: the search reports every match in the buffer   *)
(* and nothing else, for every pattern, memory and set of holes.            *)
EXTENDS PatternScan, TLAPS

\* What the buffer holds once it is read.
Read == buf = [o \in Offsets |-> IF o \in hole THEN 0 ELSE mem[o]]

\* Neither a match nor the end of the search was passed over.
Searching == pc \in {"start", "enter", "scan", "hit"}
Inv ==
  /\ pc # "start" /\ Searchable => Read
  /\ mode = "first" \/ pc = "start" => from = 0
  /\ Searching => found = {o \in Matches(buf) : o < from}
  /\ pc \in {"scan", "hit"} =>
       /\ HasFixed /\ from <= cur
       /\ cur + Len(pattern) <= size
       /\ \A o \in Matches(buf) : o < from \/ cur <= o
  /\ pc = "hit" => cur \in Matches(buf)
  /\ ExactOnBuffer

LEMMA PatternType == TypeOK => Len(pattern) \in Nat /\ pattern \in [1..Len(pattern) -> Symbols]
  BY ScanAssumption DEF TypeOK

\* A pattern that holds a fixed byte is not empty.
LEMMA FixedNotEmpty == TypeOK /\ HasFixed => Len(pattern) >= 1
  BY PatternType DEF HasFixed

\* Every match from the cursor on is a candidate of memchr's.
LEMMA MatchIsCandidate ==
  ASSUME TypeOK, NEW f \in 1..Len(pattern), IsFirstFixed(f),
         NEW o \in Matches(buf), cur <= o
  PROVE  o \in Candidates(f)
  BY PatternType DEF TypeOK, Matches, MatchAt, Candidates, IsFirstFixed, Offsets

-----------------------------------------------------------------------------
LEMMA InitType == Init => TypeOK
  BY ScanAssumption DEF Init, TypeOK, Offsets

\* What the candidate at o makes of the cursor.
LEMMA TryAtType ==
  ASSUME TypeOK, HasFixed, NEW o \in Nat, cur <= o, o + Len(pattern) <= size, TryAt(o)
  PROVE  cur' \in 0..size /\ pc' \in {"hit", "scan", "done"}
  BY PatternType, FixedNotEmpty DEF TypeOK, TryAt

LEMMA StepType ==
  ASSUME TypeOK, Inv, [Next]_vars
  PROVE  TypeOK'
<1>1. CASE Begin
  BY <1>1, ScanAssumption DEF Begin, TypeOK, args, Offsets
<1>2. CASE Enter
  BY <1>2 DEF Enter, TypeOK, args, Offsets
<1>3. CASE Scan
  <2>1. UNCHANGED <<args, buf, from, found>>
    BY <1>3 DEF Scan
  <2>2. cur' \in 0..size /\ pc' \in {"scan", "hit", "done"}
    <3>1. PICK f \in 1..Len(pattern) :
            /\ IsFirstFixed(f)
            /\ \/ Candidates(f) = {} /\ pc' = "done" /\ UNCHANGED cur
               \/ \E o \in Candidates(f) :
                    (\A q \in Candidates(f) : o <= q) /\ TryAt(o)
      BY <1>3 DEF Scan
    <3>2. CASE Candidates(f) = {} /\ pc' = "done" /\ UNCHANGED cur
      BY <3>2 DEF TypeOK
    <3>3. CASE \E o \in Candidates(f) : TryAt(o)
      <4>1. PICK o \in Candidates(f) : TryAt(o)
        BY <3>3
      <4>2. o \in Nat /\ cur <= o /\ o + Len(pattern) <= size
        BY <4>1, PatternType DEF Candidates, TypeOK
      <4>3. HasFixed
        BY <3>1 DEF IsFirstFixed, HasFixed
      <4> QED BY <4>1, <4>2, <4>3, TryAtType
    <3> QED BY <3>1, <3>2, <3>3
  <2> QED BY <2>1, <2>2 DEF TypeOK, args, Offsets
<1>4. CASE Hit
  <2>1. cur \in Offsets
    BY <1>4 DEF Hit, Inv, Matches
  <2> QED BY <1>4, <2>1 DEF Hit, TypeOK, args, Offsets
<1>5. CASE UNCHANGED vars
  BY <1>5 DEF vars, args, TypeOK, Offsets
<1> QED BY <1>1, <1>2, <1>3, <1>4, <1>5 DEF Next

-----------------------------------------------------------------------------
\* Nothing in the buffer or the arguments changes: nor do the matches.
LEMMA MatchesStay ==
  ASSUME UNCHANGED <<args, buf>>
  PROVE  /\ Matches(buf)' = Matches(buf)
         /\ (Searchable <=> Searchable') /\ (HasFixed <=> HasFixed')
         /\ (Read <=> Read')
  BY DEF args, Matches, MatchAt, Offsets, Searchable, HasFixed, Read

\* When no match is left behind the start of the search, what was found is
\* the result.
LEMMA NoneLeft ==
  ASSUME Inv, TypeOK, Searching, \A o \in Matches(buf) : o < from
  PROVE  found = IF mode = "all" THEN Matches(buf)
                 ELSE {o \in Matches(buf) : \A p \in Matches(buf) : o <= p}
<1>1. found = Matches(buf)
  BY DEF Inv
<1>2. CASE mode = "first"
  <2>1. Matches(buf) = {}
    BY <1>2 DEF Inv, Matches, Offsets
  <2> QED BY <1>1, <1>2, <2>1
<1> QED BY <1>1, <1>2 DEF TypeOK

LEMMA InitInv == Init => Inv
  BY DEF Init, Inv, Searching, ExactOnBuffer, Matches, Offsets

LEMMA BeginInv == ASSUME TypeOK, Inv, Begin PROVE Inv'
<1>1. UNCHANGED <<args, from, found>> /\ pc' \in {"enter", "done"}
  BY DEF Begin
<1>2. from = 0 /\ found = {}
  BY DEF Begin, Inv, Searching, Matches, Offsets, TypeOK
<1>3. found' = {o \in Matches(buf)' : o < from'}
  BY <1>1, <1>2 DEF Matches, Offsets, TypeOK, args
<1>4. CASE pattern = <<>> \/ size = 0 \/ hole = Offsets
  <2>1. ~Searchable'
    <3>1. size = 0 => Offsets = {}
      BY DEF Offsets
    <3>2. hole \subseteq Offsets
      BY DEF TypeOK
    <3>3. pattern = <<>> \/ hole = Offsets
      BY <1>4, <3>1, <3>2
    <3> QED BY <1>1, <3>3 DEF Searchable, Offsets, args
  <2> QED BY <1>1, <1>2, <1>3, <2>1 DEF Inv, ExactOnBuffer, args
<1>5. CASE ~(pattern = <<>> \/ size = 0 \/ hole = Offsets)
  <2>1. pc' = "enter" /\ Read'
    BY <1>1, <1>5 DEF Begin, Read, Offsets, args
  <2> QED BY <1>1, <1>2, <1>3, <2>1 DEF Inv, ExactOnBuffer, args
<1> QED BY <1>4, <1>5

LEMMA EnterInv == ASSUME TypeOK, Inv, Enter PROVE Inv'
<1>1. UNCHANGED <<args, buf, from, found>>
  BY DEF Enter
<1>2. Searching /\ pc # "start"
  BY DEF Enter, Searching
<1>3. CASE from + Len(pattern) > size \/ ~HasFixed
  <2>1. pc' = "done"
    BY <1>3 DEF Enter
  <2>2. Searchable => \A o \in Matches(buf) : o < from
    BY <1>3, PatternType DEF Searchable, Matches, MatchAt, Offsets, TypeOK
  <2>3. ExactOnBuffer'
    BY <1>1, <1>2, <2>1, <2>2, NoneLeft, MatchesStay DEF ExactOnBuffer, args
  <2> QED BY <1>1, <1>2, <2>1, <2>3, MatchesStay DEF Inv, Searching, args
<1>4. CASE ~(from + Len(pattern) > size \/ ~HasFixed)
  <2>1. pc' = "scan" /\ cur' = from
    BY <1>4 DEF Enter
  <2>2. HasFixed' /\ from' <= cur' /\ cur' + Len(pattern') <= size'
    BY <1>1, <1>4, <2>1, PatternType, MatchesStay DEF TypeOK, args
  <2>3. \A o \in Matches(buf)' : o < from' \/ cur' <= o
    BY <1>1, <2>1, MatchesStay DEF TypeOK, Matches, Offsets
  <2> QED BY <1>1, <1>2, <2>1, <2>2, <2>3, MatchesStay
            DEF Inv, Searching, ExactOnBuffer, args
<1> QED BY <1>3, <1>4

\* The candidate at o is the first: no match lies between the cursor and it.
LEMMA TryAtInv ==
  ASSUME TypeOK, Inv, pc = "scan", UNCHANGED <<args, buf, from, found>>,
         NEW o \in Nat, cur <= o, o + Len(pattern) <= size,
         \A m \in Matches(buf) : m < from \/ o <= m,
         TryAt(o)
  PROVE  Inv'
<1>1. Searching /\ HasFixed /\ from <= cur
  BY DEF Searching, Inv
<1>2. CASE MatchAt(buf, o)
  <2>1. cur' = o /\ pc' = "hit"
    BY <1>2 DEF TryAt
  <2>2. o \in Matches(buf)
    BY <1>1, <1>2, FixedNotEmpty DEF Matches, Offsets, TypeOK
  <2>3. from' <= cur'
    BY <1>1, <2>1 DEF TypeOK
  <2> QED BY <1>1, <2>1, <2>2, <2>3, MatchesStay
            DEF Inv, Searching, ExactOnBuffer, args
<1>3. CASE ~MatchAt(buf, o)
  <2>1. cur' = o + 1
    BY <1>3 DEF TryAt
  <2>2. \A m \in Matches(buf) : m < from \/ o + 1 <= m
    BY <1>3 DEF Matches, Offsets, TypeOK
  <2>3. CASE o + 1 + Len(pattern) <= size
    <3>1. pc' = "scan"
      BY <1>3, <2>3 DEF TryAt
    <3>2. from' <= cur'
      BY <1>1, <2>1 DEF TypeOK
    <3> QED BY <1>1, <2>1, <2>2, <2>3, <3>1, <3>2, MatchesStay
              DEF Inv, Searching, ExactOnBuffer, args
  <2>4. CASE ~(o + 1 + Len(pattern) <= size)
    <3>1. pc' = "done"
      BY <1>3, <2>4 DEF TryAt
    <3>2. \A m \in Matches(buf) : m < from
      BY <2>2, <2>4, PatternType DEF Matches, MatchAt, Offsets, TypeOK
    <3>3. ExactOnBuffer'
      BY <1>1, <3>1, <3>2, NoneLeft, MatchesStay DEF ExactOnBuffer, args
    <3> QED BY <1>1, <3>1, <3>3, MatchesStay DEF Inv, Searching, args
  <2> QED BY <2>3, <2>4
<1> QED BY <1>2, <1>3

LEMMA ScanInv == ASSUME TypeOK, Inv, Scan PROVE Inv'
<1>1. UNCHANGED <<args, buf, from, found>> /\ pc = "scan" /\ Searching
  BY DEF Scan, Searching
<1>2. PICK f \in 1..Len(pattern) :
        /\ IsFirstFixed(f)
        /\ \/ Candidates(f) = {} /\ pc' = "done" /\ UNCHANGED cur
           \/ \E o \in Candidates(f) :
                (\A q \in Candidates(f) : o <= q) /\ TryAt(o)
  BY DEF Scan
<1>3. CASE Candidates(f) = {} /\ pc' = "done" /\ UNCHANGED cur
  <2>1. \A m \in Matches(buf) : m < from
    BY <1>1, <1>2, <1>3, MatchIsCandidate DEF Inv
  <2>2. ExactOnBuffer'
    BY <1>1, <1>3, <2>1, NoneLeft, MatchesStay DEF ExactOnBuffer, args
  <2> QED BY <1>1, <1>3, <2>2, MatchesStay DEF Inv, Searching, args
<1>4. ASSUME NEW o \in Candidates(f), \A q \in Candidates(f) : o <= q, TryAt(o)
      PROVE  Inv'
  <2>1. o \in Nat /\ cur <= o /\ o + Len(pattern) <= size
    BY PatternType DEF Candidates, TypeOK
  <2>2. \A m \in Matches(buf) : m < from \/ o <= m
    BY <1>1, <1>2, <1>4, MatchIsCandidate DEF Inv
  <2> QED BY <1>1, <1>4, <2>1, <2>2, TryAtInv
<1> QED BY <1>2, <1>3, <1>4

LEMMA HitInv == ASSUME TypeOK, Inv, Hit PROVE Inv'
<1>1. UNCHANGED <<args, buf, cur>> /\ found' = found \cup {cur}
  BY DEF Hit
<1>2. /\ cur \in Matches(buf) /\ from <= cur /\ HasFixed
      /\ found = {o \in Matches(buf) : o < from}
      /\ \A o \in Matches(buf) : o < from \/ cur <= o
  BY DEF Hit, Inv, Searching
<1>3. found' = {o \in Matches(buf) : o <= cur}
  BY <1>1, <1>2 DEF TypeOK, Matches, Offsets
<1>4. CASE mode = "first"
  <2>1. pc' = "done" /\ from' = from /\ from = 0
    BY <1>4 DEF Hit, Inv
  <2>2. found' = {o \in Matches(buf) : \A p \in Matches(buf) : o <= p}
    BY <1>2, <1>3, <2>1 DEF TypeOK, Matches, Offsets
  <2>3. ExactOnBuffer'
    BY <1>1, <1>4, <2>2, MatchesStay DEF ExactOnBuffer, args
  <2> QED BY <1>1, <1>4, <2>1, <2>3, MatchesStay DEF Inv, Hit, Searching, args
<1>5. CASE mode = "all"
  <2>1. pc' = "enter" /\ from' = cur + 1
    BY <1>5 DEF Hit
  <2>2. found' = {o \in Matches(buf) : o < from'}
    BY <1>3, <2>1 DEF TypeOK, Matches, Offsets
  <2> QED BY <1>1, <1>5, <2>1, <2>2, MatchesStay
            DEF Inv, Hit, ExactOnBuffer, args
<1> QED BY <1>4, <1>5 DEF TypeOK

LEMMA StepInv == ASSUME TypeOK, Inv, [Next]_vars PROVE Inv'
<1>1. CASE UNCHANGED vars
  BY <1>1, MatchesStay DEF vars, args, Inv, Searching, ExactOnBuffer
<1> QED BY <1>1, BeginInv, EnterInv, ScanInv, HitInv DEF Next

THEOREM Invariance == Spec => [](TypeOK /\ Inv)
<1>1. Init => TypeOK /\ Inv
  BY InitType, InitInv
<1>2. TypeOK /\ Inv /\ [Next]_vars => (TypeOK /\ Inv)'
  BY StepType, StepInv
<1> QED BY <1>1, <1>2, PTL DEF Spec

-----------------------------------------------------------------------------
\* The variables keep their types, for every pattern and memory.
THEOREM TypeCorrect == Spec => []TypeOK
  BY Invariance, PTL

\* The search reports every match in the buffer and nothing else, although
\* findInRange lets memchr skip positions and findBytesAll starts anew behind
\* each hit.
THEOREM SearchIsExact == Spec => []ExactOnBuffer
<1>1. Inv => ExactOnBuffer
  BY DEF Inv
<1> QED BY <1>1, Invariance, PTL

\* Where the read left no hole, buffer and target match alike.
LEMMA MatchesWhereRead ==
  ASSUME TypeOK, Read, NEW o \in Offsets,
         (o..(o + Len(pattern) - 1)) \cap hole = {}
  PROVE  MatchAt(buf, o) <=> MatchAt(mem, o)
<1>1. ASSUME NEW k \in 1..Len(pattern), o + Len(pattern) <= size
      PROVE  buf[o + k - 1] = mem[o + k - 1]
  <2>1. o + k - 1 \in o..(o + Len(pattern) - 1) /\ o + k - 1 \in Offsets
    BY <1>1, PatternType DEF Offsets, TypeOK
  <2> QED BY <2>1 DEF Read
<1> QED BY <1>1 DEF MatchAt

\* What findBytesAll and findBytesFirst report is in the target where the
\* read left no hole, and findBytesAll reports all that is there.
THEOREM ReportsAreGenuine == Spec => []GenuineWhereRead
<1>1. TypeOK /\ Inv => GenuineWhereRead
  <2> SUFFICES ASSUME TypeOK, Inv, pc = "done", Searchable,
                      NEW o \in Offsets,
                      (o..(o + Len(pattern) - 1)) \cap hole = {}
               PROVE  /\ o \in found => MatchAt(mem, o)
                      /\ mode = "all" /\ MatchAt(mem, o) => o \in found
    BY DEF GenuineWhereRead
  <2>1. MatchAt(buf, o) <=> MatchAt(mem, o)
    BY MatchesWhereRead DEF Inv
  <2>2. o \in found => MatchAt(buf, o)
    BY DEF Inv, ExactOnBuffer, Matches
  <2>3. mode = "all" /\ MatchAt(buf, o) => o \in found
    BY DEF Inv, ExactOnBuffer, Matches
  <2> QED BY <2>1, <2>2, <2>3
<1> QED BY <1>1, Invariance, PTL
=============================================================================
