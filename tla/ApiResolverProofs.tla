------------------------- MODULE ApiResolverProofs -------------------------
(* Theorems about ApiResolver, for every registry, module and pattern.     *)
EXTENDS ApiResolver, TLAPS

\* The loops run only on an accepted module of a known machine, and the
\* cursor starts at the first attempt.
Control ==
  /\ pc \in {"scan", "finish"} => elfValid /\ machine \in DOMAIN Registry
  /\ pc = "start" => a = 1 /\ i = 1 /\ j = 1 /\ s = 1 /\ allFound = TRUE
  /\ pc = "done" /\ NumSettled = 0 => allFound = FALSE
  /\ pc = "done" /\ NumSettled # 0 => a = Len(Apis)

\* The pointers not reached yet are as the loader left them.
Untouched == \A b \in ApiIds : b > NumSettled => ptr[b] = Null

\* Nothing before the cursor is a hit for the API being tried.
CursorMissed == pc = "scan" => MissedBefore(a, i, j, s)

\* allFound is about the APIs before the current one.
FoundSoFar ==
  /\ pc \in {"start", "scan", "finish"} =>
       (allFound <=> \A b \in 1..(a - 1) : ptr[b] # Null)
  /\ ResultMeansAllResolved

IInv ==
  TypeOK /\ Control /\ Untouched /\ CursorMissed /\ FoundSoFar /\ FirstHitWins

-----------------------------------------------------------------------------
(* Facts about the order of the attempts.                                  *)

\* The entries of the registry in use are signature entries.
LEMMA SignatureTypes ==
  /\ Len(Signatures) \in Nat
  /\ \A e \in 1..Len(Signatures), p \in 1..MaxPatterns :
       Signatures[e].patterns[p] \in Patterns \cup {NoPattern}
<1>1. Signatures \in Seq(Entries)
  BY ConfigAssumption DEF Signatures
<1>2. ASSUME NEW e \in 1..Len(Signatures), NEW p \in 1..MaxPatterns
      PROVE  Signatures[e].patterns[p] \in Patterns \cup {NoPattern}
  <2>1. Signatures[e] \in Entries
    BY <1>1
  <2>2. Signatures[e].patterns \in [1..MaxPatterns -> Patterns \cup {NoPattern}]
    BY <2>1 DEF Entries
  <2> QED BY <2>2
<1> QED BY <1>1, <1>2

\* The first hit is unique, and there is none when everything missed.
LEMMA SettledIsUnique ==
  ASSUME NEW b, NEW x, NEW y, Settled(b, x), Settled(b, y),
         MaxPatterns \in Nat, NumSegments \in Nat, Len(Signatures) \in Nat
  PROVE  x = y
<1>1. CASE FirstHit(b, x) /\ FirstHit(b, y)
  <2>1. PICK e1 \in 1..Len(Signatures), p1 \in 1..MaxPatterns, g1 \in Segments :
          /\ Attempt(b, e1, p1, g1) /\ MissedBefore(b, e1, p1, g1)
          /\ x = Hit(e1, p1, g1) /\ x # Null
    BY <1>1 DEF FirstHit
  <2>2. PICK e2 \in 1..Len(Signatures), p2 \in 1..MaxPatterns, g2 \in Segments :
          /\ Attempt(b, e2, p2, g2) /\ MissedBefore(b, e2, p2, g2)
          /\ y = Hit(e2, p2, g2) /\ y # Null
    BY <1>1 DEF FirstHit
  <2>3. ~Before(e1, p1, g1, e2, p2, g2)
    BY <2>1, <2>2 DEF MissedBefore
  <2>4. ~Before(e2, p2, g2, e1, p1, g1)
    BY <2>1, <2>2 DEF MissedBefore
  <2>5. e1 = e2 /\ p1 = p2 /\ g1 = g2
    BY <2>3, <2>4 DEF Before, Segments
  <2> QED BY <2>1, <2>2, <2>5
<1>2. ASSUME NEW u, FirstHit(b, u), MissedAll(b)
      PROVE  FALSE
  <2>1. PICK e1 \in 1..Len(Signatures), p1 \in 1..MaxPatterns, g1 \in Segments :
          Attempt(b, e1, p1, g1) /\ u = Hit(e1, p1, g1) /\ u # Null
    BY <1>2 DEF FirstHit
  <2>2. Before(e1, p1, g1, Len(Signatures) + 1, 1, 1)
    BY DEF Before
  <2> QED BY <1>2, <2>1, <2>2 DEF MissedAll, MissedBefore
<1> QED BY <1>1, <1>2 DEF Settled

\* What a pointer is settled to depends on the module and registry alone.
LEMMA SettledFixed ==
  ASSUME UNCHANGED moduleVars, NEW b, NEW x
  PROVE  Settled(b, x)' <=> Settled(b, x)
BY DEF moduleVars, Settled, FirstHit, MissedAll, MissedBefore, Attempt, Hit,
       Signatures, Segments

LEMMA MissedFixed ==
  ASSUME UNCHANGED moduleVars, NEW b, NEW e, NEW p, NEW g
  PROVE  MissedBefore(b, e, p, g)' <=> MissedBefore(b, e, p, g)
BY DEF moduleVars, MissedBefore, Attempt, Hit, Signatures, Segments

-----------------------------------------------------------------------------
(* Type correctness.                                                       *)

LEMMA InitTypeOK == Init => TypeOK
BY ConfigAssumption DEF Init, TypeOK, ApiIds

LEMMA NextTypeOK == TypeOK /\ [Next]_vars => TypeOK'
<1> SUFFICES ASSUME TypeOK, [Next]_vars PROVE TypeOK'
  OBVIOUS
<1> USE ConfigAssumption
<1> USE DEF TypeOK
<1>1. CASE Begin
  BY <1>1 DEF Begin, moduleVars
<1>2. CASE Advance
  BY <1>2 DEF Advance, HasEntry, EntryMatches, HasPattern, HasSegment, At,
              moduleVars
<1>3. CASE Scan
  <2>1. i \in 1..Len(Signatures) /\ j \in 1..MaxPatterns /\ s \in Segments
    BY <1>3 DEF Scan, HasSegment, HasPattern, EntryMatches, HasEntry, Segments,
                Signatures
  <2>2. Pattern \in Patterns
    BY <1>3, <2>1, SignatureTypes
    DEF Scan, HasSegment, HasPattern, Pattern
  <2>3. hit[Pattern][s] \in Addresses \cup {Null}
    BY <2>1, <2>2
  <2> QED BY <1>3, <2>1, <2>3 DEF Scan, moduleVars, HasSegment, HasPattern,
                                  EntryMatches, HasEntry, Segments
<1>4. CASE EndOfEntries
  BY <1>4 DEF EndOfEntries, moduleVars
<1>5. CASE FinishApi
  BY <1>5 DEF FinishApi, At, ApiIds, moduleVars
<1>6. CASE UNCHANGED vars
  BY <1>6 DEF vars, moduleVars
<1> QED BY <1>1, <1>2, <1>3, <1>4, <1>5, <1>6 DEF Next

\* The variables keep their types, for every registry and module.
THEOREM TypeCorrect == Spec => []TypeOK
BY InitTypeOK, NextTypeOK, PTL DEF Spec
-----------------------------------------------------------------------------
(* The first hit wins.                                                     *)

LEMMA InitIInv == Init => IInv
<1> SUFFICES ASSUME Init PROVE IInv
  OBVIOUS
<1>1. TypeOK
  BY InitTypeOK
<1>2. NumSettled = 0
  BY DEF Init, NumSettled
<1> QED BY <1>1, <1>2, ConfigAssumption
        DEF IInv, Init, Control, Untouched, CursorMissed, FoundSoFar,
            ResultMeansAllResolved, FirstHitWins, Finished, ApiIds

\* With no attempt before it, the cursor starts with nothing missed.
LEMMA MissedBeforeFirst == \A b : MissedBefore(b, 1, 1, 1)
BY SignatureTypes, ConfigAssumption DEF MissedBefore, Before, Segments

LEMMA BeginIInv == IInv /\ Begin => IInv'
<1> SUFFICES ASSUME IInv, Begin PROVE IInv'
  OBVIOUS
<1>0. TypeOK /\ TypeOK'
  BY NextTypeOK DEF IInv, Next
<1>1. NumSettled = 0 /\ NumSettled' = 0
  <2>1. pc = "start" /\ a = 1 /\ a' = 1
    BY DEF IInv, Begin, Control
  <2>2. CASE pc' = "scan"
    BY <2>1, <2>2 DEF NumSettled
  <2>3. CASE pc' = "done" /\ ~(elfValid /\ machine \in DOMAIN Registry)
    BY <2>1, <2>3 DEF NumSettled, Begin, moduleVars
  <2> QED BY <2>2, <2>3 DEF Begin
<1>2. 1 \in ApiIds /\ ptr[1] = Null
  BY <1>1, ConfigAssumption DEF IInv, Untouched, ApiIds
<1>5. Control' /\ Untouched'
  BY <1>1 DEF IInv, Begin, Control, Untouched, moduleVars
<1>6. FoundSoFar'
  BY <1>1, <1>2 DEF IInv, Begin, Control, FoundSoFar, ResultMeansAllResolved
<1>3. FirstHitWins'
  BY <1>1 DEF FirstHitWins, Finished
<1>4. CursorMissed'
  BY MissedFixed, MissedBeforeFirst DEF IInv, Control, Begin, CursorMissed
<1> QED BY <1>0, <1>3, <1>4, <1>5, <1>6 DEF IInv

LEMMA AdvanceIInv == IInv /\ Advance => IInv'
<1> SUFFICES ASSUME IInv, Advance PROVE IInv'
  OBVIOUS
<1>0. TypeOK /\ TypeOK'
  BY NextTypeOK DEF IInv, Next
<1>1. pc = "scan" /\ UNCHANGED <<moduleVars, pc, a, ptr, allFound>>
  BY DEF Advance, HasEntry, EntryMatches, HasPattern, HasSegment
<1>2. UNCHANGED NumSettled
  BY <1>1 DEF NumSettled, moduleVars
<1>3. Control' /\ Untouched' /\ FoundSoFar'
  BY <1>1, <1>2
  DEF IInv, Control, Untouched, FoundSoFar, moduleVars, ResultMeansAllResolved
<1>4. FirstHitWins'
  BY <1>1, <1>2, SettledFixed DEF IInv, FirstHitWins, Finished
<1>5. MissedBefore(a, i', j', s')
  BY <1>0, <1>1, SignatureTypes, ConfigAssumption
  DEF IInv, CursorMissed, MissedBefore, Before, Attempt, Advance, HasEntry,
      EntryMatches, HasPattern, HasSegment, Pattern, At, TypeOK, Segments
<1>6. CursorMissed'
  BY <1>1, <1>5, MissedFixed DEF CursorMissed
<1> QED BY <1>0, <1>3, <1>4, <1>6 DEF IInv

LEMMA ScanIInv == IInv /\ Scan => IInv'
<1> SUFFICES ASSUME IInv, Scan PROVE IInv'
  OBVIOUS
<1>0. TypeOK /\ TypeOK'
  BY NextTypeOK DEF IInv, Next
<1>1. /\ pc = "scan" /\ UNCHANGED <<moduleVars, a, i, j, allFound>>
      /\ Attempt(a, i, j, s)
      /\ j \in 1..MaxPatterns /\ s \in Segments /\ i \in 1..Len(Signatures)
      /\ a \in ApiIds
      /\ ptr' = [ptr EXCEPT ![a] = Hit(i, j, s)]
  BY <1>0, SignatureTypes, ConfigAssumption
  DEF Scan, HasSegment, HasPattern, EntryMatches, HasEntry, TypeOK, Pattern,
      Hit, Attempt, Segments
<1>2. ptr[a] = Null
  BY <1>1 DEF IInv, Untouched, NumSettled, ApiIds
<1>3. CASE Hit(i, j, s) = Null
  <2>1. ptr' = ptr /\ s' = s + 1 /\ pc' = pc
    BY <1>0, <1>1, <1>2, <1>3 DEF Scan, TypeOK
  <2>2. UNCHANGED NumSettled
    BY <1>1, <2>1 DEF NumSettled, moduleVars
  <2>3. Control' /\ Untouched' /\ FoundSoFar'
    BY <1>1, <2>1, <2>2
    DEF IInv, Control, Untouched, FoundSoFar, moduleVars, ResultMeansAllResolved
  <2>4. FirstHitWins'
    BY <1>1, <2>1, <2>2, SettledFixed DEF IInv, FirstHitWins, Finished
  <2>5. MissedBefore(a, i, j, s + 1)
    <3> SUFFICES ASSUME NEW e1 \in 1..Len(Signatures), NEW p1 \in 1..MaxPatterns,
                        NEW g1 \in Segments,
                        Attempt(a, e1, p1, g1), Before(e1, p1, g1, i, j, s + 1)
                 PROVE  Hit(e1, p1, g1) = Null
      BY DEF MissedBefore
    <3>1. s \in Nat /\ g1 \in Nat
      BY <1>1, ConfigAssumption DEF Segments
    <3>2. Before(e1, p1, g1, i, j, s) \/ (e1 = i /\ p1 = j /\ g1 = s)
      BY <3>1 DEF Before
    <3>3. CASE Before(e1, p1, g1, i, j, s)
      BY <1>1, <3>3 DEF IInv, CursorMissed, MissedBefore
    <3>4. CASE e1 = i /\ p1 = j /\ g1 = s
      BY <1>3, <3>4
    <3> QED BY <3>2, <3>3, <3>4
  <2>6. CursorMissed'
    BY <1>1, <2>1, <2>5, MissedFixed DEF CursorMissed
  <2> QED BY <1>0, <2>3, <2>4, <2>6 DEF IInv
<1>4. CASE Hit(i, j, s) # Null
  <2>1. ptr'[a] = Hit(i, j, s) /\ pc' = "finish"
    BY <1>0, <1>1, <1>4 DEF Scan, TypeOK
  <2>2. NumSettled = a - 1 /\ NumSettled' = a /\ a \in Nat
    BY <1>1, <2>1 DEF NumSettled, ApiIds
  <2>3. Control' /\ CursorMissed'
    BY <1>1, <2>1 DEF IInv, Control, CursorMissed, moduleVars
  <2>4. \A b \in ApiIds : b # a => ptr'[b] = ptr[b]
    BY <1>0, <1>1 DEF TypeOK
  <2>5. Untouched'
    BY <1>1, <2>2, <2>4 DEF IInv, Untouched, ApiIds
  <2>6. FoundSoFar'
    BY <1>1, <2>1, <2>4
    DEF IInv, FoundSoFar, ResultMeansAllResolved, ApiIds
  <2>7. Settled(a, ptr'[a])
    BY <1>1, <1>4, <2>1 DEF IInv, CursorMissed, Settled, FirstHit
  <2>8. \A b \in 1..a : Settled(b, ptr'[b])
    BY <1>1, <2>2, <2>4, <2>7, ConfigAssumption
    DEF IInv, FirstHitWins, Finished, ApiIds
  <2>9. FirstHitWins'
    BY <1>1, <2>2, <2>8, SettledFixed DEF FirstHitWins, Finished
  <2> QED BY <1>0, <2>3, <2>5, <2>6, <2>9 DEF IInv
<1> QED BY <1>3, <1>4

LEMMA EndOfEntriesIInv == IInv /\ EndOfEntries => IInv'
<1> SUFFICES ASSUME IInv, EndOfEntries PROVE IInv'
  OBVIOUS
<1>0. TypeOK /\ TypeOK'
  BY NextTypeOK DEF IInv, Next
<1>1. /\ pc = "scan" /\ pc' = "finish" /\ i > Len(Signatures) /\ a \in ApiIds
      /\ UNCHANGED <<moduleVars, a, i, j, s, ptr, allFound>>
  BY <1>0 DEF EndOfEntries, TypeOK
<1>2. NumSettled = a - 1 /\ NumSettled' = a /\ a \in Nat
  BY <1>1 DEF NumSettled, ApiIds
<1>3. Control' /\ CursorMissed' /\ Untouched' /\ FoundSoFar'
  BY <1>1, <1>2
  DEF IInv, Control, CursorMissed, Untouched, FoundSoFar, moduleVars, ApiIds,
      ResultMeansAllResolved
<1>4. MissedAll(a)
  BY <1>0, <1>1, SignatureTypes
  DEF IInv, CursorMissed, MissedAll, MissedBefore, Before, TypeOK
<1>5. Settled(a, ptr[a])
  BY <1>1, <1>2, <1>4 DEF IInv, Untouched, Settled, ApiIds
<1>6. \A b \in 1..a : Settled(b, ptr[b])
  BY <1>2, <1>5 DEF IInv, FirstHitWins, Finished
<1>7. FirstHitWins'
  BY <1>1, <1>2, <1>6, SettledFixed DEF FirstHitWins, Finished
<1> QED BY <1>0, <1>3, <1>7 DEF IInv

LEMMA FinishApiIInv == IInv /\ FinishApi => IInv'
<1> SUFFICES ASSUME IInv, FinishApi PROVE IInv'
  OBVIOUS
<1>0. TypeOK /\ TypeOK'
  BY NextTypeOK DEF IInv, Next
<1>1. /\ pc = "finish" /\ a \in ApiIds /\ Len(Apis) \in Nat
      /\ UNCHANGED <<moduleVars, ptr>>
      /\ elfValid /\ machine \in DOMAIN Registry
  BY <1>0, ConfigAssumption DEF FinishApi, TypeOK, IInv, Control
<1>2. a = NumSettled /\ NumSettled' = a
  <2>1. CASE a < Len(Apis)
    BY <1>1, <2>1 DEF NumSettled, FinishApi, ApiIds
  <2>2. CASE a = Len(Apis)
    BY <1>1, <2>2 DEF NumSettled, FinishApi, moduleVars
  <2> QED BY <1>1, <2>1, <2>2 DEF ApiIds
<1>3. Control' /\ Untouched'
  BY <1>1, <1>2 DEF IInv, Control, Untouched, FinishApi, moduleVars, ApiIds
<1>4. FoundSoFar'
  <2>1. allFound' <=> \A b \in 1..a : ptr[b] # Null
    <3>1. allFound' <=> allFound /\ ptr[a] # Null
      BY <1>0, Zenon DEF FinishApi, TypeOK
    <3>2. allFound <=> \A b \in 1..(a - 1) : ptr[b] # Null
      BY <1>1 DEF IInv, FoundSoFar
    <3>3. 1..a = 1..(a - 1) \cup {a}
      BY <1>1 DEF ApiIds
    <3> QED BY <3>1, <3>2, <3>3
  <2>2. CASE a < Len(Apis)
    BY <1>1, <2>1, <2>2 DEF FinishApi, FoundSoFar, ApiIds, ResultMeansAllResolved
  <2>3. CASE a = Len(Apis)
    BY <1>1, <2>1, <2>3 DEF FinishApi, FoundSoFar, ApiIds, ResultMeansAllResolved
  <2> QED BY <1>1, <2>2, <2>3 DEF ApiIds
<1>5. FirstHitWins'
  BY <1>1, <1>2, SettledFixed DEF IInv, FirstHitWins, Finished
<1>6. CursorMissed'
  BY <1>1, MissedFixed, MissedBeforeFirst DEF FinishApi, At, CursorMissed
<1> QED BY <1>0, <1>3, <1>4, <1>5, <1>6 DEF IInv

LEMMA StutterIInv == IInv /\ UNCHANGED vars => IInv'
<1> SUFFICES ASSUME IInv, UNCHANGED vars PROVE IInv'
  OBVIOUS
<1>1. UNCHANGED NumSettled /\ UNCHANGED moduleVars
  BY DEF vars, moduleVars, NumSettled
<1>2. FirstHitWins' /\ CursorMissed'
  BY <1>1, SettledFixed, MissedFixed
  DEF IInv, FirstHitWins, Finished, CursorMissed, vars
<1>3. TypeOK' /\ Control' /\ Untouched' /\ FoundSoFar'
  BY <1>1, NextTypeOK
  DEF IInv, Control, Untouched, FoundSoFar, ResultMeansAllResolved, vars,
      moduleVars
<1> QED BY <1>2, <1>3 DEF IInv

LEMMA IInvHolds == Spec => []IInv
<1>1. IInv /\ [Next]_vars => IInv'
  BY BeginIInv, AdvanceIInv, ScanIInv, EndOfEntriesIInv, FinishApiIInv,
     StutterIInv
  DEF Next
<1> QED BY InitIInv, <1>1, PTL DEF Spec

\* Whatever the registry, the module and the patterns: each pointer gets the
\* first hit in the order of entries, patterns and segments, or null when
\* there is none.
THEOREM FirstHitAlwaysWins == Spec => []FirstHitWins
BY IInvHolds, PTL DEF IInv

\* ResolveFunctions returns true exactly when every pointer is set, so Run
\* calls no null pointer.
THEOREM ResultIsRight == Spec => []ResultMeansAllResolved
BY IInvHolds, PTL DEF IInv, FoundSoFar

\* A pointer found for one API is never replaced while the others are tried.
THEOREM FoundPointersStay == Spec => FoundStays
<1>1. ASSUME IInv, [Next]_vars, NEW b \in ApiIds, ptr[b] # Null
      PROVE  ptr'[b] = ptr[b]
  <2>1. CASE Scan
    <3>1. pc = "scan" /\ a \in ApiIds
      BY <1>1, <2>1
      DEF Scan, HasSegment, HasPattern, EntryMatches, HasEntry, IInv, TypeOK
    <3>2. ptr[a] = Null
      BY <1>1, <3>1 DEF IInv, Untouched, NumSettled, ApiIds
    <3> QED BY <1>1, <2>1, <3>2 DEF Scan, IInv, TypeOK
  <2> QED BY <1>1, <2>1 DEF Next, vars, Begin, Advance, EndOfEntries, FinishApi
<1>2. IInv /\ [Next]_vars =>
        [\A b \in ApiIds : ptr[b] # Null => ptr'[b] = ptr[b]]_vars
  BY <1>1 DEF ApiIds
<1> QED BY <1>2, IInvHolds, PTL DEF Spec, FoundStays

-----------------------------------------------------------------------------
(* The loops implement ApiResolution.                                      *)

\* The value on offer for a pointer that is settled is the one it has.
LEMMA OfferIsPtr ==
  ASSUME IInv, NEW b \in ApiIds, NEW x \in Addresses \cup {Null}, Settled(b, x)
  PROVE  Offer[b] = x
<1>1. \A y : Settled(b, y) => y = x
  BY SettledIsUnique, SignatureTypes, ConfigAssumption
<1> QED BY <1>1 DEF Offer

LEMMA OfferFixed == UNCHANGED moduleVars => UNCHANGED Offer
<1> SUFFICES ASSUME UNCHANGED moduleVars PROVE UNCHANGED Offer
  OBVIOUS
<1>1. \A b, x : Settled(b, x)' <=> Settled(b, x)
  BY SettledFixed
<1> QED BY <1>1 DEF Offer

LEMMA InitImplements == Init => Resolution!Init
BY ConfigAssumption DEF Init, Resolution!Init, NumSettled, Answer, ApiIds, Null

LEMMA NextImplements ==
  IInv /\ IInv' /\ [Next]_vars => [Resolution!Next]_(Resolution!vars)
<1> SUFFICES ASSUME IInv, IInv', [Next]_vars
             PROVE  [Resolution!Next]_(Resolution!vars)
  OBVIOUS
<1>0. TypeOK /\ TypeOK'
  BY DEF IInv
<1>m. UNCHANGED moduleVars /\ UNCHANGED Offer
  BY OfferFixed
  DEF Next, vars, Begin, Advance, Scan, EndOfEntries, FinishApi
<1>n. Len(Apis) \in Nat /\ a \in 1..Len(Apis)
  BY <1>0, ConfigAssumption DEF TypeOK, ApiIds
<1>s. ASSUME pc = "scan", pc' = "finish", a' = a, UNCHANGED allFound,
             ptr' = [ptr EXCEPT ![a] = Offer[a]]
      PROVE  Resolution!Settle
  BY <1>s, <1>m, <1>n DEF Resolution!Settle, NumSettled, Answer
<1>1. CASE Begin
  <2>1. pc = "start" /\ a = 1 /\ a' = 1 /\ NumSettled = 0
    BY <1>1 DEF IInv, Begin, Control, NumSettled
  <2>2. CASE pc' = "scan"
    BY <1>1, <1>m, <2>1, <2>2
    DEF Begin, NumSettled, Answer, Resolution!vars
  <2>3. CASE pc' = "done" /\ ~(elfValid /\ machine \in DOMAIN Registry)
    BY <1>1, <1>m, <2>1, <2>3
    DEF Begin, NumSettled, Answer, Resolution!Next, Resolution!Refuse, moduleVars
  <2> QED BY <1>1, <2>2, <2>3 DEF Begin
<1>2. CASE Advance
  <2>1. pc = "scan" /\ UNCHANGED <<pc, a, ptr, allFound>>
    BY <1>2 DEF Advance, HasEntry, EntryMatches, HasPattern, HasSegment
  <2> QED BY <1>m, <2>1 DEF NumSettled, Answer, Resolution!vars, moduleVars
<1>3. CASE Scan
  <2>1. pc = "scan" /\ ptr[a] = Null /\ UNCHANGED <<a, allFound>>
    BY <1>3, <1>n
    DEF Scan, HasSegment, HasPattern, EntryMatches, HasEntry, IInv, Untouched,
        NumSettled, ApiIds
  <2>2. CASE ptr'[a] = Null
    <3>1. ptr' = ptr /\ pc' = pc
      BY <1>0, <1>3, <2>1, <2>2 DEF Scan, TypeOK
    <3> QED BY <1>m, <2>1, <3>1
            DEF NumSettled, Answer, Resolution!vars, moduleVars
  <2>3. CASE ptr'[a] # Null
    <3>1. pc' = "finish" /\ NumSettled' = a
      BY <1>3, <2>1, <2>3 DEF Scan, NumSettled
    <3>2. Settled(a, ptr'[a])
      BY <1>m, <1>n, <2>1, <3>1, SettledFixed DEF IInv, FirstHitWins, Finished
    <3>3. ptr'[a] = Offer[a]
      BY <1>0, <1>n, <2>1, <3>2, OfferIsPtr DEF TypeOK, ApiIds
    <3>4. ptr' = [ptr EXCEPT ![a] = Offer[a]]
      BY <1>0, <1>n, <1>3, <3>3 DEF Scan, TypeOK, ApiIds
    <3> QED BY <1>s, <2>1, <3>1, <3>4 DEF Resolution!Next
  <2> QED BY <2>2, <2>3
<1>4. CASE EndOfEntries
  <2>1. pc = "scan" /\ pc' = "finish" /\ UNCHANGED <<a, ptr, allFound>>
    BY <1>4 DEF EndOfEntries
  <2>2. ptr[a] = Null
    BY <1>n, <2>1 DEF IInv, Untouched, NumSettled, ApiIds
  <2>3. Settled(a, ptr[a])
    <3>1. NumSettled' = a
      BY <2>1 DEF NumSettled
    <3> QED BY <1>m, <1>n, <2>1, <3>1, SettledFixed
            DEF IInv, FirstHitWins, Finished
  <2>4. ptr' = [ptr EXCEPT ![a] = Offer[a]]
    BY <1>0, <1>n, <2>1, <2>2, <2>3, OfferIsPtr DEF TypeOK, ApiIds
  <2> QED BY <1>s, <2>1, <2>4 DEF Resolution!Next
<1>5. CASE FinishApi
  <2>1. pc = "finish" /\ UNCHANGED ptr /\ NumSettled = a
    BY <1>5 DEF FinishApi, NumSettled
  <2>2. CASE a < Len(Apis)
    BY <1>5, <1>m, <1>n, <2>1, <2>2
    DEF FinishApi, NumSettled, Answer, Resolution!vars
  <2>3. CASE a = Len(Apis)
    <3>1. pc' = "done" /\ NumSettled' = a
      BY <1>5, <1>m, <1>n, <2>1, <2>3
      DEF FinishApi, NumSettled, moduleVars, IInv, Control
    <3>2. \A b \in ApiIds : Offer[b] = ptr[b]
      BY <1>0, <2>1, <2>3, OfferIsPtr
      DEF IInv, FirstHitWins, Finished, TypeOK, ApiIds
    <3>3. allFound' <=> \A b \in ApiIds : Offer[b] # Null
      BY <2>1, <3>1, <3>2 DEF IInv, FoundSoFar, ResultMeansAllResolved
    <3> QED BY <1>m, <2>1, <2>3, <3>1, <3>3
            DEF Resolution!Next, Resolution!Answer, Answer, ApiIds
  <2> QED BY <1>n, <2>2, <2>3
<1>6. CASE UNCHANGED vars
  BY <1>6, <1>m DEF vars, NumSettled, Answer, Resolution!vars, moduleVars
<1> QED BY <1>1, <1>2, <1>3, <1>4, <1>5, <1>6 DEF Next

\* ResolveFunctions implements ApiResolution: however its loops run, Run sees
\* each pointer settled once, in order, with the value the module offers.
THEOREM Implements == Spec => ImplementsResolution
BY InitImplements, NextImplements, IInvHolds, PTL
DEF Spec, ImplementsResolution, Resolution!Spec
=============================================================================
