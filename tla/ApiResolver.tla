---------------------------- MODULE ApiResolver ----------------------------
(***************************************************************************)
(* IL2CPP::ResolveFunctions: for every il2cpp_* function pointer, in the   *)
(* order of DEFINE_API_LIST, the signature entries of the running machine, *)
(* their patterns and the segments of libil2cpp.so are tried until a scan  *)
(* finds something.                                                        *)
(*                                                                         *)
(* src/src/resolver/api_resolver.cpp, src/include/resolver/resolver.hpp,   *)
(* src/include/utils/config.hpp.  What one scan of one segment does is     *)
(* module PatternScan; here it is a function of the pattern and segment.   *)
(***************************************************************************)
EXTENDS Naturals, Sequences

CONSTANTS
  Apis,         \* the names of DEFINE_API_LIST, in order
  Machines,     \* values e_machine may have
  Registry,     \* Config::Registries: known machine -> sequence of entries
  MaxPatterns,  \* length of ApiSignature::patterns
  Patterns,     \* the patterns that occur in it
  NumSegments,  \* segments of the module
  Addresses     \* addresses a scan may return

NoPattern == "none"   \* a null or empty pattern
Null == 0

Entries == [name: STRING, patterns: [1..MaxPatterns -> Patterns \cup {NoPattern}]]

ASSUME ConfigAssumption ==
  /\ Apis \in Seq(STRING) /\ Len(Apis) > 0
  /\ DOMAIN Registry \subseteq Machines
  /\ \A m \in DOMAIN Registry : Registry[m] \in Seq(Entries)
  /\ NoPattern \notin Patterns
  /\ MaxPatterns \in Nat /\ NumSegments \in Nat
  /\ Addresses \subseteq Nat \ {Null}

VARIABLES
  elfValid,   \* createWithBase accepted the module's header
  machine,    \* e_machine of that header
  readable,   \* segments with seg.readable
  hit,        \* what findIdaPatternFirst returns for a pattern and segment
  pc,         \* "start", "scan", "finish" or "done"
  a, i, j, s, \* the API, entry, pattern and segment being tried
  ptr,        \* the function pointers; static, so null to begin with
  allFound    \* the result, once pc = "done"

moduleVars == <<elfValid, machine, readable, hit>>
vars == <<moduleVars, pc, a, i, j, s, ptr, allFound>>

Segments == 1..NumSegments
ApiIds == 1..Len(Apis)
Signatures == IF machine \in DOMAIN Registry THEN Registry[machine] ELSE <<>>

Init ==
  /\ elfValid \in BOOLEAN
  /\ machine \in Machines
  /\ readable \in SUBSET Segments
  /\ hit \in [Patterns -> [Segments -> Addresses \cup {Null}]]
  /\ pc = "start"
  /\ a = 1 /\ i = 1 /\ j = 1 /\ s = 1
  /\ ptr = [b \in ApiIds |-> Null]
  /\ allFound = TRUE

TypeOK ==
  /\ elfValid \in BOOLEAN
  /\ machine \in Machines
  /\ readable \in SUBSET Segments
  /\ hit \in [Patterns -> [Segments -> Addresses \cup {Null}]]
  /\ pc \in {"start", "scan", "finish", "done"}
  /\ pc \in {"scan", "finish"} => machine \in DOMAIN Registry
  /\ a \in ApiIds
  /\ i \in Nat \ {0}
  /\ j \in 1..(MaxPatterns + 1)
  /\ s \in 1..(NumSegments + 1)
  /\ ptr \in [ApiIds -> Addresses \cup {Null}]
  /\ allFound \in BOOLEAN

-----------------------------------------------------------------------------
(* The cursor <<i, j, s>> of the three nested loops.                       *)

HasEntry == pc = "scan" /\ i <= Len(Signatures)
EntryMatches == HasEntry /\ Signatures[i].name = Apis[a]
Pattern == Signatures[i].patterns[j]
HasPattern == EntryMatches /\ j <= MaxPatterns /\ Pattern # NoPattern
HasSegment == HasPattern /\ s <= NumSegments

At(e, p, g) == i' = e /\ j' = p /\ s' = g

Begin ==
  /\ pc = "start"
  /\ IF elfValid /\ machine \in DOMAIN Registry
       THEN pc' = "scan" /\ UNCHANGED allFound
       ELSE pc' = "done" /\ allFound' = FALSE
  /\ UNCHANGED <<moduleVars, a, i, j, s, ptr>>

\* The conditions under which a loop goes on without a scan.
Advance ==
  /\ \/ HasEntry /\ ~EntryMatches /\ At(i + 1, 1, 1)
     \/ EntryMatches /\ j > MaxPatterns /\ At(i + 1, 1, 1)
     \/ EntryMatches /\ j <= MaxPatterns /\ Pattern = NoPattern
          /\ At(i, j + 1, 1)
     \/ HasPattern /\ s > NumSegments /\ At(i, j + 1, 1)
     \/ HasSegment /\ s \notin readable /\ At(i, j, s + 1)
  /\ UNCHANGED <<moduleVars, pc, a, ptr, allFound>>

\* Faulty: `if (n) break` missing from the segment loop.
Bug_Scan ==
  /\ HasSegment /\ s \in readable
  /\ ptr' = [ptr EXCEPT ![a] = hit[Pattern][s]]
  /\ IF ptr'[a] # Null /\ s = NumSegments
       THEN pc' = "finish" /\ UNCHANGED s
       ELSE s' = s + 1 /\ UNCHANGED pc
  /\ UNCHANGED <<moduleVars, a, i, j, allFound>>

\* n = findIdaPatternFirst(...); a hit leaves all three loops.
Scan ==
  /\ HasSegment /\ s \in readable
  /\ ptr' = [ptr EXCEPT ![a] = hit[Pattern][s]]
  /\ IF ptr'[a] # Null THEN pc' = "finish" /\ UNCHANGED s
                       ELSE s' = s + 1 /\ UNCHANGED pc
  /\ UNCHANGED <<moduleVars, a, i, j, allFound>>

EndOfEntries ==
  /\ pc = "scan" /\ i > Len(Signatures)
  /\ pc' = "finish"
  /\ UNCHANGED <<moduleVars, a, i, j, s, ptr, allFound>>

\* Faulty: allFound says only whether the last pointer was found.
Bug_FinishApi ==
  /\ pc = "finish"
  /\ allFound' = (ptr[a] # Null)
  /\ At(1, 1, 1)
  /\ IF a < Len(Apis) THEN a' = a + 1 /\ pc' = "scan"
                      ELSE pc' = "done" /\ UNCHANGED a
  /\ UNCHANGED <<moduleVars, ptr>>

\* Faulty: the next API starts where the last one stopped.
Bug_FinishApiNoReset ==
  /\ pc = "finish"
  /\ allFound' = (allFound /\ ptr[a] # Null)
  /\ a' = a + 1
  /\ pc' = IF a < Len(Apis) THEN "scan" ELSE "done"
  /\ UNCHANGED <<moduleVars, ptr, i, j, s>>

\* After the loops for one API: on to the next, or return allFound.
FinishApi ==
  /\ pc = "finish"
  /\ allFound' = (allFound /\ ptr[a] # Null)
  /\ At(1, 1, 1)
  /\ IF a < Len(Apis) THEN a' = a + 1 /\ pc' = "scan"
                      ELSE pc' = "done" /\ UNCHANGED a
  /\ UNCHANGED <<moduleVars, ptr>>

Next == Begin \/ Advance \/ Scan \/ EndOfEntries \/ FinishApi

Spec == Init /\ [][Next]_vars

-----------------------------------------------------------------------------
(* The order in which the loops try things.                                *)

\* Entry e, pattern p, segment g is tried for API b.
Attempt(b, e, p, g) ==
  /\ e \in 1..Len(Signatures) /\ p \in 1..MaxPatterns /\ g \in readable
  /\ Signatures[e].name = Apis[b]
  /\ Signatures[e].patterns[p] # NoPattern

Hit(e, p, g) == hit[Signatures[e].patterns[p]][g]

Before(e1, p1, g1, e2, p2, g2) ==
  \/ e1 < e2
  \/ e1 = e2 /\ p1 < p2
  \/ e1 = e2 /\ p1 = p2 /\ g1 < g2

\* No attempt for b before <<e, p, g>> finds anything.
MissedBefore(b, e, p, g) ==
  \A e1 \in 1..Len(Signatures), p1 \in 1..MaxPatterns, g1 \in Segments :
    Attempt(b, e1, p1, g1) /\ Before(e1, p1, g1, e, p, g)
      => Hit(e1, p1, g1) = Null

MissedAll(b) == MissedBefore(b, Len(Signatures) + 1, 1, 1)

\* x is what the first attempt for b that finds anything finds.
FirstHit(b, x) ==
  \E e \in 1..Len(Signatures), p \in 1..MaxPatterns, g \in Segments :
    Attempt(b, e, p, g) /\ MissedBefore(b, e, p, g) /\ x = Hit(e, p, g)
                        /\ x # Null

\* What the loops owe API b: the first hit, or null when there is none.
Settled(b, x) == FirstHit(b, x) \/ (x = Null /\ MissedAll(b))

\* ApiResolution's variables: what the module offers for an API is decided
\* by the order of the attempts alone.
Offer == [b \in ApiIds |-> CHOOSE x \in Addresses \cup {Null} : Settled(b, x)]
NumSettled == CASE pc = "done" -> IF elfValid /\ machine \in DOMAIN Registry
                                    THEN Len(Apis) ELSE 0
                [] pc = "finish" -> a
                [] OTHER -> a - 1
Answer == IF pc # "done" THEN "pending"
          ELSE IF allFound THEN "all" ELSE "not all"

Resolution == INSTANCE ApiResolution
                WITH NumApis <- Len(Apis), offer <- Offer,
                     settled <- NumSettled, answer <- Answer

\* The APIs whose loops are over.
Finished == 1..NumSettled

-----------------------------------------------------------------------------
(* Properties.                                                             *)

\* A pointer is null exactly when no pattern of its entry is found in any
\* readable segment; otherwise the earliest pattern decides, and for one
\* pattern the earliest segment.  An earlier segment never beats an earlier
\* pattern, and a later pattern never replaces a hit.
FirstHitWins == \A b \in Finished : Settled(b, ptr[b])

\* What Run relies on when it goes on to call the pointers: the result is
\* true exactly when none of them is null.
ResultMeansAllResolved ==
  pc = "done" => (allFound <=> \A b \in ApiIds : ptr[b] # Null)

\* The nested loops settle each pointer once, in order, with the value the
\* module offers for it.
ImplementsResolution == Resolution!Spec

\* No pointer changes once found, whatever later APIs match.
FoundStays ==
  [][\A b \in ApiIds : ptr[b] # Null => ptr'[b] = ptr[b]]_vars

\* config.hpp:36: a signature is "a unique byte signature" of its function:
\* no two functions resolve to one address.
DistinctAddresses ==
  \A b, c \in Finished : ptr[b] = ptr[c] /\ ptr[b] # Null => b = c
=============================================================================
