---------------------------- MODULE PtrValidator ----------------------------
(***************************************************************************)
(* KittyPtrValidator: is a range of addresses readable, writable or        *)
(* executable, by the lines of /proc/<pid>/maps read for each region       *)
(* anew, or by regions read from them once.                                *)
(*                                                                         *)
(* src/KittyMemory/KittyPtrValidator.cpp.  Addresses count pages: a range  *)
(* is asked for by its first and last page, and one that ends behind all   *)
(* pages wraps around.  The process may change its maps between any two    *)
(* lines; process 2 is another one, which does not.                        *)
(***************************************************************************)
EXTENDS AddressSpace, Sequences, FiniteSetsExt

CONSTANTS
  OtherProt \* the protections in process 2, all of whose pages are mapped

ASSUME OtherProtAssumption == OtherProt \in [Pages -> SUBSET Rights]

VARIABLES
  pid, useCache, regions, hint, \* pid_, use_cache_, cachedRegions_, last_region_index_
  pc,      \* "ready", "refresh", "find", "lines" or "answered"
  at,      \* the address up to which maps was read
  asked,   \* the right and the pages asked for
  ptr,     \* the page not checked yet
  answer,
  filled,  \* the regions are of a file that opened; a ghost
  was,     \* for each right, the pages that had it at some time since then; a ghost
  steady   \* no change since then; a ghost

ghosts == <<filled, was, steady>>
asking == <<pc, at, asked, ptr, answer>>
validator == <<pid, useCache, regions, hint>>
validatorVars == <<space, validator, asking, ghosts>>

Top == Max(Pages)

MappedIn(id) == IF id = 1 THEN mapped ELSE Pages
ProtIn(id) == IF id = 1 THEN prot ELSE OtherProt

Having(id, right) == {p \in MappedIn(id) : right = "any" \/ right \in ProtIn(id)[p]}
Now(id) == [right \in Rights \cup {"any"} |-> Having(id, right)]

\* The line the kernel gives next is of the first map that ends behind an address.
Line(id, a) ==
  LET p == Min({q \in MappedIn(id) : q >= a})
      m == MapIn(MappedIn(id), ProtIn(id), p)
  IN  [start |-> Min(m.pages), end |-> Max(m.pages) + 1, prot |-> m.prot]

More(id, a) == \E q \in MappedIn(id) : q >= a

Nothing == [right |-> "any", first |-> 0, last |-> 0]

\* No question, and no cache that one could be answered from.
Unseen == [right \in Rights \cup {"any"} |-> {}]

ValidatorInit ==
  /\ pid = 1 /\ useCache = FALSE /\ regions = <<>> /\ hint = 0
  /\ pc = "ready" /\ at = 0 /\ asked = Nothing /\ ptr = 0 /\ answer = FALSE
  /\ filled = FALSE /\ was = Unseen /\ steady = TRUE

-----------------------------------------------------------------------------
(* The cache.                                                              *)

Drop == regions' = <<>> /\ hint' = 0 /\ filled' = FALSE /\ steady' = TRUE

Clear == Drop /\ was' = Unseen /\ UNCHANGED <<pc, at>>

\* What is read from here on belongs to a new look at the maps.
Refresh(id) == Drop /\ was' = Now(id) /\ pc' = "refresh" /\ at' = 0

setUseCache(use) ==
  /\ pc = "ready" /\ useCache' = use
  /\ IF use THEN Refresh(pid) ELSE Clear
  /\ UNCHANGED <<space, pid, asked, ptr, answer>>

\* Faulty: keeps the regions of the process before.
Bug_setPID(id) ==
  /\ pc = "ready" /\ pid' = id /\ was' = Now(id) /\ steady' = TRUE
  /\ UNCHANGED <<space, useCache, regions, hint, asking, filled>>

setPID(id) ==
  /\ pc = "ready" /\ pid' = id
  /\ IF useCache THEN Refresh(id) ELSE Clear
  /\ UNCHANGED <<space, useCache, asked, ptr, answer>>

clearCache == pc = "ready" /\ Clear /\ UNCHANGED <<space, pid, useCache, asked, ptr, answer>>

refreshRegionCache == pc = "ready" /\ Refresh(pid) /\ UNCHANGED <<space, pid, useCache, asked, ptr, answer>>

canMergeWith(region, other) == region.end = other.start /\ region.prot = other.prot

RefreshLine ==
  /\ pc = "refresh" /\ More(pid, at)
  /\ LET line == Line(pid, at)
         n == Len(regions)
     IN  /\ at' = line.end
         /\ regions' = IF n > 0 /\ canMergeWith(regions[n], line)
                       THEN [regions EXCEPT ![n].end = line.end] ELSE Append(regions, line)
  /\ UNCHANGED <<space, pid, useCache, hint, pc, asked, ptr, answer, ghosts>>

\* The end of the file, or it did not open at all.  std::sort leaves regions that start
\* at one address, which maps that change between two lines give, in any order.
RefreshEnd ==
  /\ pc = "refresh" /\ pc' = "ready" /\ at' = 0
  /\ More(pid, at) => at = 0
  /\ filled' = ~More(pid, at)
  /\ \E order \in Bijection(DOMAIN regions, DOMAIN regions) :
       /\ regions' = [i \in DOMAIN regions |-> regions[order[i]]]
       /\ \A i, j \in DOMAIN regions : i < j => regions'[i].start <= regions'[j].start
  /\ UNCHANGED <<space, pid, useCache, hint, asked, ptr, answer, was, steady>>

-----------------------------------------------------------------------------
(* isPtrReadable, isPtrWritable, isPtrExecutable, isPtrInAddressSpace.     *)

Answer(yes) == pc' = "answered" /\ answer' = yes

\* A range from null, or one that wraps around, is refused.
Ask(right, first, last) ==
  /\ pc = "ready" /\ first <= last /\ (right = "any" => first = last)
  /\ asked' = [right |-> right, first |-> first, last |-> last] /\ ptr' = first
  /\ IF first = 0 \/ last > Top THEN Answer(FALSE) /\ UNCHANGED <<at, was, steady>>
     ELSE /\ pc' = "find" /\ at' = 0 /\ UNCHANGED answer
          /\ IF useCache THEN UNCHANGED <<was, steady>> ELSE was' = Now(pid) /\ steady' = TRUE
  /\ UNCHANGED <<space, validator, filled>>

Allows(region) == asked.right = "any" \/ asked.right \in region.prot

\* A region found is enough or the next one is looked for.
Found(region) ==
  IF ~Allows(region) THEN Answer(FALSE) /\ UNCHANGED <<ptr, at>>
  ELSE IF region.end > asked.last THEN Answer(TRUE) /\ UNCHANGED <<ptr, at>>
  ELSE ptr' = region.end /\ pc' = "find" /\ at' = 0 /\ UNCHANGED answer

Within(region) == region.start <= ptr /\ ptr < region.end

\* Faulty: takes a region that ends at ptr for one that holds it.
Bug_Bound(i) ==
  /\ i \in 1..(Len(regions) + 1)
  /\ i > 1 => regions[i - 1].end < ptr
  /\ i <= Len(regions) => regions[i].end >= ptr

\* lower_bound: where the ends, as the search meets them, begin to lie behind ptr.
Bound(i) ==
  /\ i \in 1..(Len(regions) + 1)
  /\ i > 1 => regions[i - 1].end <= ptr
  /\ i <= Len(regions) => regions[i].end > ptr

FindCached ==
  /\ pc = "find" /\ useCache
  /\ \/ /\ hint < Len(regions) /\ Within(regions[hint + 1])
        /\ Found(regions[hint + 1]) /\ UNCHANGED hint
     \/ /\ ~(hint < Len(regions) /\ Within(regions[hint + 1]))
        /\ \E i \in 1..(Len(regions) + 1) :
             /\ Bound(i)
             /\ IF i <= Len(regions) /\ Within(regions[i])
                THEN Found(regions[i]) /\ hint' = i - 1
                ELSE Answer(FALSE) /\ UNCHANGED <<ptr, at, hint>>
  /\ UNCHANGED <<space, pid, useCache, regions, asked, ghosts>>

\* The file may not open.
FindBegin ==
  /\ pc = "find" /\ ~useCache
  /\ \/ pc' = "lines" /\ at' = 0 /\ filled' = TRUE /\ UNCHANGED <<ptr, answer>>
     \/ Answer(FALSE) /\ filled' = FALSE /\ UNCHANGED <<ptr, at>>
  /\ UNCHANGED <<space, validator, asked, was, steady>>

FindLine ==
  /\ pc = "lines"
  /\ IF ~More(pid, at) THEN Answer(FALSE) /\ UNCHANGED <<ptr, at>>
     ELSE LET line == Line(pid, at)
          IN  IF Within(line) THEN Found(line) ELSE at' = line.end /\ UNCHANGED <<pc, ptr, answer>>
  /\ UNCHANGED <<space, validator, asked, ghosts>>

Done ==
  /\ pc = "answered" /\ pc' = "ready" /\ at' = 0 /\ asked' = Nothing /\ ptr' = 0 /\ answer' = FALSE
  /\ IF useCache THEN UNCHANGED ghosts ELSE filled' = FALSE /\ was' = Unseen /\ steady' = TRUE
  /\ UNCHANGED <<space, validator>>

MapsChange ==
  /\ \E p \in Pages : OwnStep(p)
  /\ IF pid = 1 /\ (useCache \/ pc # "ready")
     THEN steady' = FALSE /\ was' = [r \in DOMAIN was |-> was[r] \cup Having(1, r)']
     ELSE UNCHANGED <<was, steady>>
  /\ UNCHANGED <<validator, asking, filled>>

ValidatorNext ==
  \/ \E use \in BOOLEAN : setUseCache(use)
  \/ \E id \in {1, 2} : setPID(id)
  \/ clearCache \/ refreshRegionCache \/ RefreshLine \/ RefreshEnd
  \/ \E right \in Rights \cup {"any"}, p \in Pages \cup {0}, q \in Pages \cup {Top + 1} : Ask(right, p, q)
  \/ FindCached \/ FindBegin \/ FindLine \/ Done
  \/ MapsChange

ValidatorSpec == SpaceInit /\ ValidatorInit /\ [][ValidatorNext]_validatorVars

-----------------------------------------------------------------------------
(* What an answer is worth.                                                *)

\* Yes: every page of the range could be used so at some time since the call began,
\* or since the regions were last read when they are cached.
YesWasTrue ==
  pc = "answered" /\ answer =>
    asked.first..asked.last \subseteq was[asked.right]

\* No, when the maps did not change since then and could be read at all: some page of
\* the range cannot be used so, or it is no range.
NoIsTrue ==
  pc = "answered" /\ ~answer /\ filled /\ steady =>
    ~(asked.first..asked.last \subseteq Having(pid, asked.right))
=============================================================================
