------------------------------ MODULE ElfSearch ------------------------------
(***************************************************************************)
(* ElfScannerMgr: finding the image of a library by its name, in one look  *)
(* at the process's maps, with a cache of the images that were found       *)
(* before.  The linker of the process goes on between any two reads.       *)
(*                                                                         *)
(* src/KittyMemory/KittyScanner.cpp.  A query is the name, the type and    *)
(* the area (EScanElfType, EScanElfFilter) that findElf is asked for.      *)
(***************************************************************************)
EXTENDS Target

CONSTANTS Queries, LocalBase

\* Functions lie in the image, below any address an image is mapped at; a symbol has
\* its function's address.
ASSUME FunctionsAssumption ==
  /\ LocalBase \in Nat /\ LocalBase % Page = 0
  /\ \A f \in DOMAIN Files : \A x \in DOMAIN Files[f].functions :
       LET v == Files[f].functions[x] IN
       /\ v \in Nat /\ MinVaddr(Files[f].phdrs) <= v
       /\ \A s \in Slots \cup {LocalBase} : MinVaddr(Files[f].phdrs) + v < s
       /\ \A j \in DOMAIN Files[f].syms : Files[f].syms[j].name = x => Files[f].syms[j].value = v

\* findRemoteSymbol asks for the whole path of a library that has the function.
ASSUME QueriesAssumption ==
  \A q \in Queries :
    /\ q.type \in {"Any", "Native", "Emulated"}
    /\ q.symbol # "none" =>
         /\ q.name \in DOMAIN Files /\ q.symbol \in DOMAIN Files[q.name].functions
         /\ \A f \in DOMAIN Files : q.name \in {Files[f].name, f} => f = q.name

VARIABLES
  cached,    \* _cached_elfs: base -> ElfScanner, Invalid for none
  prog,      \* _programElf
  query, maps, todo, elfs, lastElfNode,  \* local to findElf and getAllELFs
  busy,      \* findElf is under way
  found,     \* its result
  remote,    \* that of findRemoteSymbol
  settled    \* the linker has rested since the manager was made

search == <<cached, prog, query, maps, todo, elfs, lastElfNode, busy, found, remote, settled>>

MainFile == Initially[2].file
NoQuery == [name |-> "none", type |-> "Any", area |-> "Any", symbol |-> "none"]

SearchInit ==
  /\ cached = [s \in Slots |-> Invalid] /\ prog = Invalid
  /\ query = NoQuery /\ maps = {} /\ todo = {} /\ elfs = <<>> /\ lastElfNode = 0
  /\ busy = FALSE /\ found = Invalid /\ remote = 0 /\ settled = TRUE

\* ElfScannerMgr(pMem).
Construct ==
  /\ ~busy
  /\ cached' = [s \in Slots |-> Invalid] /\ prog' = Invalid
  /\ found' = Invalid /\ settled' = TRUE /\ query' = NoQuery /\ remote' = 0
  /\ maps' = {} /\ UNCHANGED <<target, todo, elfs, lastElfNode, busy>>

\* The first map of the program's file that holds a valid image with a dynamic
\* section; /proc/pid/exe may not be readable.
getProgramElf(ms) ==
  LET exe == {m \in ms : m.path = MainFile /\ m.r /\ ~m.w}
      good == {m \in exe : FromBase(ms, m.start, ImageAt(m.start)).dynamic # 0}
      best == CHOOSE m \in good : \A n \in good : m.start <= n.start
  IN  IF IsValid(prog) /\ prog.dynamic # 0 THEN {prog}
      ELSE {prog} \cup (IF good = {} THEN {} ELSE {FromBase(ms, best.start, ImageAt(best.start))})

Begin ==
  /\ ~busy /\ busy' = TRUE
  /\ query' \in Queries
  /\ prog' \in getProgramElf(Maps)
  /\ maps' = Maps /\ todo' = Maps
  /\ elfs' = <<>> /\ lastElfNode' = 0 /\ found' = Invalid /\ remote' = 0
  /\ UNCHANGED <<target, cached, settled>>

\* eMachineCheck: what is not known suits every type.
TypeFits(elf) ==
  \/ prog.machine = 0 \/ elf.machine = 0 \/ query.type = "Any"
  \/ query.type = "Native" /\ elf.machine = prog.machine
  \/ query.type = "Emulated" /\ elf.machine # prog.machine

\* Maps an image cannot begin at, those of the file that was found last, and those
\* outside of the area are passed over.
PassedOver(m) ==
  \/ ~m.r \/ m.w \/ m.inode = 0 \/ m.inode = lastElfNode
  \/ query.area # "Any" /\ Files[m.path].area # query.area

\* Faulty: what was cached for an address is used whatever is mapped there now.
Bug_CacheHit(m) == m.start \in Slots /\ cached[m.start] # Invalid

CacheHit(m) == m.start \in Slots /\ cached[m.start] # Invalid /\ cached[m.start].path = m.path

\* The image at a map is the cached one or is read now, at an address that was taken
\* from the maps before.
Look(m) ==
  LET elf == IF CacheHit(m) THEN cached[m.start] ELSE FromBase(maps, m.start, ImageAt(m.start)) IN
  /\ cached' = [s \in Slots |-> IF s # m.start THEN cached[s]
                               ELSE IF IsValid(elf) THEN elf ELSE Invalid]
  /\ elfs' = IF IsValid(elf) /\ TypeFits(elf) THEN Append(elfs, elf) ELSE elfs
  /\ lastElfNode' = IF IsValid(elf) THEN elf.inode ELSE lastElfNode

\* One turn of the loop over the maps, which come by address as in /proc/pid/maps.
Visit ==
  /\ busy
  /\ \E m \in todo :
       /\ \A n \in todo : m.start <= n.start
       /\ todo' = todo \ {m}
       /\ IF PassedOver(m) THEN UNCHANGED <<cached, elfs, lastElfNode>> ELSE Look(m)
  /\ UNCHANGED <<target, prog, query, maps, busy, found, remote, settled>>

\* endsWith(realPath, path): a file is asked for by its name or its whole path.
Named(es, name) == {i \in DOMAIN es : name \in {Files[es[i].path].name, es[i].path}}
HasDynamics(e) == e.dynamic # 0 /\ e.dyns # {}

\* Faulty: the first of those with the most segments.
Bug_Choose(es, is) ==
  LET n(i) == Cardinality(es[i].segments)
      best == {i \in is : \A j \in is : n(j) <= n(i) /\ (j < i => n(j) < n(i))}
  IN  IF is = {} THEN {Invalid} ELSE {es[i] : i \in best}

\* The last one of those with the most segments.
Choose(es, is) ==
  LET n(i) == Cardinality(es[i].segments)
      best == {i \in is : \A j \in is : n(j) <= n(i) /\ (j > i => n(j) < n(i))}
  IN  IF is = {} THEN {Invalid} ELSE {es[i] : i \in best}

\* What can be read of an image's symbol table now.
SymsOf(elf) == IF image[elf.base].mapped = Segs(elf.path) THEN Files[image[elf.base].file].syms ELSE <<>>

\* Faulty: takes what the header calls the address for a distance from the base.
Bug_RemoteSymbol(elf, f, symbol) ==
  LET address == IF IsValid(elf) THEN FindSymbol(elf, SymsOf(elf), symbol) ELSE 0
  IN  IF ~IsValid(elf) THEN 0
      ELSE IF address # 0 THEN address ELSE Files[f].functions[symbol] + elf.base

\* findRemoteSymbol: where there is no such symbol, the function is taken to be as far
\* behind the remote base as it is behind the start of its own map here.  LocalBase
\* is where the scanner's own process has the file.
RemoteSymbol(elf, f, symbol) ==
  LET phdrs == Files[f].phdrs
      local == LocalBase - MinVaddr(phdrs) + Files[f].functions[symbol]
      starts == {KT_PAGE_START(LocalBase - MinVaddr(phdrs) + phdrs[i].vaddr) : i \in Loads(phdrs)}
      l_start == Max({a \in starts : a <= local})
      address == IF IsValid(elf) THEN FindSymbol(elf, SymsOf(elf), symbol) ELSE 0
  IN  IF ~IsValid(elf) THEN 0
      ELSE IF address # 0 THEN address ELSE local - l_start + elf.base

\* Cached images whose address is no longer readable go; then findElf chooses.
Finish ==
  /\ busy /\ todo = {} /\ busy' = FALSE
  /\ cached' = [s \in Slots |-> IF Readable(maps, s) THEN cached[s] ELSE Invalid]
  /\ LET named == Named(elfs, query.name)
         dynamic == {i \in named : HasDynamics(elfs[i])}
     IN  found' \in Choose(elfs, IF dynamic # {} THEN dynamic ELSE named)
  /\ remote' = IF query.symbol = "none" THEN 0 ELSE RemoteSymbol(found', query.name, query.symbol)
  /\ elfs' = <<>> /\ lastElfNode' = 0 /\ UNCHANGED <<target, prog, query, maps, todo, settled>>

SearchNext == Construct \/ Begin \/ Visit \/ Finish

\* The linker's steps, seen from the manager.
Meanwhile == settled' = FALSE /\ UNCHANGED <<cached, prog, query, maps, todo, elfs, lastElfNode, busy,
                                            found, remote>>

\* The manager and the process it looks at.
SearchSpec ==
  /\ TargetInit /\ SearchInit
  /\ [][SearchNext \/ (TargetNext /\ Meanwhile)]_<<target, search>>

-----------------------------------------------------------------------------
(* What findElf promises.                                                  *)

\* What is found was mapped under the name that was asked for at its base when this
\* call looked, whatever the linker does meanwhile and whatever was cached before.
PathIsRight ==
  ~busy /\ found # Invalid =>
    \E m \in maps : m.start = found.base /\ m.path = found.path /\ query.name \in {m.path, Files[m.path].name}

\* The images of the area whose header can be read, as they are mapped now.  A second
\* copy of a file is never looked at unless one of another file was before it.
Images == {s \in Slots : /\ IsValid(FromBase(Maps, s, ImageAt(s)))
                         /\ query.area \in {"Any", Files[image[s].file].area}}
Inspected == {s \in Images : \A t \in Images :
  t < s /\ Files[image[t].file].inode = Files[image[s].file].inode =>
    \E u \in Images : t < u /\ u < s
                     /\ Files[image[u].file].inode # Files[image[s].file].inode}
Complete(s) == image[s].mapped = Segs(image[s].file)

\* a is to be preferred to b: "it will prioritize ELFs with dynamic and return the
\* latest mapped one with the most segments", latest being that of the highest address.
Prefer(a, b) ==
  LET n(s) == Cardinality(MapsOf(s)) IN
  IF Complete(a) # Complete(b) THEN Complete(a)
  ELSE IF n(a) # n(b) THEN n(a) > n(b) ELSE a >= b

\* As long as the linker has rested since the manager was made, findElf finds the
\* image its documentation promises: complete before incomplete, then the one with
\* the most segments, then the highest, among those of the name, type and area.
SettledIsBest ==
  ~busy /\ settled /\ query # NoQuery /\ prog # Invalid =>
    LET fit == {s \in Inspected :
                  LET f == Files[image[s].file] IN
                  /\ query.name \in {f.name, image[s].file}
                  /\ \/ query.type = "Any"
                     \/ query.type = "Native" /\ f.machine = Files[MainFile].machine
                     \/ query.type = "Emulated" /\ f.machine # Files[MainFile].machine}
    IN  IF fit = {} THEN found = Invalid
        ELSE \E s \in fit : found.base = s /\ \A t \in fit : Prefer(s, t)

\* The address findRemoteSymbol gives for a function of a library that is complete in
\* both processes is that of the function in the image that was found: but only if it
\* can be found as a symbol or lies in the first segment.
RemoteSymbolRight ==
  ~busy /\ settled /\ query.symbol # "none" /\ found # Invalid /\ HasDynamics(found) =>
    LET f == Files[query.name]
        v == f.functions[query.symbol]
        first == v < f.phdrs[Min(Loads(f.phdrs))].vaddr + f.phdrs[Min(Loads(f.phdrs))].memsz
    IN  first \/ FindSymbol(found, f.syms, query.symbol) # 0 =>
          remote = found.base - MinVaddr(f.phdrs) + v
=============================================================================
