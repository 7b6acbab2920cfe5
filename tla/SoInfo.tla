------------------------------- MODULE SoInfo -------------------------------
(***************************************************************************)
(* LinkerScannerMgr and NativeBridgeScannerMgr: where the fields of the    *)
(* linker's soinfo are is worked out from the values they should have, and *)
(* then the linker's list is walked, while the linker goes on changing it. *)
(*                                                                         *)
(* src/KittyMemory/KittyScanner.cpp.  The first knows the head of the list *)
(* from the linker's symbols; the second, under Houdini, searches memory   *)
(* for what looks like a soinfo.  Offsets count words, and 0 means unknown.*)
(***************************************************************************)
EXTENDS Target

CONSTANT BufferWords  \* KT_SOINFO_BUFFER_SZ: more words than a soinfo has

\* The linker begins at address 0 of its file.  Program headers lie in the first segment,
\* tables in the file, below any address it is mapped at.
ASSUME LibrariesAssumption ==
  /\ Initially[1].file = "linker" /\ MinVaddr(Files["linker"].phdrs) = 0
  /\ \A f \in DOMAIN Files : LET P == Files[f].phdrs IN
       /\ Files[f].phoff # 0 /\ MinVaddr(P) + Files[f].phoff < P[1].vaddr + P[1].memsz
       /\ \A t \in {"STRTAB", "SYMTAB"}, s \in Slots :
            Tag(Files[f].dyns, t) # 0 /\ MinVaddr(P) + Tag(Files[f].dyns, t) < s

VARIABLES
  how,      \* "symbols" or "search"
  decoys,   \* files whose phdr and phnum stand elsewhere too, where the search looks first
  offs,     \* _soinfo_offsets
  ready,    \* _init
  sohead,   \* _sohead, and the machine of _soheadElf
  pc, somaps, si_buf, solist_buf, heads, best,  \* local to init
  si, infos, \* local to allSoInfo
  before,    \* the list when the walk began
  calm       \* no library was half loaded while the search looked

scan == <<offs, ready, sohead, pc, somaps, si_buf, solist_buf, heads, best, si, infos, before, calm>>
setup == <<how, decoys>>

Fields == <<"phdr", "phnum", "size", "dyn", "strtab", "symtab", "bias", "strsz">>
Unset == [f \in {"base", "next"} \cup ToSet(Fields) |-> 0]
NoHead == [soinfo |-> 0, count |-> 0, offs |-> Unset, machine |-> 0]

SoInfoInit ==
  /\ how \in {"symbols", "search"} /\ decoys \in {{}, {Initially[1].file}}
  /\ (how = "symbols" => decoys = {})
  /\ offs = Unset /\ ready = FALSE /\ sohead = [at |-> 0, machine |-> 0]
  /\ pc = "idle" /\ somaps = {} /\ si_buf = <<>> /\ solist_buf = <<>> /\ heads = <<>>
  /\ best = NoHead /\ si = 0 /\ infos = <<>> /\ before = <<>> /\ calm = TRUE

\* The word at offset i of a buffer is its element i + 1.
Buffer(a) == [i \in 1..BufferWords |-> Word(a + i - 1)]
Offsets == 0..(BufferWords - 1)

Image(ms, a) == FromBase(ms, a, ImageAt(a))

\* A word that is the base of an image.
IsBase(ms, v) ==
  LET m == AddressMap(ms, v) IN m.r /\ ~m.w /\ IsValid(Image(ms, v))
Bases(ms, buf) == {i \in Offsets : IsBase(ms, buf[i + 1])}

\* The linker reserves more than the image has in some versions.
SizeFits(ms, v, elf) ==
  LET m == AddressMap(ms, elf.base + elf.size)
  IN  v \in {elf.size, elf.size + m.end - m.start}

\* Faulty: does not mind that the base is also a value the bias has.
Bug_Matches(f, v, i, elf, ms, base, phnum) ==
  CASE f = "phdr" -> v = elf.phdr     [] f = "phnum" -> v = phnum
    [] f = "size" -> SizeFits(ms, v, elf)
    [] f = "dyn" -> v = elf.dynamic   [] f = "strtab" -> v = elf.strtab
    [] f = "symtab" -> v = elf.symtab [] f = "bias" -> v = elf.bias
    [] f = "strsz" -> v = elf.strsz

Matches(f, v, i, elf, ms, base, phnum) ==
  CASE f = "phdr" -> v = elf.phdr     [] f = "phnum" -> v = phnum
    [] f = "size" -> SizeFits(ms, v, elf)
    [] f = "dyn" -> v = elf.dynamic   [] f = "strtab" -> v = elf.strtab
    [] f = "symtab" -> v = elf.symtab [] f = "bias" -> v = elf.bias /\ i # base
    [] f = "strsz" -> v = elf.strsz

\* Word by word, the first field still unknown whose value it is.
Learn(known, buf, elf, ms, phnum) ==
  LET one(o, i) ==
        LET fit == {k \in DOMAIN Fields : /\ o[Fields[k]] = 0
                      /\ Matches(Fields[k], buf[i + 1], i, elf, ms, o.base, phnum)}
        IN  IF fit = {} THEN o ELSE [o EXCEPT ![Fields[Min(fit)]] = i]
  IN  FoldLeft(one, known, [i \in 1..BufferWords |-> i - 1])

Known(o) == o.size # 0 /\ o.bias # 0 /\ o.dyn # 0 /\ o.symtab # 0 /\ o.strtab # 0

Phnum(s) == IF s = 0 THEN 0 ELSE Len(ImageAt(s).phdrs)

-----------------------------------------------------------------------------
(* LinkerScannerMgr::init.                                                 *)

\* The head of the list and somain are read before the maps are.
InitRead ==
  /\ how = "symbols" /\ pc = "idle" /\ ~ready
  /\ solist_buf' = Buffer(solist) /\ si_buf' = Buffer(words[solist].next)
  /\ pc' = "learn" /\ infos' = <<>>
  /\ UNCHANGED <<target, setup, offs, ready, sohead, somaps, heads, best, si, before, calm>>

InitLearn ==
  /\ pc = "learn" /\ somaps' = Maps
  /\ LET b == Min(Bases(Maps, si_buf))
         elf == Image(Maps, si_buf[b + 1])
         o == Learn([offs EXCEPT !.base = b], si_buf, elf, Maps, Phnum(elf.base))
     IN  IF Bases(Maps, si_buf) = {} THEN pc' = "idle" /\ UNCHANGED offs
         ELSE IF b = 0 THEN pc' = "idle" /\ offs' = [offs EXCEPT !.base = 0]
         ELSE offs' = o /\ pc' = IF Known(o) THEN "next" ELSE "idle"
  /\ si_buf' = <<>>
  /\ UNCHANGED <<target, setup, ready, sohead, solist_buf, heads, best, si, infos, before, calm>>

\* The word of the head that points to a soinfo, with a base and its size.
IsNext(v) ==
  LET b == Word(v + offs.base)
  IN  /\ Readable(somaps, v + offs.base) /\ IsBase(somaps, b)
      /\ Readable(somaps, v + offs.size)
      /\ SizeFits(somaps, Word(v + offs.size), Image(somaps, b))

InitNext ==
  /\ pc = "next" /\ pc' = "idle"
  /\ LET nexts == {i \in Offsets : IsNext(solist_buf[i + 1])}
     IN  IF nexts = {} THEN ready' = (offs.next # 0) /\ UNCHANGED offs
         ELSE offs' = [offs EXCEPT !.next = Min(nexts)] /\ ready' = (Min(nexts) # 0)
  /\ sohead' = [at |-> solist, machine |-> Files[Initially[1].file].machine]
  /\ somaps' = {} /\ solist_buf' = <<>>
  /\ UNCHANGED <<target, setup, si_buf, heads, best, si, infos, before, calm>>

-----------------------------------------------------------------------------
(* NativeBridgeScannerMgr::init, without the emulated linker's symbols.    *)

\* The images that may be the head: up to libdl, and the program.
SearchStart ==
  /\ how = "search" /\ pc = "idle" /\ ~ready
  /\ LET images == {s \in Slots : IsValid(Image(Maps, s))}
         may == {s \in images : \/ s <= Initially[1].slot
                                \/ image[s].file = Initially[2].file}
     IN  heads' = [i \in 1..Cardinality(may) |->
                     Image(Maps, CHOOSE s \in may : Cardinality({t \in may : t < s}) = i - 1)]
  /\ somaps' = Maps /\ best' = NoHead /\ moved' = {} /\ pc' = "heads" /\ infos' = <<>>
  /\ UNCHANGED <<layout, image, words, list, opens, setup, offs, ready, sohead, si_buf, solist_buf, si, before, calm>>

\* The first place where phdr and phnum stand side by side.
Spot(elf) ==
  LET all == {a \in Min(Nodes)..(Max(Nodes) + Len(layout)) :
                Word(a) = elf.phdr /\ Word(a + 1) = Phnum(elf.base)}
  IN  IF elf.path \in decoys \/ all = {} THEN 0 ELSE Min(all)

\* How many soinfos follow each other.  A cycle other than of one is never left.
ChainLength(a, next) ==
  LET N == Cardinality(Nodes)
      at[n \in 0..N] == IF n = 0 THEN a ELSE Word(at[n - 1] + next)
      ends == {n \in 0..N : ~Readable(somaps, at[n]) \/ (n > 0 /\ at[n] = at[n - 1])}
  IN  Min(ends \cup {N})

\* Takes one word of the buffer for the pointer to the next soinfo.  Where no base
\* is found there, the offsets are those of the words tried before, and the values
\* looked for those of no image at all.
Candidate(head, i, buf) ==
  LET v == buf[i + 1]
      inner == Buffer(v)
      bases == Bases(somaps, inner)
      o == IF bases = {} THEN head.offs ELSE [head.offs EXCEPT !.base = Min(bases)]
      elf == IF bases = {} THEN Invalid ELSE Image(somaps, inner[Min(bases) + 1])
      learnt == Learn(o, inner, elf, somaps, Phnum(elf.base))
      next == learnt.phdr + i
      start == head.soinfo - learnt.phdr
  IN  IF head.count > 0 \/ ~Readable(somaps, v) THEN head
      ELSE IF o.base = 0 THEN [head EXCEPT !.offs = o]
      ELSE IF ~Known(learnt) THEN [head EXCEPT !.offs = learnt]
      ELSE [head EXCEPT !.soinfo = start, !.offs = [learnt EXCEPT !.next = next],
                        !.count = ChainLength(start, next)]

\* One head after the other; the one most soinfos follow is taken.
SearchHead ==
  /\ pc = "heads" /\ heads # <<>> /\ heads' = Tail(heads)
  /\ LET elf == Head(heads)
         head == [NoHead EXCEPT !.soinfo = Spot(elf), !.machine = elf.machine]
         buf == Buffer(Spot(elf))
         h == IF Spot(elf) = 0 THEN head
              ELSE FoldLeft(LAMBDA x, i : Candidate(x, i, buf), head, [i \in 1..BufferWords |-> i - 1])
     IN  best' = IF h.count > best.count THEN h ELSE best
  /\ UNCHANGED <<target, setup, offs, ready, sohead, pc, somaps, si_buf, solist_buf, si, infos, before, calm>>

SearchEnd ==
  /\ pc = "heads" /\ heads = <<>> /\ pc' = "idle"
  /\ sohead' = [at |-> best.soinfo, machine |-> best.machine]
  /\ offs' = best.offs /\ ready' = (best.soinfo # 0 /\ best.offs.next # 0)
  /\ calm' = (moved = {} /\ \A n \in OnList : words[n].phdr # 0)
  /\ somaps' = {} /\ best' = NoHead
  /\ UNCHANGED <<target, setup, si_buf, solist_buf, heads, si, infos, before>>

-----------------------------------------------------------------------------
(* allSoInfo.                                                              *)

\* Faulty: starts at the program instead of the head.
Bug_Start == IF how = "symbols" THEN words[solist].next ELSE sohead.at

\* solist() is read anew each time.
Start == sohead.at

AllSoInfo ==
  /\ pc = "idle" /\ ready
  /\ somaps' = Maps /\ si' = Start /\ infos' = <<>> /\ before' = list /\ moved' = {}
  /\ pc' = "walk"
  /\ UNCHANGED <<layout, image, words, list, opens, setup, offs, ready, sohead, si_buf,
                 solist_buf, heads, best, calm>>

\* infoFromSoInfo_: the path is that of the map of its first address that is not 0.
InfoFromSoInfo(a) ==
  LET at(f) == Word(a + offs[f])
      places == <<at("base"), at("bias"), at("phdr"), at("dyn"), at("strtab"), at("symtab")>>
      some == {i \in DOMAIN places : places[i] # 0}
  IN  [ptr |-> a, base |-> at("base"), size |-> at("size"), phdr |-> at("phdr"),
       phnum |-> at("phnum"), dyn |-> at("dyn"), strtab |-> at("strtab"),
       symtab |-> at("symtab"), strsz |-> IF offs.strsz = 0 THEN 0 ELSE at("strsz"),
       bias |-> at("bias"), next |-> at("next"), machine |-> sohead.machine,
       path |-> IF some = {} THEN "none" ELSE AddressMap(somaps, places[Min(some)]).path]

\* allSoInfo returns.
WalkEnd == pc' = "idle" /\ si' = 0 /\ somaps' = {}

WalkInfo ==
  /\ pc = "walk"
  /\ IF si = 0 \/ ~Readable(somaps, si) THEN WalkEnd /\ UNCHANGED infos
     ELSE pc' = "step" /\ infos' = Append(infos, InfoFromSoInfo(si)) /\ UNCHANGED <<si, somaps>>
  /\ UNCHANGED <<target, setup, offs, ready, sohead, si_buf, solist_buf, heads, best, before, calm>>

\* The next soinfo is read apart from the rest of this one.
WalkStep ==
  /\ pc = "step"
  /\ LET next == Word(si + offs.next)
     IN  IF next = si THEN WalkEnd ELSE pc' = "walk" /\ si' = next /\ UNCHANGED somaps
  /\ UNCHANGED <<target, setup, offs, ready, sohead, si_buf, solist_buf, heads, best, infos, before, calm>>

SoInfoNext == InitRead \/ InitLearn \/ InitNext \/ SearchStart \/ SearchHead \/ SearchEnd
              \/ AllSoInfo \/ WalkInfo \/ WalkStep

\* The scanner and the process it looks at.
SoInfoSpec ==
  /\ TargetInit /\ SoInfoInit
  /\ [][SoInfoNext \/ (TargetNext /\ UNCHANGED <<scan, setup>>)]_<<target, scan, setup>>

-----------------------------------------------------------------------------
(* What the scanners promise.                                              *)

\* What the scanner worked out of the list: its head, and the word that leads on.
Is(f, w) == offs[f] \in 0..(Len(layout) - 1) /\ layout[offs[f] + 1] = w
LearntTheList == sohead.at = solist /\ Is("next", "next")

\* And of a soinfo: link_map's address is as good as the bias, and not every layout has
\* the size of the string table.
LearntTheFields ==
  /\ \A f \in {"base", "size", "phdr", "phnum", "dyn", "strtab", "symtab"} : Is(f, f)
  /\ \E w \in {"bias", "laddr"} : Is("bias", w)
  /\ offs.strsz = 0 \/ Is("strsz", "strsz")

Learnt == ready => (calm => LearntTheFields) /\ (decoys = {} => LearntTheList)

Walked == pc = "idle" /\ infos # <<>>

\* The offsets that were worked out from one soinfo lead along the list; with them
\* every soinfo of the list describes its image as the image's own header does, whether
\* that header is still there or has been destroyed: provided the linker rested during
\* the walk, and that the search, unlike the symbols, did not come upon a library that
\* was being loaded.
InfosTruthful ==
  /\ Learnt
  /\ Walked /\ moved = {} /\ calm =>
       \A i \in DOMAIN infos, s \in Used :
         image[s].node = infos[i].ptr /\ words[infos[i].ptr].phdr # 0 =>
           [FromSoInfo(Maps, infos[i], ImageAt(s)) EXCEPT !.machine = 0]
             = [FromBase(Maps, s, [ImageAt(s) EXCEPT !.header = "intact"]) EXCEPT !.machine = 0]

\* A walk during which nothing is closed sees every library that was on the list
\* when it began, even if libraries are opened meanwhile.
WalkWhole ==
  Walked /\ "closed" \notin moved /\ decoys = {} =>
    \A i \in DOMAIN before : \E j \in DOMAIN infos : infos[j].ptr = before[i]
=============================================================================
