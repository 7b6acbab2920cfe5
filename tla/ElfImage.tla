------------------------------ MODULE ElfImage ------------------------------
(***************************************************************************)
(* What the two constructors of ElfScanner make of an image in memory: the *)
(* one that starts from a base address and believes the header, and the    *)
(* one that starts from the linker's soinfo and uses it where the header   *)
(* has been destroyed.                                                     *)
(*                                                                         *)
(* src/KittyMemory/KittyScanner.cpp.  An image is a record of what can be  *)
(* read of it: its header ("intact", "erased" or "absent"), phoff, phdrs,  *)
(* dyns, machine.  Addresses are numbers, Page of them to a page; maps are *)
(* a set, as they do not overlap.  A dynamic tag occurs once.              *)
(***************************************************************************)
EXTENDS Naturals, Sequences, FiniteSets, FiniteSetsExt

CONSTANT Page
ASSUME PageIsPositive == Page \in Nat \ {0}

KT_PAGE_START(a) == a - (a % Page)
KT_PAGE_END(a) == KT_PAGE_START(a + Page - 1)

NoMap == [start |-> 0, end |-> 0, r |-> FALSE, w |-> FALSE, inode |-> 0, path |-> "none"]

\* getAddressMap: the map an address lies in; address 0 lies in none.
AddressMap(maps, a) ==
  IF a # 0 /\ \E m \in maps : a \in m.start..(m.end - 1)
  THEN CHOOSE m \in maps : a \in m.start..(m.end - 1)
  ELSE NoMap
Readable(maps, a) == AddressMap(maps, a).r

Absent == [header |-> "absent", phoff |-> 0, phdrs |-> <<>>, dyns |-> {}, machine |-> 0]

Invalid == [base |-> 0, phdr |-> 0, bias |-> 0, size |-> 0, dynamic |-> 0, dyns |-> {},
            strtab |-> 0, symtab |-> 0, strsz |-> 0, machine |-> 0, path |-> "none",
            inode |-> 0, segments |-> {}, bss |-> {}]
IsValid(elf) == elf.base # 0 /\ elf.size # 0 /\ elf.phdr # 0 /\ elf.bias # 0

-----------------------------------------------------------------------------
(* The program headers.                                                    *)

Loads(phdrs) == {i \in DOMAIN phdrs : phdrs[i].type = "LOAD"}
MinVaddr(phdrs) == KT_PAGE_START(Min({phdrs[i].vaddr : i \in Loads(phdrs)}))
MaxVaddr(phdrs) == KT_PAGE_END(Max({phdrs[i].vaddr + phdrs[i].memsz : i \in Loads(phdrs)}))
LoadSize(phdrs) == MaxVaddr(phdrs) - MinVaddr(phdrs)

\* The maps of the image, and those of them that hold .bss: anonymous ones, and
\* what the last loaded segment has in memory beyond the file.
Segments(maps, base, size) == {m \in maps : m.start >= base /\ m.end <= base + size}
BssSegments(segments, base_map, phdrs, bias) ==
  LET last == phdrs[Max(Loads(phdrs))]
      fileEnd == KT_PAGE_END(bias + last.vaddr + last.filesz)
      memEnd == KT_PAGE_END(bias + last.vaddr + last.memsz)
  IN  {m \in segments :
         /\ m.r
         /\ \/ base_map.inode # 0 /\ m.inode = 0
            \/ memEnd > fileEnd /\ m.start >= fileEnd /\ m.end <= memEnd}

Dynamics(phdrs) == {i \in DOMAIN phdrs : phdrs[i].type = "DYNAMIC"}
CanRead(maps, at, size) == size # 0 /\ Readable(maps, at) /\ Readable(maps, at + size - 1)
Tag(dyns, t) == IF \E d \in dyns : d.tag = t THEN (CHOOSE d \in dyns : d.tag = t).val ELSE 0

\* fix_table_address: tables the linker has not relocated yet lie below the bias.
FixTable(maps, table, bias) ==
  LET a == IF table # 0 /\ table < bias THEN table + bias ELSE table
  IN  IF Readable(maps, a) THEN a ELSE 0

-----------------------------------------------------------------------------
(* ElfScanner(pMem, elfBase, maps).  image is what can be read at base.    *)

HeaderIsValid(maps, base, image) ==
  /\ AddressMap(maps, base).r /\ AddressMap(maps, base).start = base
  /\ image.header = "intact"
  /\ image.phoff # 0 /\ image.phdrs # <<>>
  /\ Readable(maps, base + image.phoff)
  /\ Loads(image.phdrs) # {} /\ MaxVaddr(image.phdrs) # 0

FromBase(maps, base, image) ==
  IF ~HeaderIsValid(maps, base, image) THEN Invalid
  ELSE LET phdrs == image.phdrs
           bias == base - MinVaddr(phdrs)
           map == AddressMap(maps, base)
           segments == Segments(maps, base, LoadSize(phdrs))
           d == phdrs[Min(Dynamics(phdrs))]
           hasDynamic == /\ Dynamics(phdrs) # {} /\ d.vaddr # 0
                         /\ CanRead(maps, bias + d.vaddr, d.memsz)
           dyns == IF hasDynamic THEN image.dyns ELSE {}
       IN  [base |-> base, phdr |-> base + image.phoff, bias |-> bias,
            size |-> LoadSize(phdrs), dynamic |-> IF hasDynamic THEN bias + d.vaddr ELSE 0,
            dyns |-> dyns, strtab |-> FixTable(maps, Tag(dyns, "STRTAB"), bias),
            symtab |-> FixTable(maps, Tag(dyns, "SYMTAB"), bias), strsz |-> Tag(dyns, "STRSZ"),
            machine |-> image.machine, path |-> map.path, inode |-> map.inode,
            segments |-> segments, bss |-> BssSegments(segments, map, phdrs, bias)]

-----------------------------------------------------------------------------
(* symbols().  syms is the table that is read at symtab, an entry to a     *)
(* number; how long it is nobody knows but from where the strings begin,   *)
(* and the entry that ends there is left out.                              *)

Symbols(elf, syms) ==
  LET apart == IF elf.strtab > elf.symtab THEN elf.strtab - elf.symtab ELSE elf.symtab - elf.strtab
      read == {j \in DOMAIN syms : j < apart /\ syms[j].value # 0}
      address(v) == IF v < elf.bias THEN elf.bias + v ELSE v
  IN  IF elf.strtab = 0 \/ elf.symtab = 0 \/ elf.strsz = 0 THEN {}
      ELSE {[name |-> syms[j].name, address |-> address(syms[j].value)] : j \in read}

\* findSymbol.
FindSymbol(elf, syms, name) ==
  IF \E s \in Symbols(elf, syms) : s.name = name
  THEN (CHOOSE s \in Symbols(elf, syms) : s.name = name).address ELSE 0

-----------------------------------------------------------------------------
(* ElfScanner(pMem, soinfo, maps).                                         *)

\* The linker's own soinfo may have no base: that of the map of another address.
SoBase(maps, si) ==
  LET places == <<si.bias, si.phdr, si.dyn, si.symtab, si.strtab>>
      found == {i \in DOMAIN places : AddressMap(maps, places[i]).start # 0}
  IN  IF si.base # 0 THEN si.base
      ELSE IF found = {} THEN 0 ELSE AddressMap(maps, places[Min(found)]).start

IsLinker(si) == si.path = "linker"
SoIsComplete(si) ==
  /\ si.base # 0 /\ si.size # 0 /\ si.bias # 0 /\ si.phdr # 0
  /\ si.dyn # 0 /\ si.strtab # 0 /\ si.symtab # 0

Within(m, base, size) == m.r /\ m.start >= base /\ m.end <= base + size

\* "fix for ldplayer": a bias that is no address of the image is computed anew.
SoBias(maps, base, si) ==
  IF Within(AddressMap(maps, si.bias), base, si.size) THEN si.bias ELSE 0

\* The header counts as corrupted also where it and soinfo disagree.
Corrupted(si, image) ==
  /\ ~IsLinker(si)
  /\ \/ image.header # "intact" \/ Len(image.phdrs) # si.phnum
     \/ si.base + image.phoff # si.phdr

\* An image that cannot be read at all is left as soinfo describes it.
FromSoInfo(maps, si, image) ==
  LET or(a, b) == IF a # 0 THEN a ELSE b
      base == SoBase(maps, si)
      map == AddressMap(maps, base)
      phnum == IF Corrupted(si, image) THEN si.phnum ELSE Len(image.phdrs)
      phdrs == SubSeq(image.phdrs, 1, Min({phnum, Len(image.phdrs)}))
      phdr == or(si.phdr, base + image.phoff)
      phdrMap == AddressMap(maps, phdr)
      bias == or(SoBias(maps, base, si), base - MinVaddr(phdrs))
      size == or(si.size, LoadSize(phdrs))
      segments == Segments(maps, base, size)
      d == phdrs[Min(Dynamics(phdrs))]
      dynamic == IF Dynamics(phdrs) # {} /\ si.dyn = 0 /\ d.vaddr # 0
                 THEN bias + d.vaddr ELSE si.dyn
      dyns == IF Dynamics(phdrs) # {} /\ CanRead(maps, dynamic, d.memsz)
              THEN image.dyns ELSE {}
      read == [Invalid EXCEPT !.base = base, !.phdr = si.phdr, !.bias = si.bias, !.size = si.size,
                 !.dynamic = si.dyn, !.strtab = si.strtab, !.symtab = si.symtab,
                 !.strsz = si.strsz, !.path = si.path]
  IN  IF ~map.r \/ map.start # base \/ (~IsLinker(si) /\ ~SoIsComplete(si)) THEN Invalid
      ELSE IF image.header = "absent" THEN read
      ELSE IF \/ ~phdrMap.r \/ phdrMap.start < base
              \/ si.size # 0 /\ phdrMap.end > base + si.size
              \/ ~IsLinker(si) /\ ~Within(AddressMap(maps, si.dyn), base, si.size)
              \/ Loads(phdrs) = {} \/ MaxVaddr(phdrs) = 0
      THEN Invalid
      ELSE [read EXCEPT
              !.phdr = phdr, !.bias = bias, !.size = size, !.dynamic = dynamic, !.dyns = dyns,
              !.strtab = FixTable(maps, or(si.strtab, Tag(dyns, "STRTAB")), bias),
              !.symtab = FixTable(maps, or(si.symtab, Tag(dyns, "SYMTAB")), bias),
              !.strsz = or(si.strsz, Tag(dyns, "STRSZ")),
              !.machine = IF Corrupted(si, image) THEN si.machine ELSE image.machine,
              !.inode = map.inode, !.segments = segments,
              !.bss = BssSegments(segments, map, phdrs, bias)]
=============================================================================
