-------------------------------- MODULE MemOp --------------------------------
(***************************************************************************)
(* KittyMemSys::Read/Write and KittyMemIO::Read/Write, which are one loop: *)
(* ask the kernel for all that remains, and when a page stops it, go on    *)
(* page by page, leaving out the pages that cannot be accessed.  The       *)
(* caller gets the number of bytes transferred, and holes in its buffer    *)
(* wherever a page was left out.  Meanwhile other threads map, unmap and   *)
(* protect pages, and the process may exit.                                *)
(*                                                                         *)
(* src/KittyMemory/KittyMemOp.cpp, with KittyIOFile::pread/pwrite below    *)
(* KittyMemIO.  Bytes are offsets into the caller's range; that they are   *)
(* grouped in pages is all that is kept of addresses and KT_PAGE_LEN.      *)
(***************************************************************************)
EXTENDS Naturals, FiniteSets

CONSTANTS
  Size,      \* bytes asked for
  PageOf    \* the page of each byte, counted from the first byte's

Bytes == 0..(Size - 1)

ASSUME SizeAssumption == Size \in Nat \ {0}
ASSUME PageAssumption ==
  /\ PageOf \in [Bytes -> Nat]
  /\ PageOf[0] = 0
  /\ \A o \in Bytes \ {0} : PageOf[o] \in {PageOf[o - 1], PageOf[o - 1] + 1}
  /\ \A o, p \in Bytes : o <= p => PageOf[o] <= PageOf[p]

NumPages == PageOf[Size - 1] + 1
Pages == 0..(NumPages - 1)

VARIABLES
  valid,     \* init succeeded (_pid > 0; for KittyMemIO, the file is open)
  ok,        \* pages that can be accessed now
  steady,    \* pages that could be accessed ever since the call began
  gone,      \* the target has exited
  cur,       \* offset of the next byte; `remaining` is Size - cur
  nbytes,    \* the result so far
  done,      \* bytes transferred
  pageMode,  \* the next request stops at the end of its page
  calls,     \* requests made to the kernel
  pc         \* "start", "loop" or "returned"

loopVars == <<cur, nbytes, done, pageMode, calls, pc>>
vars == <<valid, ok, steady, gone, loopVars>>

Init ==
  /\ valid \in BOOLEAN
  /\ ok \in SUBSET Pages /\ steady = ok
  /\ gone = FALSE
  /\ cur = 0 /\ nbytes = 0 /\ done = {}
  /\ pageMode = FALSE /\ calls = 0
  /\ pc = "start"

TypeOK ==
  /\ valid \in BOOLEAN
  /\ ok \in SUBSET Pages /\ steady \in SUBSET ok
  /\ gone \in BOOLEAN
  /\ cur \in 0..Size
  /\ nbytes \in Nat
  /\ done \in SUBSET Bytes
  /\ pageMode \in BOOLEAN
  /\ calls \in Nat
  /\ pc \in {"start", "loop", "returned"}

-----------------------------------------------------------------------------
(* The loop.                                                               *)

\* The end of the page of byte o, or of the range: o + KT_PAGE_LEN.
IsPageEnd(o, e) ==
  /\ e \in (o + 1)..Size
  /\ \A b \in o..(e - 1) : PageOf[b] = PageOf[o]
  /\ e < Size => PageOf[e] # PageOf[o]

\* remaining_or_pglen, as the offset where the request ends.
IsRequest(e) == IF pageMode THEN IsPageEnd(cur, e) ELSE e = Size

Begin ==
  /\ pc = "start"
  /\ pc' = IF valid THEN "loop" ELSE "returned"
  /\ UNCHANGED <<valid, ok, steady, gone, cur, nbytes, done, pageMode, calls>>

\* After a request: `while (remaining > 0)`.
Continue == pc' = IF cur' < Size THEN "loop" ELSE "returned"

Kernel ==
  /\ pc = "loop" /\ ~gone
  /\ calls' = calls + 1
  /\ UNCHANGED <<valid, ok, steady, gone>>

\* Faulty: the request counted instead of what came of it.
Bug_AcceptCount(e, stop) ==
  /\ cur' = stop
  /\ nbytes' = nbytes + (e - cur)
  /\ done' = done \cup (cur..(stop - 1))
  /\ pageMode' = (stop # e)

\* n bytes were transferred, up to stop, of a request that ends at e.
Accept(e, stop) ==
  /\ cur' = stop
  /\ nbytes' = nbytes + (stop - cur)
  /\ done' = done \cup (cur..(stop - 1))
  /\ pageMode' = (stop # e)

\* n > 0: the kernel transfers up to the first page it cannot access.
Transfer ==
  /\ Kernel
  /\ \E e, stop \in Bytes \cup {Size} :
       /\ IsRequest(e)
       /\ cur < stop /\ stop <= e
       /\ \A b \in cur..(stop - 1) : PageOf[b] \in ok
       /\ stop < e => PageOf[stop] \notin ok
       /\ Accept(e, stop)
  /\ Continue

\* Faulty: a request that fails is left out as a whole, or never.
Bug_LeaveOutAll(e) == e
Bug_LeaveOutNothing(e) == cur

\* A whole-range request is repeated in page mode, a page is left out.
LeaveOut(e) == IF pageMode THEN e ELSE cur

\* n = -1 with EFAULT, EIO or EINVAL: the first page cannot be accessed.
Fault ==
  /\ Kernel
  /\ PageOf[cur] \notin ok
  /\ \E e \in Bytes \cup {Size} : IsRequest(e) /\ cur' = LeaveOut(e)
  /\ pageMode' = TRUE
  /\ UNCHANGED <<nbytes, done>>
  /\ Continue

\* Faulty: any error is tried again.
Bug_Abandon == pc = "loop" /\ gone /\ UNCHANGED vars

\* n = -1 with another errno (ESRCH; 0 when /proc/<pid>/mem has no memory
\* behind it any more): break.
Abandon ==
  /\ pc = "loop" /\ gone
  /\ calls' = calls + 1
  /\ pc' = "returned"
  /\ UNCHANGED <<valid, ok, steady, gone, cur, nbytes, done, pageMode>>

Call == Begin \/ Transfer \/ Fault \/ Abandon

-----------------------------------------------------------------------------
(* Everyone else in the target process.                                    *)

\* mmap, munmap or mprotect.
Protect ==
  /\ \E p \in SUBSET Pages : ok' = p /\ steady' = steady \cap p
  /\ UNCHANGED <<valid, gone, loopVars>>

Exit ==
  /\ ~gone /\ gone' = TRUE
  /\ UNCHANGED <<valid, ok, steady, loopVars>>

Next == Call \/ Protect \/ Exit

\* The caller's thread runs; the others do what they like.
Spec == Init /\ [][Next]_vars /\ WF_vars(Call)

-----------------------------------------------------------------------------
(* Properties.                                                             *)

\* The result is the number of bytes transferred, however often the loop
\* went into page mode and out again: no byte is counted twice or for a page
\* that was left out.
Accounting == nbytes = Cardinality(done)

\* Unless the target exits, a byte is missing from the result only if its
\* page was inaccessible at some time during the call: the caller loses
\* nothing that was there throughout, whatever lies around it.
NothingLost ==
  pc = "returned" /\ valid /\ ~gone =>
    \A b \in Bytes : PageOf[b] \in steady => b \in done

\* The loop is never in the middle of a page: what it transfers or leaves
\* out next begins where a page does.
AtPageStart == cur \in Bytes \ {0} => PageOf[cur] # PageOf[cur - 1]

\* Pages the loop has dealt with.
PagesBehind == IF cur = Size THEN NumPages ELSE PageOf[cur]

\* Two requests per page at the most, even if other threads keep changing
\* the protection under the loop: page mode cannot go round in circles.
CallsBounded ==
  calls <= 2 * PagesBehind + (IF pageMode THEN 1 ELSE 0)
             + (IF gone THEN 1 ELSE 0)

\* The call returns, whatever the others do to the pages.
Terminates == <>(pc = "returned")
==============================================================================
