----------------------------- MODULE MemOpProofs -----------------------------
(* Theorems about MemOp, for every range and every layout of its pages.     *)
EXTENDS MemOp, FiniteSetTheorems, TLAPS

\* The counts agree, and what is transferred lies behind the cursor.
Counted ==
  /\ done \subseteq 0..(cur - 1)
  /\ IsFiniteSet(done)
  /\ Accounting

\* A byte behind the cursor is transferred unless its page was inaccessible.
Swept == \A b \in 0..(cur - 1) : PageOf[b] \in steady => b \in done

\* Only the request that finds the target gone is beyond two per page.
CallsTight ==
  calls <= 2 * PagesBehind + (IF pageMode THEN 1 ELSE 0)
             + (IF gone /\ pc = "returned" THEN 1 ELSE 0)

Control ==
  /\ pc = "start" => cur = 0 /\ calls = 0 /\ ~pageMode
  /\ pc = "loop" => cur < Size
  /\ pc = "returned" /\ valid /\ ~gone => cur = Size

IInv == TypeOK /\ Control /\ Counted /\ Swept /\ AtPageStart /\ CallsTight

-----------------------------------------------------------------------------
(* Pages.                                                                  *)

LEMMA PageTypes ==
  /\ Size \in Nat \ {0} /\ Bytes = 0..(Size - 1)
  /\ NumPages \in Nat
  /\ \A b \in Bytes : PageOf[b] \in Pages /\ PageOf[b] < NumPages
BY SizeAssumption, PageAssumption DEF Bytes, NumPages, Pages

\* Going on to the start of a later page, or to the end, leaves at least one
\* page more behind.
LEMMA NextPageStart ==
  ASSUME NEW c \in Bytes, NEW d \in (c + 1)..Size,
         d < Size => PageOf[d] # PageOf[d - 1]
  PROVE  (IF d = Size THEN NumPages ELSE PageOf[d]) >= PageOf[c] + 1
<1> USE SizeAssumption, PageAssumption DEF Bytes
<1>1. CASE d = Size
  BY <1>1 DEF NumPages
<1>2. CASE d # Size
  <2>1. d \in Bytes \ {0} /\ d - 1 \in Bytes
    BY <1>2
  <2>2. PageOf[d] = PageOf[d - 1] + 1
    BY <1>2, <2>1
  <2>3. PageOf[c] <= PageOf[d - 1]
    BY <2>1
  <2> QED BY <1>2, <2>1, <2>2, <2>3
<1> QED BY <1>1, <1>2

\* The arithmetic of two requests per page.
LEMMA TwoPerPage ==
  ASSUME NEW p \in Nat, NEW q \in Nat, NEW c \in Nat, q >= p + 1,
         c <= 2 * p + 1, NEW a, NEW b
  PROVE  c + 1 <= 2 * q + (IF a THEN 1 ELSE 0) + (IF b THEN 1 ELSE 0)
OBVIOUS

\* A request for one page ends where the next page starts.
LEMMA PageEndIsStart ==
  ASSUME NEW c \in Bytes, NEW e, IsPageEnd(c, e)
  PROVE  /\ e \in (c + 1)..Size
         /\ e < Size => PageOf[e] # PageOf[e - 1]
<1>1. e \in (c + 1)..Size /\ e - 1 \in c..(e - 1)
  BY PageTypes DEF IsPageEnd
<1>2. PageOf[e - 1] = PageOf[c]
  BY <1>1 DEF IsPageEnd
<1> QED BY <1>1, <1>2 DEF IsPageEnd

-----------------------------------------------------------------------------
(* The invariant.                                                          *)

LEMMA InitIInv == Init => IInv
<1> SUFFICES ASSUME Init PROVE IInv
  OBVIOUS
<1> USE DEF Init
<1>1. TypeOK
  <2>1. 0 \in 0..Size /\ {} \in SUBSET Bytes
    BY SizeAssumption
  <2> QED BY <2>1, Zenon DEF TypeOK
<1>2. Counted
  BY FS_EmptySet DEF Counted, Accounting
<1>3. Control /\ Swept /\ AtPageStart
  BY PageTypes DEF Control, Swept, AtPageStart
<1>4. CallsTight
  BY PageTypes, PageAssumption DEF CallsTight, PagesBehind
<1> QED BY <1>1, <1>2, <1>3, <1>4 DEF IInv

LEMMA TransferIInv == IInv /\ Transfer => IInv'
<1> SUFFICES ASSUME IInv, Transfer PROVE IInv'
  OBVIOUS
<1> USE PageTypes
<1>0. TypeOK /\ pc = "loop" /\ ~gone /\ cur \in Bytes
  BY DEF IInv, Transfer, Kernel, TypeOK, Control
<1>1. PICK e \in Bytes \cup {Size}, stop \in Bytes \cup {Size} :
        /\ IsRequest(e)
        /\ cur < stop /\ stop <= e
        /\ \A b \in cur..(stop - 1) : PageOf[b] \in ok
        /\ stop < e => PageOf[stop] \notin ok
        /\ Accept(e, stop)
  BY DEF Transfer
<1>2. /\ cur' = stop /\ nbytes' = nbytes + (stop - cur)
      /\ done' = done \cup (cur..(stop - 1)) /\ pageMode' = (stop # e)
      /\ calls' = calls + 1
      /\ UNCHANGED <<valid, ok, steady, gone>>
      /\ pc' = IF cur' < Size THEN "loop" ELSE "returned"
  BY <1>1 DEF Accept, Transfer, Kernel, Continue
<1>3. stop \in (cur + 1)..Size
  BY <1>0, <1>1
<1>4. stop < Size => PageOf[stop] # PageOf[stop - 1]
  <2>1. CASE stop < e
    BY <1>0, <1>1, <1>3, <2>1
  <2>2. CASE stop = e
    BY <1>0, <1>1, <2>2, PageEndIsStart DEF IsRequest
  <2> QED BY <1>0, <1>1, <2>1, <2>2
<1>5. TypeOK' /\ Control'
  BY <1>0, <1>2, <1>3 DEF TypeOK, Control
<1>6. Counted'
  <2>1. IsFiniteSet(cur..(stop - 1)) /\ Cardinality(cur..(stop - 1)) = stop - cur
    BY <1>0, <1>3, FS_Interval
  <2>2. done \cap (cur..(stop - 1)) = {}
    BY <1>0, <1>3 DEF IInv, Counted
  <2>3. /\ IsFiniteSet(done')
        /\ Cardinality(done') = Cardinality(done) + (stop - cur)
    <3>1. IsFiniteSet(done) /\ Cardinality(done) \in Nat
      BY <1>0 DEF IInv, Counted, Accounting, TypeOK
    <3>2. /\ IsFiniteSet(done \cup (cur..(stop - 1)))
          /\ Cardinality(done \cup (cur..(stop - 1)))
               = Cardinality(done) + Cardinality(cur..(stop - 1))
                   - Cardinality(done \cap (cur..(stop - 1)))
      BY <2>1, <3>1, FS_Union, Zenon
    <3>3. Cardinality(done \cap (cur..(stop - 1))) = 0
      BY <2>2, FS_EmptySet
    <3>4. stop - cur \in Nat
      BY <1>0, <1>3
    <3> QED BY <1>2, <2>1, <3>1, <3>2, <3>3, <3>4
  <2>4. done' \subseteq 0..(cur' - 1)
    BY <1>0, <1>2, <1>3 DEF IInv, Counted
  <2> QED BY <1>2, <2>3, <2>4 DEF IInv, Counted, Accounting
<1>7. Swept'
  BY <1>0, <1>2, <1>3 DEF IInv, Swept
<1>8. AtPageStart'
  BY <1>2, <1>3, <1>4 DEF AtPageStart
<1>9. CallsTight'
  <2>1. PagesBehind' >= PagesBehind + 1 /\ PagesBehind \in Nat /\ PagesBehind' \in Nat
    BY <1>0, <1>2, <1>3, <1>4, NextPageStart DEF PagesBehind, Pages
  <2>2. calls <= 2 * PagesBehind + 1 /\ calls \in Nat
    BY <1>0, <2>1 DEF IInv, CallsTight, TypeOK
  <2>3. calls' = calls + 1
    BY <1>2
  <2> QED BY <2>1, <2>2, <2>3, TwoPerPage DEF CallsTight
<1> QED BY <1>5, <1>6, <1>7, <1>8, <1>9 DEF IInv

LEMMA FaultIInv == IInv /\ Fault => IInv'
<1> SUFFICES ASSUME IInv, Fault PROVE IInv'
  OBVIOUS
<1> USE PageTypes
<1>0. TypeOK /\ pc = "loop" /\ ~gone /\ cur \in Bytes /\ PageOf[cur] \notin ok
  BY DEF IInv, Fault, Kernel, TypeOK, Control
<1>1. PICK e \in Bytes \cup {Size} : IsRequest(e) /\ cur' = LeaveOut(e)
  BY DEF Fault
<1>2. /\ pageMode' = TRUE /\ calls' = calls + 1
      /\ UNCHANGED <<valid, ok, steady, gone, nbytes, done>>
      /\ pc' = IF cur' < Size THEN "loop" ELSE "returned"
  BY DEF Fault, Kernel, Continue
<1>3. CASE ~pageMode
  <2>1. cur' = cur /\ pc' = pc
    BY <1>0, <1>1, <1>2, <1>3 DEF LeaveOut
  <2>2. TypeOK' /\ Control' /\ Counted' /\ Swept' /\ AtPageStart'
    BY <1>0, <1>2, <2>1
    DEF IInv, TypeOK, Control, Counted, Accounting, Swept, AtPageStart
  <2>3. CallsTight'
    BY <1>0, <1>2, <1>3, <2>1
    DEF IInv, CallsTight, PagesBehind, TypeOK, Pages
  <2> QED BY <2>2, <2>3 DEF IInv
<1>4. CASE pageMode
  <2>1. cur' = e /\ IsPageEnd(cur, e)
    BY <1>1, <1>4 DEF LeaveOut, IsRequest
  <2>2. e \in (cur + 1)..Size /\ (e < Size => PageOf[e] # PageOf[e - 1])
    BY <1>0, <2>1, PageEndIsStart
  <2>3. TypeOK' /\ Control'
    BY <1>0, <1>2, <2>1, <2>2 DEF TypeOK, Control
  <2>4. Counted'
    BY <1>0, <1>2, <2>1, <2>2 DEF IInv, Counted, Accounting
  <2>5. \A b \in cur..(e - 1) : PageOf[b] \notin steady
    BY <1>0, <2>1 DEF IsPageEnd, TypeOK
  <2>6. Swept'
    BY <1>0, <1>2, <2>1, <2>2, <2>5 DEF IInv, Swept
  <2>7. AtPageStart'
    BY <2>1, <2>2 DEF AtPageStart
  <2>8. CallsTight'
    <3>1. PagesBehind' >= PagesBehind + 1 /\ PagesBehind \in Nat /\ PagesBehind' \in Nat
      BY <1>0, <2>1, <2>2, NextPageStart DEF PagesBehind, Pages
    <3>2. calls <= 2 * PagesBehind + 1 /\ calls \in Nat
      BY <1>0, <3>1 DEF IInv, CallsTight, TypeOK
    <3>3. calls' = calls + 1
      BY <1>2
    <3> QED BY <3>1, <3>2, <3>3, TwoPerPage DEF CallsTight
  <2> QED BY <2>3, <2>4, <2>6, <2>7, <2>8 DEF IInv
<1> QED BY <1>0, <1>3, <1>4 DEF TypeOK

\* The remaining actions leave the cursor where it is.
LEMMA OtherIInv == IInv /\ (Begin \/ Abandon \/ Protect \/ Exit) => IInv'
<1> SUFFICES ASSUME IInv, Begin \/ Abandon \/ Protect \/ Exit PROVE IInv'
  OBVIOUS
<1> USE PageTypes
<1>0. TypeOK /\ UNCHANGED <<valid, cur, nbytes, done, pageMode>>
  BY DEF IInv, Begin, Abandon, Protect, Exit, loopVars
<1>1. TypeOK'
  <2>1. steady' \in SUBSET ok' /\ ok' \in SUBSET Pages /\ gone' \in BOOLEAN
    BY <1>0 DEF TypeOK, Begin, Abandon, Protect, Exit
  <2>2. calls' \in Nat /\ pc' \in {"start", "loop", "returned"}
    BY <1>0 DEF TypeOK, Begin, Abandon, Protect, Exit, loopVars
  <2> QED BY <1>0, <2>1, <2>2 DEF TypeOK
<1>2. Counted' /\ AtPageStart'
  BY <1>0 DEF IInv, Counted, Accounting, AtPageStart
<1>3. Swept'
  BY <1>0 DEF IInv, Swept, Begin, Abandon, Protect, Exit
<1>4. Control'
  BY <1>0 DEF IInv, Control, Begin, Abandon, Protect, Exit, loopVars, TypeOK
<1>5. CallsTight'
  <2>1. PagesBehind \in Nat /\ UNCHANGED PagesBehind
    BY <1>0 DEF PagesBehind, TypeOK, Pages
  <2>2. calls \in Nat
    BY <1>0 DEF TypeOK
  <2> QED BY <1>0, <2>1, <2>2
          DEF IInv, CallsTight, Begin, Abandon, Protect, Exit, loopVars
<1> QED BY <1>1, <1>2, <1>3, <1>4, <1>5 DEF IInv

LEMMA StutterIInv == IInv /\ UNCHANGED vars => IInv'
BY DEF IInv, vars, loopVars, TypeOK, Control, Counted, Accounting, Swept,
       AtPageStart, CallsTight, PagesBehind

LEMMA IInvHolds == Spec => []IInv
<1>1. IInv /\ [Next]_vars => IInv'
  BY TransferIInv, FaultIInv, OtherIInv, StutterIInv DEF Next, Call
<1> QED BY InitIInv, <1>1, PTL DEF Spec

\* The variables keep their types.
THEOREM TypeCorrect == Spec => []TypeOK
BY IInvHolds, PTL DEF IInv

\* However often Read and Write change between whole-range and page mode,
\* the result counts each transferred byte once.
THEOREM AccountingHolds == Spec => []Accounting
BY IInvHolds, PTL DEF IInv, Counted

\* Every byte of every page that is accessible throughout is transferred.
THEOREM NothingIsLost == Spec => []NothingLost
<1>1. IInv => NothingLost
  BY PageTypes DEF IInv, Control, Swept, NothingLost
<1> QED BY IInvHolds, <1>1, PTL

\* The loop stays aligned to pages.
THEOREM StaysAligned == Spec => []AtPageStart
BY IInvHolds, PTL DEF IInv

\* At most two requests per page, whatever happens to the protections.
THEOREM CallsAreBounded == Spec => []CallsBounded
<1>1. IInv => CallsBounded
  <2> SUFFICES ASSUME IInv PROVE CallsBounded
    OBVIOUS
  <2>1. PagesBehind \in Nat /\ calls \in Nat
    BY PageTypes DEF IInv, TypeOK, PagesBehind, Pages
  <2> QED BY <2>1 DEF IInv, CallsTight, CallsBounded
<1> QED BY IInvHolds, <1>1, PTL
==============================================================================
