--------------------------- MODULE ApiResolution ---------------------------
(***************************************************************************)
(* What Dumper::Run needs of IL2CPP::ResolveFunctions, whatever the loops  *)
(* look like: the pointers are settled one after the other, each once and  *)
(* for all, with the one value the module offers for it, and the answer is *)
(* whether every function was on offer.  ApiResolver implements it.        *)
(***************************************************************************)
EXTENDS Naturals

CONSTANTS NumApis, Null

VARIABLES
  offer,    \* the value the module has for each pointer, or Null
  ptr,      \* the pointers
  settled,  \* pointers 1..settled have their final value
  answer    \* "pending", "all" or "not all"

vars == <<offer, ptr, settled, answer>>

Init ==
  /\ ptr = [b \in 1..NumApis |-> Null]
  /\ settled = 0
  /\ answer = "pending"

Settle ==
  /\ settled < NumApis
  /\ settled' = settled + 1
  /\ ptr' = [ptr EXCEPT ![settled'] = offer[settled']]
  /\ UNCHANGED <<offer, answer>>

\* The module is not one to search in.
Refuse ==
  /\ settled = 0 /\ answer = "pending"
  /\ answer' = "not all"
  /\ UNCHANGED <<offer, ptr, settled>>

Answer ==
  /\ settled = NumApis /\ answer = "pending"
  /\ answer' = IF \A b \in 1..NumApis : offer[b] # Null THEN "all" ELSE "not all"
  /\ UNCHANGED <<offer, ptr, settled>>

Next == Settle \/ Refuse \/ Answer

Spec == Init /\ [][Next]_vars
=============================================================================
