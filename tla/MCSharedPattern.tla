-------------------------- MODULE MCSharedPattern --------------------------
(* Three entries of AArch64_Sigs as config.hpp has them: the patterns of   *)
(* il2cpp_class_get_interfaces and il2cpp_class_from_type are the same     *)
(* bytes.  The two different patterns start with different bytes, so they  *)
(* never match at the same address.                                        *)
EXTENDS ApiResolver, TLC

MCApis == <<"image_get_class", "class_get_interfaces", "class_from_type">>
MCPatterns == {"5B 9B FF 17 0B 4E FF 17", "0B 4E FF 17"}
MCEntry(n, x) == [name |-> n, patterns |-> <<x, NoPattern>>]
MCRegistry ==
  183 :> <<MCEntry("image_get_class", "5B 9B FF 17 0B 4E FF 17"),
           MCEntry("class_get_interfaces", "0B 4E FF 17"),
           MCEntry("class_from_type", "0B 4E FF 17")>>

MCSpec ==
  /\ Init
  /\ \A p, q \in MCPatterns, g, h \in Segments :
       hit[p][g] = hit[q][h] /\ hit[p][g] # Null => p = q /\ g = h
  /\ [][Next]_vars
=============================================================================
