--------------------------- MODULE MCApiResolver ---------------------------
(* Two APIs; one has an entry whose first slot is empty and two entries,   *)
(* so that every way round the three loops is taken.                       *)
EXTENDS ApiResolver, TLC

MCApis == <<"domain_get", "class_from_type">>
MCMachines == {40, 183, 8}
MCPatterns == {"p", "q"}
MCEntry(n, x, y) == [name |-> n, patterns |-> <<x, y>>]
MCRegistry ==
  (183 :> <<MCEntry("domain_get", NoPattern, "p"),
            MCEntry("class_from_type", "q", "p"),
            MCEntry("domain_get", "q", NoPattern)>>)
  @@ (40 :> <<MCEntry("domain_get", NoPattern, NoPattern),
              MCEntry("class_from_type", "p", NoPattern)>>)
=============================================================================
