--------------------------- MODULE MCCsGenerator ---------------------------
(* Images of up to two classes out of a few that take each way through the  *)
(* loops, and one class for each combination of flags a method can have.    *)
EXTENDS CsGenerator

MkField(name, type, access, flags) ==
  [name |-> name, type |-> type, access |-> access, flags |-> flags]
MkMethod(name, access, flags, params) ==
  [name |-> name, access |-> access, flags |-> flags, params |-> params]
MkClass(name, parent, visibility, flags, enum, value, fields, methods) ==
  [name |-> name, parent |-> parent,
   visibility |-> visibility, flags |-> flags, enum |-> enum, value |-> value, fields |-> fields, methods |-> methods]

\* Null pointers, odd names and members to skip, before, between and behind
\* those that are printed.
MCFields ==
  { <<>>,
    <<MkField("plain", "int", "private", {})>>,
    <<MkField("null", "int", "public", {}),
      MkField("plain", "int", "family", {"static"}),
      MkField("plain", "null", "public", {}),
      MkField("high", "int", "public", {"literal"})>> }
MCParams == UNION {[1..n -> {"null", "int"}] : n \in 0..3}
MCMethods ==
  { <<>>, <<MkMethod("blank", "public", {}, <<>>)>> } \cup
  {<<MkMethod("plain", "public", {}, ps),
     MkMethod("high", "private", {"static"}, <<"int">>)>> : ps \in MCParams}
\* name, parent's name, visibility, flags, enum, valuetype
MCHeads ==
  { <<"plain", "none", "public", {}, FALSE, FALSE>>,
    <<"blank", "plain", "nestedPrivate", {"sealed"}, FALSE, TRUE>>,
    <<"plain", "blank", "notPublic", {"interface", "abstract"}, FALSE, FALSE>>,
    <<"plain", "null", "public", {"abstract"}, FALSE, FALSE>> }
MCClasses ==
  {NoClass} \cup
  {MkClass(h[1], h[2], h[3], h[4], h[5], h[6], fs, ms) :
     h \in MCHeads, fs \in MCFields, ms \in MCMethods}

\* A class to come before or behind another.
Neighbours ==
  {NoClass,
   MkClass("plain", "plain", "nestedFamOrAssem", {"sealed"}, TRUE, TRUE,
           <<MkField("plain", "int", "public", {"literal"})>>,
           <<MkMethod("plain", "public", {"static", "pinvoke"}, <<"int", "int">>)>>)}

\* The flags ECMA-335 allows a method: static or virtual; final, abstract and
\* newslot only if virtual; not final and abstract.
MethodFlags ==
  {{}, {"static"}, {"static", "pinvoke"}} \cup
  {{"virtual"} \cup s \cup t : s \in {{}, {"newSlot"}}, t \in {{}, {"final"}, {"abstract"}}}
FlagImages ==
  {<<MkClass("plain", "none", "public", {}, FALSE, FALSE, <<>>,
             <<MkMethod("plain", a, fl, <<>>)>>)>> :
     a \in DOMAIN Access, fl \in MethodFlags}

MCImages ==
  {<<>>} \cup FlagImages \cup {<<c>> : c \in MCClasses}
    \cup {<<c, d>> : c \in MCClasses, d \in Neighbours}
    \cup {<<d, c>> : c \in MCClasses, d \in Neighbours}
=============================================================================
