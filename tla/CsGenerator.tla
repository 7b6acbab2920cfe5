----------------------------- MODULE CsGenerator -----------------------------
(***************************************************************************)
(* The block Generator::ExportCS writes for one assembly: its loops over   *)
(* the classes of the image, the fields and methods of each class and the  *)
(* parameters of each method, over metadata that il2cpp hands out and that *)
(* stripping and obfuscation have left null pointers and odd names in.     *)
(* The dump is a sequence of tokens: which item, with which modifiers.     *)
(*                                                                         *)
(* src/generator/cs_generator.cpp.  Module Dumper has the loop over the    *)
(* assemblies and what becomes of the stream.                              *)
(***************************************************************************)
EXTENDS Naturals, Sequences, FiniteSets

CONSTANTS
  Images,      \* metadata of an assembly: a sequence of classes
  SignedChar,  \* is `char` signed in this build (x86) or not (ARM)?
  NoClass      \* a null class pointer

ASSUME CharAssumption == SignedChar \in BOOLEAN

VARIABLES
  image,      \* the assembly's classes
  j,          \* class
  f, m,       \* the iterators of il2cpp_class_get_fields and _methods
  p,          \* parameter
  hasFields,
  out,        \* what was written
  pc          \* "image", "class", "fields", "methods", "params", "end", "fault"

walkVars == <<j, f, m, p, hasFields>>
vars == <<image, walkVars, out, pc>>


\* Names: null, empty or starting with a control character, starting with a
\* byte above 127, or plain.  `name[0] < 32` is true of the third as well
\* when char is signed.
Names == {"null", "blank", "high", "plain"}

\* The access bits of fields and of methods have the same values.
Access ==
  [private |-> {"private"}, famAndAssem |-> {"internal"},
   assembly |-> {"internal"}, family |-> {"protected"},
   famOrAssem |-> {"protected", "internal"}, public |-> {"public"},
   privateScope |-> {}]

Visibility ==
  [notPublic |-> {"internal"}, public |-> {"public"},
   nestedPublic |-> {"public"}, nestedPrivate |-> {"private"},
   nestedFamily |-> {"protected"}, nestedAssembly |-> {"internal"},
   nestedFamAndAssem |-> {"internal"},
   nestedFamOrAssem |-> {"protected", "internal"}]

\* Metadata as il2cpp hands it out.  A type is null or whatever it is called, and the
\* flags of a method are such as ECMA-335 allows.
Allowed(flags) ==
  /\ flags \cap {"newSlot", "final", "abstract"} # {} => "virtual" \in flags
  /\ ~({"final", "abstract"} \subseteq flags) /\ ~({"static", "virtual"} \subseteq flags)
Fields == [name : Names, type : STRING, access : DOMAIN Access, flags : SUBSET {"static", "initOnly", "literal"}]
Methods ==
  [name : Names, access : DOMAIN Access, params : Seq(STRING),
   flags : {fl \in SUBSET {"static", "virtual", "newSlot", "final", "abstract", "pinvoke"} : Allowed(fl)}]
Classes ==
  [name : Names, parent : Names \cup {"none"}, visibility : DOMAIN Visibility,
   flags : SUBSET {"interface", "abstract", "sealed"}, enum : BOOLEAN, value : BOOLEAN,
   fields : Seq(Fields), methods : Seq(Methods)]

ASSUME ImagesAssumption == Images \subseteq Seq(Classes \cup {NoClass})

Init ==
  /\ image \in Images
  /\ j = 1 /\ f = 1 /\ m = 1 /\ p = 1
  /\ hasFields = FALSE
  /\ out = <<>>
  /\ pc = "image"

-----------------------------------------------------------------------------
(* Modifiers, as sets of words; flags as sets of attribute names.          *)

FieldWords(flags) ==
  IF "literal" \in flags THEN {"const"}
  ELSE (IF "static" \in flags THEN {"static"} ELSE {})
         \cup (IF "initOnly" \in flags THEN {"readonly"} ELSE {})

\* Faulty: NEW_SLOT for REUSE_SLOT where `override` is chosen.
Bug_MethodWords(flags) ==
  {w \in {"static", "abstract", "override", "sealed", "virtual", "extern"} :
     CASE w \in {"static", "abstract"} -> w \in flags
       [] w = "override" -> /\ flags \cap {"abstract", "final", "virtual"} # {}
                            /\ "newSlot" \in flags
       [] w = "sealed" -> /\ "final" \in flags
                          /\ flags \cap {"abstract", "newSlot"} = {}
       [] w = "virtual" -> /\ "virtual" \in flags
                           /\ flags \cap {"abstract", "final", "newSlot"} = {}
       [] w = "extern" -> "pinvoke" \in flags}

MethodWords(flags) ==
  {w \in {"static", "abstract", "override", "sealed", "virtual", "extern"} :
     CASE w \in {"static", "abstract"} -> w \in flags
       [] w = "override" -> /\ flags \cap {"abstract", "final", "virtual"} # {}
                            /\ "newSlot" \notin flags
       [] w = "sealed" -> /\ "final" \in flags
                          /\ flags \cap {"abstract", "newSlot"} = {}
       [] w = "virtual" -> /\ {"virtual", "newSlot"} \subseteq flags
                           /\ flags \cap {"abstract", "final"} = {}
       [] w = "extern" -> "pinvoke" \in flags}

TypeWords(flags) ==
  {w \in {"static", "abstract", "sealed"} :
     CASE w = "static" -> {"abstract", "sealed"} \subseteq flags
       [] w = "abstract" -> /\ "abstract" \in flags
                            /\ flags \cap {"sealed", "interface"} = {}
       [] w = "sealed" -> "sealed" \in flags /\ "abstract" \notin flags}

Keyword(class) ==
  IF "interface" \in class.flags THEN "interface"
  ELSE IF class.enum THEN "enum"
  ELSE IF class.value THEN "struct" ELSE "class"

-----------------------------------------------------------------------------
(* Tokens.                                                                 *)

\* What a token is, the indices of the item it is for, its modifiers.
Token(what, item, words) == [what |-> what, item |-> item, words |-> words]
Mark(what) == Token(what, <<>>, {})
Write(tokens) == out' = out \o tokens

Printable(name) == name = "plain" \/ (name = "high" /\ ~SignedChar)

Class == image[j]
Method == Class.methods[m]

-----------------------------------------------------------------------------
(* The loops.                                                              *)

BeginImage ==
  /\ pc = "image" /\ pc' = "class"
  /\ Write(<<Mark("namespace"), Mark("block")>>)
  /\ UNCHANGED <<image, walkVars>>

EndImage ==
  /\ pc = "class" /\ j > Len(image) /\ pc' = "end"
  /\ Write(<<Mark("endBlock")>>)
  /\ UNCHANGED <<image, walkVars>>

\* A class that was stripped: `continue`.
SkipClass ==
  /\ pc = "class" /\ j <= Len(image) /\ Class = NoClass
  /\ j' = j + 1
  /\ UNCHANGED <<image, f, m, p, hasFields, out, pc>>

Header(class) ==
  <<Token(Keyword(class), <<j>>,
          Visibility[class.visibility] \cup TypeWords(class.flags))>>
Base(class) == IF class.parent \in {"none", "blank"} THEN <<>>
                                                     ELSE <<Mark("base")>>

\* std::string of a null name: of the class, or of its parent once the
\* class's header is out.
NullName ==
  /\ pc = "class" /\ j <= Len(image) /\ Class # NoClass
  /\ \/ Class.name = "null" /\ UNCHANGED out
     \/ Class.name # "null" /\ Class.parent = "null" /\ Write(Header(Class))
  /\ pc' = "fault"
  /\ UNCHANGED <<image, walkVars>>

BeginClass ==
  /\ pc = "class" /\ j <= Len(image) /\ Class # NoClass
  /\ "null" \notin {Class.name, Class.parent}
  /\ Write(Header(Class) \o Base(Class) \o <<Mark("block")>>)
  /\ f' = 1 /\ m' = 1 /\ hasFields' = FALSE
  /\ pc' = "fields"
  /\ UNCHANGED <<image, j, p>>

\* Faulty: `break` for `continue` at a field that cannot be printed.
Bug_NextField ==
  /\ pc = "fields" /\ f <= Len(Class.fields)
  /\ LET field == Class.fields[f] IN
       IF Printable(field.name) /\ field.type # "null"
         THEN /\ Write(<<Token("field", <<j, f>>,
                               Access[field.access] \cup FieldWords(field.flags))>>)
              /\ hasFields' = TRUE /\ f' = f + 1
         ELSE UNCHANGED <<out, hasFields>> /\ f' = Len(Class.fields) + 1
  /\ UNCHANGED <<image, j, m, p, pc>>

NextField ==
  /\ pc = "fields" /\ f <= Len(Class.fields)
  /\ f' = f + 1
  /\ LET field == Class.fields[f] IN
       IF Printable(field.name) /\ field.type # "null"
         THEN /\ Write(<<Token("field", <<j, f>>,
                               Access[field.access] \cup FieldWords(field.flags))>>)
              /\ hasFields' = TRUE
         ELSE UNCHANGED <<out, hasFields>>
  /\ UNCHANGED <<image, j, m, p, pc>>

EndFields ==
  /\ pc = "fields" /\ f > Len(Class.fields) /\ pc' = "methods"
  /\ Write(IF hasFields THEN <<Mark("blank")>> ELSE <<>>)
  /\ UNCHANGED <<image, walkVars>>

SkipMethod ==
  /\ pc = "methods" /\ m <= Len(Class.methods) /\ ~Printable(Method.name)
  /\ m' = m + 1
  /\ UNCHANGED <<image, j, f, p, hasFields, out, pc>>

BeginMethod ==
  /\ pc = "methods" /\ m <= Len(Class.methods) /\ Printable(Method.name)
  /\ Write(<<Token("method", <<j, m>>,
                   Access[Method.access] \cup MethodWords(Method.flags)),
             Mark("paren")>>)
  /\ p' = 1 /\ pc' = "params"
  /\ UNCHANGED <<image, j, f, m, hasFields>>

\* Faulty: the comma after every parameter, also the last.
Bug_Comma(count) == <<Mark("comma")>>

Comma(count) == IF p < count THEN <<Mark("comma")>> ELSE <<>>

\* A parameter whose type is null is left out, with the comma behind it.
NextParam ==
  /\ pc = "params" /\ p <= Len(Method.params)
  /\ p' = p + 1
  /\ Write(IF Method.params[p] = "null" THEN <<>>
           ELSE <<Token("param", <<j, m, p>>, {})>> \o Comma(Len(Method.params)))
  /\ UNCHANGED <<image, j, f, m, hasFields, pc>>

\* Faulty: the next method begins before this one is closed.
Bug_EndMethod ==
  /\ pc = "params" /\ p > Len(Method.params)
  /\ m' = m + 1 /\ pc' = "methods"
  /\ Write(IF Method.params = <<>> THEN <<>> ELSE <<Mark("endParen")>>)
  /\ UNCHANGED <<image, j, f, p, hasFields>>

EndMethod ==
  /\ pc = "params" /\ p > Len(Method.params)
  /\ m' = m + 1 /\ pc' = "methods"
  /\ Write(<<Mark("endParen")>>)
  /\ UNCHANGED <<image, j, f, p, hasFields>>

EndClass ==
  /\ pc = "methods" /\ m > Len(Class.methods)
  /\ j' = j + 1 /\ pc' = "class"
  /\ Write(<<Mark("endBlock")>>)
  /\ UNCHANGED <<image, f, m, p, hasFields>>

Next ==
  \/ BeginImage \/ EndImage
  \/ SkipClass \/ NullName \/ BeginClass \/ EndClass
  \/ NextField \/ EndFields
  \/ SkipMethod \/ BeginMethod \/ EndMethod \/ NextParam

Spec == Init /\ [][Next]_vars

-----------------------------------------------------------------------------
(* Properties.                                                             *)

Keywords == {"class", "struct", "enum", "interface"}
ItemTokens == Keywords \cup {"field", "method", "param"}

InClass == pc \in {"fields", "methods", "params"}

Count(what) == Cardinality({i \in 1..Len(out) : out[i].what = what})

\* Braces and parentheses match: what is open is what the loops are inside
\* of, after every write, so also where a fault cuts the dump off.
WellNested ==
  /\ Count("block") = Count("endBlock") + (CASE pc \in {"image", "end"} -> 0
                                  [] pc \in {"class", "fault"} -> 1
                                  [] InClass -> 2)
  /\ Count("paren") = Count("endParen") + (IF pc = "params" THEN 1 ELSE 0)

\* What the dump of the image has to name, item by item.
Items(what) ==
  LET classes == {c \in 1..Len(image) : image[c] # NoClass}
      fields(c) == {k \in 1..Len(image[c].fields) :
                      /\ Printable(image[c].fields[k].name)
                      /\ image[c].fields[k].type # "null"}
      methods(c) == {k \in 1..Len(image[c].methods) :
                       Printable(image[c].methods[k].name)}
      params(c, k) == {q \in 1..Len(image[c].methods[k].params) :
                         image[c].methods[k].params[q] # "null"}
  IN  CASE what \in Keywords ->
             {<<c>> : c \in {d \in classes : Keyword(image[d]) = what}}
        [] what = "field" -> UNION {{<<c, k>> : k \in fields(c)} : c \in classes}
        [] what = "method" -> UNION {{<<c, k>> : k \in methods(c)} : c \in classes}
        [] what = "param" ->
             UNION {UNION {{<<c, k, q>> : q \in params(c, k)} : k \in methods(c)}
                      : c \in classes}

Written(what) == {out[i].item : i \in {k \in 1..Len(out) : out[k].what = what}}

\* Nothing is written twice, whatever was skipped on the way, and a member
\* comes after the header of its own class and before that of the next.
OnceUnderItsClass ==
  \A i, k \in 1..Len(out) : i < k /\ out[i].item # <<>> /\ out[k].item # <<>> =>
    /\ <<out[i].what, out[i].item>> # <<out[k].what, out[k].item>>
    /\ out[i].item[1] <= out[k].item[1]
    /\ out[k].what \in Keywords => out[i].item[1] < out[k].item[1]

\* The finished dump names every class that is there, every field with a
\* type and every method, if its name can be printed, and every parameter
\* with a type: null entries cost their neighbours nothing.
MirrorsImage ==
  /\ OnceUnderItsClass
  /\ pc = "end" => \A what \in ItemTokens : Written(what) = Items(what)

\* Parameters are separated by commas.  A comma is left hanging only in front
\* of parameters that have no type.
ParamsSeparated ==
  \A i \in 1..(Len(out) - 1) :
    /\ out[i].what = "param" => out[i + 1].what \in {"comma", "endParen"}
    /\ out[i].what = "comma" =>
         \/ out[i + 1].what = "param"
         \/ LET item == out[i - 1].item
                params == image[item[1]].methods[item[2]].params
            IN  /\ item[3] < Len(params)
                /\ \A q \in (item[3] + 1)..Len(params) : params[q] = "null"

\* The modifiers of a method mean what its flags mean: it overrides exactly
\* when it is virtual without a slot of its own, and no combination comes out
\* that C# forbids.
ModifiersFollowCSharp ==
  \A i \in 1..Len(out) : out[i].what = "method" =>
    LET flags == image[out[i].item[1]].methods[out[i].item[2]].flags
        words == out[i].words
    IN  /\ "override" \in words <=> "virtual" \in flags /\ "newSlot" \notin flags
        /\ "sealed" \in words => "override" \in words
        /\ "virtual" \in words =>
             words \cap {"override", "abstract", "sealed", "static"} = {}
        /\ "static" \in words =>
             words \cap {"override", "abstract", "sealed", "virtual"} = {}

\* generator.hpp:8: ExportCS "generates standard C# formats".  C# has no
\* modifier `sealed` for structs and enums, which are sealed in metadata.
StandardCSharp ==
  \A i \in 1..Len(out) :
    out[i].what \in {"struct", "enum"} => "sealed" \notin out[i].words
=============================================================================
