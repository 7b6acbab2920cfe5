------------------------- MODULE CsGeneratorProofs -------------------------
(***************************************************************************)
(* Theorems about the dump of an assembly, for any metadata: what has been *)
(* written is, item by item, what the cursor of the loops has gone past.   *)
(***************************************************************************)
EXTENDS CsGenerator, FiniteSetTheorems, SequenceTheorems, TLAPS

Kinds == ItemTokens \cup {"namespace", "base", "blank", "block", "endBlock", "paren", "endParen", "comma"}
Words ==
  {"private", "internal", "protected", "public", "const", "static", "readonly", "abstract",
   "override", "sealed", "virtual", "extern"}
Tokens == [what : Kinds, item : Seq(Nat), words : SUBSET Words]

GenTypeOK ==
  /\ image \in Seq(Classes \cup {NoClass}) /\ out \in Seq(Tokens)
  /\ j \in Nat \ {0} /\ f \in Nat \ {0} /\ m \in Nat \ {0} /\ p \in Nat \ {0}
  /\ pc \in {"image", "class", "fields", "methods", "params", "end", "fault"}

\* Where the loops are.
CursorFits ==
  /\ pc = "image" => j = 1
  /\ InClass => j \in 1..Len(image) /\ Class # NoClass
  /\ pc = "fields" => m = 1
  /\ pc = "params" => m \in 1..Len(Class.methods) /\ Printable(Method.name)
  /\ pc = "end" => j > Len(image)

TypeInv == GenTypeOK /\ CursorFits

-----------------------------------------------------------------------------
(* What a token more changes.                                              *)

\* How many tokens of a sequence are of a kind, and which items they are for.
Num(s, what) == Cardinality({i \in 1..Len(s) : s[i].what = what})
Of(s, what) == {s[i].item : i \in {k \in 1..Len(s) : s[k].what = what}}

\* OnceUnderItsClass of a sequence.
Ordered(s) ==
  \A i, k \in 1..Len(s) : i < k /\ s[i].item # <<>> /\ s[k].item # <<>> =>
    /\ <<s[i].what, s[i].item>> # <<s[k].what, s[k].item>>
    /\ s[i].item[1] <= s[k].item[1]
    /\ s[k].what \in Keywords => s[i].item[1] < s[k].item[1]

Named(s) == \A i \in 1..Len(s) : s[i].what \in ItemTokens <=> s[i].item # <<>>

LEMMA AppendIs ==
  ASSUME NEW s \in Seq(Tokens), NEW x \in Tokens
  PROVE  /\ Append(s, x) \in Seq(Tokens) /\ Len(s) \in Nat /\ Len(Append(s, x)) = Len(s) + 1
         /\ Append(s, x)[Len(s) + 1] = x /\ \A i \in 1..Len(s) : Append(s, x)[i] = s[i]
OBVIOUS

LEMMA NumAppend ==
  ASSUME NEW s \in Seq(Tokens), NEW x \in Tokens, NEW what
  PROVE  Num(s, what) \in Nat /\ Num(Append(s, x), what) = Num(s, what) + (IF x.what = what THEN 1 ELSE 0)
<1> DEFINE old == {i \in 1..Len(s) : s[i].what = what}
           new == {i \in 1..Len(Append(s, x)) : Append(s, x)[i].what = what}
<1>1. IsFiniteSet(old)
  <2>1. IsFiniteSet(1..Len(s))
    BY AppendIs, FS_Interval
  <2> QED
    BY <2>1, FS_Subset
<1>2. Cardinality(old) \in Nat
  BY <1>1, FS_CardinalityType
<1>3. Len(s) + 1 \notin old
  BY AppendIs
<1>4. CASE x.what = what
  <2>1. new = old \cup {Len(s) + 1}
    BY <1>4, AppendIs
  <2>2. Cardinality(new) = Cardinality(old) + 1
    BY <1>1, <1>3, <2>1, FS_AddElement
  <2>3. Num(s, what) = Cardinality(old) /\ Num(Append(s, x), what) = Cardinality(new)
    BY DEF Num
  <2> HIDE DEF old, new
  <2> QED
    BY <1>2, <1>4, <2>2, <2>3
<1>5. CASE x.what # what
  <2>1. new = old
    BY <1>5, AppendIs
  <2>2. Num(s, what) = Cardinality(old) /\ Num(Append(s, x), what) = Cardinality(new)
    BY DEF Num
  <2> HIDE DEF old, new
  <2> QED
    BY <1>2, <1>5, <2>1, <2>2
<1> QED
  BY <1>4, <1>5

LEMMA OfAppend ==
  ASSUME NEW s \in Seq(Tokens), NEW x \in Tokens, NEW what
  PROVE  Of(Append(s, x), what) = Of(s, what) \cup (IF x.what = what THEN {x.item} ELSE {})
<1>1. ASSUME NEW y \in Of(Append(s, x), what) PROVE y \in Of(s, what) \/ (x.what = what /\ y = x.item)
  <2>1. PICK i \in 1..(Len(s) + 1) : Append(s, x)[i].what = what /\ y = Append(s, x)[i].item
    BY AppendIs DEF Of
  <2>2. CASE i \in 1..Len(s)
    BY <2>1, <2>2, AppendIs DEF Of
  <2>3. CASE i = Len(s) + 1
    BY <2>1, <2>3, AppendIs
  <2> QED
    BY <2>1, <2>2, <2>3, AppendIs
<1>2. ASSUME NEW y \in Of(s, what) PROVE y \in Of(Append(s, x), what)
  <2>1. PICK i \in 1..Len(s) : s[i].what = what /\ y = s[i].item
    BY DEF Of
  <2>2. i \in 1..Len(Append(s, x)) /\ Append(s, x)[i] = s[i]
    BY AppendIs
  <2> QED
    BY <2>1, <2>2 DEF Of
<1>3. ASSUME x.what = what PROVE x.item \in Of(Append(s, x), what)
  <2>1. Len(s) + 1 \in 1..Len(Append(s, x)) /\ Append(s, x)[Len(s) + 1] = x
    BY AppendIs
  <2> QED
    BY <1>3, <2>1 DEF Of
<1> QED
  BY <1>1, <1>2, <1>3

\* A token that is new and comes after what is there.
Follows(s, x) ==
  \A what \in ItemTokens : \A item \in Of(s, what) :
    /\ what # x.what \/ item # x.item
    /\ item[1] <= x.item[1]
    /\ x.what \in Keywords => item[1] < x.item[1]

LEMMA OrderedAppend ==
  ASSUME NEW s \in Seq(Tokens), NEW x \in Tokens, Ordered(s), Named(s), x.item # <<>> => Follows(s, x)
  PROVE  Ordered(Append(s, x))
<1> SUFFICES ASSUME NEW i \in 1..Len(Append(s, x)), NEW k \in 1..Len(Append(s, x)), i < k,
                    Append(s, x)[i].item # <<>>, Append(s, x)[k].item # <<>>
             PROVE  LET a == Append(s, x)[i]  b == Append(s, x)[k]
                    IN  /\ <<a.what, a.item>> # <<b.what, b.item>> /\ a.item[1] <= b.item[1]
                        /\ b.what \in Keywords => a.item[1] < b.item[1]
  BY DEF Ordered
<1>1. i \in 1..Len(s) /\ Append(s, x)[i] = s[i] /\ (k \in 1..Len(s) \/ k = Len(s) + 1)
  BY AppendIs
<1>2. CASE k \in 1..Len(s)
  BY <1>1, <1>2, AppendIs DEF Ordered
<1>3. CASE k = Len(s) + 1
  <2>1. Append(s, x)[k] = x
    BY <1>3, AppendIs
  <2>2. s[i].what \in ItemTokens /\ s[i].item \in Of(s, s[i].what)
    BY <1>1 DEF Of, Named
  <2>3. /\ s[i].what # x.what \/ s[i].item # x.item
        /\ s[i].item[1] <= x.item[1] /\ (x.what \in Keywords => s[i].item[1] < x.item[1])
    BY <2>1, <2>2 DEF Follows
  <2> QED
    BY <1>1, <2>1, <2>3
<1> QED
  BY <1>1, <1>2, <1>3

LEMMA NamedAppend ==
  ASSUME NEW s \in Seq(Tokens), NEW x \in Tokens, Named(s), x.what \in ItemTokens <=> x.item # <<>>
  PROVE  Named(Append(s, x))
BY AppendIs DEF Named

LEMMA MarkIs ==
  ASSUME NEW what \in Kinds
  PROVE  Mark(what) \in Tokens /\ Mark(what).what = what /\ Mark(what).item = <<>>
BY DEF Mark, Token, Tokens

LEMMA TokenIs ==
  ASSUME NEW what \in Kinds, NEW item \in Seq(Nat), NEW words \in SUBSET Words
  PROVE  /\ Token(what, item, words) \in Tokens /\ Token(what, item, words).what = what
         /\ Token(what, item, words).item = item /\ Token(what, item, words).words = words
BY DEF Token, Tokens

\* A write of a few tokens is as many appends.
LEMMA WriteOne ==
  ASSUME NEW s \in Seq(Tokens), NEW x \in Tokens
  PROVE  s \o <<x>> = Append(s, x) /\ s \o <<>> = s
OBVIOUS

LEMMA WriteTwo ==
  ASSUME NEW s \in Seq(Tokens), NEW x \in Tokens, NEW y \in Tokens
  PROVE  s \o <<x, y>> = Append(Append(s, x), y)
<1>1. s \o <<x, y>> \in Seq(Tokens) /\ Append(s, x) \in Seq(Tokens)
  OBVIOUS
<1>2. Len(s \o <<x, y>>) = Len(Append(Append(s, x), y))
  OBVIOUS
<1>3. ASSUME NEW i \in 1..Len(s \o <<x, y>>) PROVE (s \o <<x, y>>)[i] = Append(Append(s, x), y)[i]
  OBVIOUS
<1> QED
  BY <1>1, <1>2, <1>3

LEMMA WriteJoined ==
  ASSUME NEW s \in Seq(Tokens), NEW t \in Seq(Tokens), NEW u \in Seq(Tokens)
  PROVE  s \o (t \o u) = (s \o t) \o u
<1>1. (s \o t) \o u = s \o (t \o u)
  BY ConcatAssociative, Z3
<1> QED
  BY <1>1

LEMMA SingletonFits ==
  ASSUME NEW x \in Tokens
  PROVE  <<x>> \in Seq(Tokens) /\ <<>> \in Seq(Tokens)
OBVIOUS

-----------------------------------------------------------------------------
(* What the actions write.                                                 *)

HeaderToken == Token(Keyword(Class), <<j>>, Visibility[Class.visibility] \cup TypeWords(Class.flags))
FieldToken ==
  Token("field", <<j, f>>, Access[Class.fields[f].access] \cup FieldWords(Class.fields[f].flags))
MethodToken == Token("method", <<j, m>>, Access[Method.access] \cup MethodWords(Method.flags))
ParamToken == Token("param", <<j, m, p>>, {})

LEMMA KeywordIs == ASSUME NEW c PROVE Keyword(c) \in Keywords
BY DEF Keyword, Keywords

LEMMA ClassFits ==
  ASSUME TypeInv, j <= Len(image), Class # NoClass
  PROVE  /\ j \in 1..Len(image) /\ Class \in Classes
         /\ Class.fields \in Seq(Fields) /\ Class.methods \in Seq(Methods)
<1>1. j \in 1..Len(image) /\ image[j] \in Classes
  BY DEF TypeInv, GenTypeOK, Class
<1>2. image[j].fields \in Seq(Fields) /\ image[j].methods \in Seq(Methods)
  BY <1>1 DEF Classes
<1> QED
  BY <1>1, <1>2 DEF Class

LEMMA MethodFits ==
  ASSUME TypeInv, pc \in {"methods", "params"}, m <= Len(Class.methods)
  PROVE  /\ m \in 1..Len(Class.methods) /\ Method \in Methods /\ Method.params \in Seq(STRING)
         /\ Method.access \in DOMAIN Access /\ Allowed(Method.flags)
<1>1. j <= Len(image) /\ Class # NoClass
  BY DEF TypeInv, GenTypeOK, CursorFits, InClass
<1>2. m \in 1..Len(Class.methods) /\ Class.methods \in Seq(Methods)
  BY <1>1, ClassFits DEF TypeInv, GenTypeOK
<1>3. Method \in Methods
  BY <1>2 DEF Method
<1> QED
  BY <1>2, <1>3 DEF Methods

LEMMA HeaderFits ==
  ASSUME TypeInv, pc = "class", j <= Len(image), Class # NoClass
  PROVE  HeaderToken \in Tokens /\ HeaderToken.what \in Keywords /\ HeaderToken.item = <<j>>
         /\ HeaderToken.what = Keyword(Class)
<1>1. Class \in Classes /\ <<j>> \in Seq(Nat)
  BY ClassFits DEF TypeInv, GenTypeOK
<1>2. Keyword(Class) \in Keywords
  BY KeywordIs
<1>3. Visibility[Class.visibility] \in SUBSET Words
  <2>1. Class.visibility \in DOMAIN Visibility
    BY <1>1 DEF Classes
  <2>2. \A v \in DOMAIN Visibility : Visibility[v] \in SUBSET Words
    BY DEF Visibility, Words
  <2> QED
    BY <2>1, <2>2
<1>4. TypeWords(Class.flags) \in SUBSET Words
  BY DEF TypeWords, Words
<1>5. Keyword(Class) \in Kinds
  BY <1>2 DEF Kinds, ItemTokens
<1>6. Visibility[Class.visibility] \cup TypeWords(Class.flags) \in SUBSET Words
  BY <1>3, <1>4
<1> DEFINE words == Visibility[Class.visibility] \cup TypeWords(Class.flags)
           item == <<j>>
<1>7. item \in Seq(Nat) /\ words \in SUBSET Words
  BY <1>1, <1>2, <1>5, <1>6
<1>8. HeaderToken = Token(Keyword(Class), item, words)
  BY DEF HeaderToken
<1> HIDE DEF words, item
<1>9. /\ Token(Keyword(Class), item, words) \in Tokens /\ Token(Keyword(Class), item, words).what = Keyword(Class)
      /\ Token(Keyword(Class), item, words).item = item
  BY <1>1, <1>2, <1>5, <1>6, <1>7, TokenIs
<1> QED
  BY <1>2, <1>8, <1>9 DEF item

LEMMA AccessIs == \A a \in DOMAIN Access : Access[a] \in SUBSET Words
BY DEF Access, Words

LEMMA FieldFits ==
  ASSUME TypeInv, pc = "fields", f <= Len(Class.fields)
  PROVE  FieldToken \in Tokens /\ FieldToken.what = "field" /\ FieldToken.item = <<j, f>>
<1>1. Class.fields \in Seq(Fields) /\ <<j, f>> \in Seq(Nat)
  BY ClassFits DEF TypeInv, GenTypeOK, CursorFits, InClass
<1>2. Class.fields[f] \in Fields
  BY <1>1 DEF TypeInv, GenTypeOK
<1>3. Access[Class.fields[f].access] \in SUBSET Words
  BY <1>2, AccessIs DEF Fields
<1>4. FieldWords(Class.fields[f].flags) \in SUBSET Words
  BY DEF FieldWords, Words
<1>5. Access[Class.fields[f].access] \cup FieldWords(Class.fields[f].flags) \in SUBSET Words /\ "field" \in Kinds
  BY <1>3, <1>4 DEF Kinds, ItemTokens
<1> DEFINE words == Access[Class.fields[f].access] \cup FieldWords(Class.fields[f].flags)
           item == <<j, f>>
<1>7. item \in Seq(Nat) /\ words \in SUBSET Words
  BY <1>1, <1>5
<1>8. FieldToken = Token("field", item, words)
  BY DEF FieldToken
<1> HIDE DEF words, item
<1>9. /\ Token("field", item, words) \in Tokens /\ Token("field", item, words).what = "field"
      /\ Token("field", item, words).item = item
  BY <1>1, <1>5, <1>7, TokenIs
<1> QED
  BY <1>8, <1>9 DEF item

LEMMA MethodTokenFits ==
  ASSUME TypeInv, pc = "methods", m <= Len(Class.methods)
  PROVE  MethodToken \in Tokens /\ MethodToken.what = "method" /\ MethodToken.item = <<j, m>>
<1>1. <<j, m>> \in Seq(Nat)
  BY DEF TypeInv, GenTypeOK
<1>2. Access[Method.access] \in SUBSET Words
  BY MethodFits, AccessIs
<1>3. MethodWords(Method.flags) \in SUBSET Words
  BY DEF MethodWords, Words
<1>4. Access[Method.access] \cup MethodWords(Method.flags) \in SUBSET Words /\ "method" \in Kinds
  BY <1>2, <1>3 DEF Kinds, ItemTokens
<1> DEFINE words == Access[Method.access] \cup MethodWords(Method.flags)
           item == <<j, m>>
<1>7. item \in Seq(Nat) /\ words \in SUBSET Words
  BY <1>1, <1>4
<1>8. MethodToken = Token("method", item, words)
  BY DEF MethodToken
<1> HIDE DEF words, item
<1>9. /\ Token("method", item, words) \in Tokens /\ Token("method", item, words).what = "method"
      /\ Token("method", item, words).item = item
  BY <1>1, <1>4, <1>7, TokenIs
<1> QED
  BY <1>8, <1>9 DEF item

LEMMA ParamFits ==
  ASSUME TypeInv
  PROVE  ParamToken \in Tokens /\ ParamToken.what = "param" /\ ParamToken.item = <<j, m, p>>
<1>1. <<j, m, p>> \in Seq(Nat)
  BY DEF TypeInv, GenTypeOK
<1>2. {} \in SUBSET Words /\ "param" \in Kinds
  BY DEF Kinds, ItemTokens
<1> DEFINE words == {}
           item == <<j, m, p>>
<1>7. item \in Seq(Nat) /\ words \in SUBSET Words
  BY <1>1, <1>2
<1>8. ParamToken = Token("param", item, words)
  BY DEF ParamToken
<1> HIDE DEF words, item
<1>9. /\ Token("param", item, words) \in Tokens /\ Token("param", item, words).what = "param"
      /\ Token("param", item, words).item = item
  BY <1>1, <1>2, <1>7, TokenIs
<1> QED
  BY <1>8, <1>9 DEF item

LEMMA ImageWrites ==
  ASSUME TypeInv
  PROVE  /\ BeginImage => out' = Append(Append(out, Mark("namespace")), Mark("block"))
         /\ EndImage => out' = Append(out, Mark("endBlock"))
         /\ EndClass => out' = Append(out, Mark("endBlock"))
         /\ EndMethod => out' = Append(out, Mark("endParen"))
         /\ EndFields => out' = out \/ out' = Append(out, Mark("blank"))
<1>1. Mark("namespace") \in Tokens /\ Mark("block") \in Tokens /\ Mark("endBlock") \in Tokens /\ Mark("endParen") \in Tokens
      /\ Mark("blank") \in Tokens
  BY MarkIs DEF Kinds
<1>2. out \in Seq(Tokens)
  BY DEF TypeInv, GenTypeOK
<1> QED
  BY <1>1, <1>2, WriteOne, WriteTwo DEF BeginImage, EndImage, EndClass, EndMethod, EndFields, Write

LEMMA ClassWrites ==
  ASSUME TypeInv
  PROVE  /\ BeginClass =>
              \/ out' = Append(Append(out, HeaderToken), Mark("block"))
              \/ out' = Append(Append(Append(out, HeaderToken), Mark("base")), Mark("block"))
         /\ NullName => out' = out \/ out' = Append(out, HeaderToken)
<1> SUFFICES ASSUME BeginClass \/ NullName
             PROVE  /\ BeginClass =>
                         \/ out' = Append(Append(out, HeaderToken), Mark("block"))
                         \/ out' = Append(Append(Append(out, HeaderToken), Mark("base")), Mark("block"))
                    /\ NullName => out' = out \/ out' = Append(out, HeaderToken)
  OBVIOUS
<1>1. Header(Class) = <<HeaderToken>> /\ HeaderToken \in Tokens
  BY HeaderFits DEF Header, HeaderToken, BeginClass, NullName
<1>2. out \in Seq(Tokens) /\ Mark("block") \in Tokens /\ Mark("base") \in Tokens
  BY MarkIs DEF TypeInv, GenTypeOK, Kinds
<1>3. Base(Class) = <<>> \/ Base(Class) = <<Mark("base")>>
  BY DEF Base
<1>4. <<HeaderToken>> \in Seq(Tokens) /\ Base(Class) \in Seq(Tokens) /\ <<Mark("block")>> \in Seq(Tokens)
  BY <1>1, <1>2, <1>3, SingletonFits
<1>5. CASE BeginClass
  <2>1. out' = out \o (Header(Class) \o Base(Class) \o <<Mark("block")>>)
    BY <1>5 DEF BeginClass, Write
  <2>2. out' = ((out \o <<HeaderToken>>) \o Base(Class)) \o <<Mark("block")>>
    <3> DEFINE head == <<HeaderToken>>
               base == Base(Class)
               brace == <<Mark("block")>>
    <3>1. head \in Seq(Tokens) /\ base \in Seq(Tokens) /\ brace \in Seq(Tokens)
      BY <1>4
    <3>2. out' = out \o ((head \o base) \o brace)
      BY <1>1, <2>1
    <3> HIDE DEF head, base, brace
    <3>3. out \o (head \o base) = (out \o head) \o base
      BY <1>2, <3>1, WriteJoined
    <3>4. head \o base \in Seq(Tokens)
      BY <3>1, ConcatProperties, Zenon
    <3>5. out \o ((head \o base) \o brace) = (out \o (head \o base)) \o brace
      <4> DEFINE both == head \o base
      <4>1. both \in Seq(Tokens)
        BY <3>4
      <4> HIDE DEF both
      <4>2. out \o (both \o brace) = (out \o both) \o brace
        BY <1>2, <3>1, <4>1, WriteJoined
      <4> QED
        BY <4>2 DEF both
    <3> QED
      BY <3>2, <3>3, <3>5 DEF head, base, brace
  <2>4. Append(out, HeaderToken) \in Seq(Tokens) /\ out \o <<HeaderToken>> = Append(out, HeaderToken)
    BY <1>1, <1>2, WriteOne, AppendIs
  <2>5. /\ Append(Append(out, HeaderToken), Mark("base")) \in Seq(Tokens)
        /\ Append(out, HeaderToken) \o <<Mark("base")>> = Append(Append(out, HeaderToken), Mark("base"))
        /\ Append(out, HeaderToken) \o <<>> = Append(out, HeaderToken)
    BY <1>2, <2>4, WriteOne, AppendIs
  <2>3. ~NullName
    BY <1>5 DEF BeginClass, NullName
  <2> QED
    BY <1>2, <1>3, <2>2, <2>3, <2>4, <2>5, WriteOne
<1>6. CASE NullName
  <2>1. out' = out \/ out' = out \o <<HeaderToken>>
    BY <1>1, <1>6 DEF NullName, Write
  <2>2. ~BeginClass
    BY <1>6 DEF BeginClass, NullName
  <2> QED
    BY <1>1, <1>2, <2>1, <2>2, WriteOne
<1> QED
  BY <1>5, <1>6

LEMMA MemberWrites ==
  ASSUME TypeInv
  PROVE  /\ NextField =>
              IF Printable(Class.fields[f].name) /\ Class.fields[f].type # "null"
                THEN out' = Append(out, FieldToken) ELSE out' = out
         /\ BeginMethod => out' = Append(Append(out, MethodToken), Mark("paren"))
         /\ NextParam =>
              IF Method.params[p] = "null" THEN out' = out
              ELSE IF p < Len(Method.params) THEN out' = Append(Append(out, ParamToken), Mark("comma"))
              ELSE out' = Append(out, ParamToken)
<1>1. out \in Seq(Tokens) /\ Mark("paren") \in Tokens /\ Mark("comma") \in Tokens
  BY MarkIs DEF TypeInv, GenTypeOK, Kinds
<1>2. ASSUME NextField
      PROVE  IF Printable(Class.fields[f].name) /\ Class.fields[f].type # "null"
               THEN out' = Append(out, FieldToken) ELSE out' = out
  <2>1. FieldToken \in Tokens
    BY <1>2, FieldFits DEF NextField
  <2>2. IF Printable(Class.fields[f].name) /\ Class.fields[f].type # "null"
          THEN out' = out \o <<FieldToken>> ELSE out' = out
    BY <1>2 DEF NextField, Write, FieldToken
  <2> QED
    BY <1>1, <2>1, <2>2, WriteOne
<1>3. ASSUME BeginMethod PROVE out' = Append(Append(out, MethodToken), Mark("paren"))
  <2>1. MethodToken \in Tokens
    BY <1>3, MethodTokenFits DEF BeginMethod
  <2> QED
    BY <1>1, <1>3, <2>1, WriteTwo DEF BeginMethod, Write, MethodToken
<1>4. ASSUME NextParam
      PROVE  IF Method.params[p] = "null" THEN out' = out
             ELSE IF p < Len(Method.params) THEN out' = Append(Append(out, ParamToken), Mark("comma"))
             ELSE out' = Append(out, ParamToken)
  <2>1. ParamToken \in Tokens
    BY ParamFits
  <2>2. out \o <<ParamToken>> = Append(out, ParamToken) /\ Append(out, ParamToken) \in Seq(Tokens)
    BY <1>1, <2>1, WriteOne, AppendIs
  <2>3. Comma(Len(Method.params)) = <<Mark("comma")>> \/ Comma(Len(Method.params)) = <<>>
    BY DEF Comma
  <2>4. <<ParamToken>> \in Seq(Tokens) /\ Comma(Len(Method.params)) \in Seq(Tokens)
    BY <1>1, <2>1, <2>3, SingletonFits
  <2>5. Method.params[p] # "null" => out' = Append(out, ParamToken) \o Comma(Len(Method.params))
    <3> DEFINE head == <<ParamToken>>
               comma == Comma(Len(Method.params))
    <3>1. Method.params[p] # "null" => out' = out \o (head \o comma)
      BY <1>4 DEF NextParam, Write, ParamToken
    <3>2. out \o head = Append(out, ParamToken)
      BY <2>2
    <3>3. head \in Seq(Tokens) /\ comma \in Seq(Tokens)
      BY <2>4
    <3> HIDE DEF head, comma
    <3>4. out \o (head \o comma) = (out \o head) \o comma
      BY <1>1, <3>3, WriteJoined
    <3>5. Method.params[p] # "null" => out' = Append(out, ParamToken) \o comma
      BY <3>1, <3>2, <3>4
    <3> QED
      BY <3>5 DEF comma
  <2>6. Method.params[p] = "null" => out' = out
    BY <1>1, <1>4, WriteOne DEF NextParam, Write
  <2> QED
    BY <1>1, <2>2, <2>5, <2>6, WriteOne DEF Comma
<1> QED
  BY <1>2, <1>3, <1>4

LEMMA MarksFit ==
  \A what \in Kinds \ ItemTokens : Mark(what) \in Tokens /\ Mark(what).what = what /\ Mark(what).item = <<>>
BY MarkIs

LEMMA KindsAre ==
  /\ {"namespace", "base", "blank", "block", "endBlock", "paren", "endParen", "comma"} = Kinds \ ItemTokens
  /\ Keywords \subseteq ItemTokens /\ {"field", "method", "param"} \subseteq ItemTokens
BY DEF Kinds, ItemTokens, Keywords

LEMMA OutFits ==
  ASSUME TypeInv, [Next]_vars
  PROVE  out' \in Seq(Tokens)
<1>1. out \in Seq(Tokens)
  BY DEF TypeInv, GenTypeOK
<1>2. \A s \in Seq(Tokens), x \in Tokens : Append(s, x) \in Seq(Tokens)
  BY AppendIs
<1>3. \A what \in {"namespace", "base", "blank", "block", "endBlock", "paren", "endParen", "comma"} : Mark(what) \in Tokens
  BY MarksFit, KindsAre
<1>4. CASE BeginImage \/ EndImage \/ EndClass \/ EndMethod \/ EndFields
  BY <1>1, <1>2, <1>3, <1>4, ImageWrites
<1>5. CASE BeginClass \/ NullName
  <2>1. HeaderToken \in Tokens
    BY <1>5, HeaderFits DEF BeginClass, NullName
  <2> QED
    BY <1>1, <1>2, <1>3, <1>5, <2>1, ClassWrites
<1>6. CASE NextField
  <2>1. FieldToken \in Tokens
    BY <1>6, FieldFits DEF NextField
  <2> QED
    BY <1>1, <1>2, <1>6, <2>1, MemberWrites
<1>7. CASE BeginMethod
  <2>1. MethodToken \in Tokens
    BY <1>7, MethodTokenFits DEF BeginMethod
  <2> QED
    BY <1>1, <1>2, <1>3, <1>7, <2>1, MemberWrites
<1>8. CASE NextParam
  BY <1>1, <1>2, <1>3, <1>8, ParamFits, MemberWrites
<1>9. CASE SkipClass \/ SkipMethod \/ UNCHANGED vars
  BY <1>1, <1>9 DEF SkipClass, SkipMethod, vars
<1> QED
  BY <1>4, <1>5, <1>6, <1>7, <1>8, <1>9 DEF Next

LEMMA TypeStep ==
  ASSUME TypeInv, [Next]_vars
  PROVE  TypeInv'
<1>1. out' \in Seq(Tokens)
  BY OutFits
<1>2. image' = image
  BY DEF Next, BeginImage, EndImage, SkipClass, NullName, BeginClass, EndClass, NextField, EndFields,
         SkipMethod, BeginMethod, EndMethod, NextParam, vars
<1>3. /\ image \in Seq(Classes \cup {NoClass}) /\ j \in Nat \ {0} /\ f \in Nat \ {0} /\ m \in Nat \ {0}
      /\ p \in Nat \ {0} /\ Len(image) \in Nat /\ CursorFits
  BY DEF TypeInv, GenTypeOK
<1>4. CASE BeginImage
  BY <1>1, <1>2, <1>3, <1>4 DEF BeginImage, TypeInv, GenTypeOK, CursorFits, InClass, walkVars
<1>5. CASE EndImage \/ NullName
  BY <1>1, <1>2, <1>3, <1>5 DEF EndImage, NullName, TypeInv, GenTypeOK, CursorFits, InClass, walkVars
<1>6. CASE SkipClass
  BY <1>1, <1>2, <1>3, <1>6 DEF SkipClass, TypeInv, GenTypeOK, CursorFits, InClass
<1>7. CASE BeginClass
  <2>1. pc' = "fields" /\ f' = 1 /\ m' = 1 /\ j' = j /\ p' = p /\ j <= Len(image) /\ Class # NoClass
    BY <1>7 DEF BeginClass
  <2> QED
    BY <1>1, <1>2, <1>3, <2>1 DEF TypeInv, GenTypeOK, CursorFits, InClass, Class
<1>8. CASE NextField
  BY <1>1, <1>2, <1>3, <1>8 DEF NextField, TypeInv, GenTypeOK, CursorFits, InClass, Class
<1>9. CASE EndFields
  BY <1>1, <1>2, <1>3, <1>9 DEF EndFields, TypeInv, GenTypeOK, CursorFits, InClass, Class, walkVars
<1>10. CASE SkipMethod
  BY <1>1, <1>2, <1>3, <1>10 DEF SkipMethod, TypeInv, GenTypeOK, CursorFits, InClass, Class
<1>11. CASE BeginMethod
  <2>1. m \in 1..Len(Class.methods)
    BY <1>11, MethodFits DEF BeginMethod
  <2> QED
    BY <1>1, <1>2, <1>3, <1>11, <2>1 DEF BeginMethod, TypeInv, GenTypeOK, CursorFits, InClass, Class, Method
<1>12. CASE NextParam
  BY <1>1, <1>2, <1>3, <1>12 DEF NextParam, TypeInv, GenTypeOK, CursorFits, InClass, Class, Method
<1>13. CASE EndMethod
  BY <1>1, <1>2, <1>3, <1>13 DEF EndMethod, TypeInv, GenTypeOK, CursorFits, InClass, Class
<1>14. CASE EndClass
  <2>1. pc' = "class" /\ j' = j + 1 /\ f' = f /\ m' = m /\ p' = p
    BY <1>14 DEF EndClass
  <2> QED
    BY <1>1, <1>2, <1>3, <2>1 DEF TypeInv, GenTypeOK, CursorFits, InClass
<1>15. CASE UNCHANGED vars
  BY <1>1, <1>2, <1>3, <1>15 DEF vars, walkVars, TypeInv, GenTypeOK, CursorFits, InClass, Class, Method
<1> QED
  BY <1>4, <1>5, <1>6, <1>7, <1>8, <1>9, <1>10, <1>11, <1>12, <1>13, <1>14, <1>15 DEF Next

LEMMA TypeInit == Init => TypeInv
<1> SUFFICES ASSUME Init PROVE TypeInv
  OBVIOUS
<1>1. image \in Seq(Classes \cup {NoClass})
  BY ImagesAssumption DEF Init
<1>2. out \in Seq(Tokens)
  BY SingletonFits, EmptySeq, Zenon DEF Init
<1> QED
  BY <1>1, <1>2 DEF Init, TypeInv, GenTypeOK, CursorFits, InClass

\* The cursor of the loops fits the metadata, whatever was skipped.
THEOREM GenTypeCorrect == Spec => []TypeInv
<1>1. TypeInv /\ [Next]_vars => TypeInv'
  BY TypeStep
<1> QED
  BY <1>1, TypeInit, PTL DEF Spec

-----------------------------------------------------------------------------
(* Nesting.                                                                *)

Brackets == {"block", "endBlock", "paren", "endParen"}

LEMMA NumStep ==
  ASSUME NEW s \in Seq(Tokens), NEW k \in Brackets
  PROVE  /\ Num(s, k) \in Nat
         /\ \A x \in Tokens : x.what \in ItemTokens => Num(Append(s, x), k) = Num(s, k)
         /\ \A what \in Kinds \ ItemTokens :
              Num(Append(s, Mark(what)), k) = Num(s, k) + (IF what = k THEN 1 ELSE 0)
<1>1. Num(s, k) \in Nat
  BY NumAppend, MarksFit, KindsAre
<1>2. ASSUME NEW x \in Tokens, x.what \in ItemTokens PROVE Num(Append(s, x), k) = Num(s, k)
  <2>1. x.what # k
    BY <1>2 DEF Brackets, ItemTokens, Keywords
  <2> QED
    BY <1>1, <2>1, NumAppend
<1>3. ASSUME NEW what \in Kinds \ ItemTokens
      PROVE  Num(Append(s, Mark(what)), k) = Num(s, k) + (IF what = k THEN 1 ELSE 0)
  BY MarksFit, NumAppend
<1> QED
  BY <1>1, <1>2, <1>3

\* WellNested, of a sequence.
Open(s, braces, parens) ==
  Num(s, "block") = Num(s, "endBlock") + braces /\ Num(s, "paren") = Num(s, "endParen") + parens

Depth ==
  Open(out, IF pc \in {"image", "end"} THEN 0 ELSE IF pc \in {"class", "fault"} THEN 1 ELSE 2,
       IF pc = "params" THEN 1 ELSE 0)

LEMMA NestedIs ==
  ASSUME TypeInv
  PROVE  WellNested <=> Depth
<1>1. \A what : Count(what) = Num(out, what)
  BY DEF Count, Num
<1>2. pc \in {"image", "class", "fields", "methods", "params", "end", "fault"}
  BY DEF TypeInv, GenTypeOK
<1> QED
  BY <1>1, <1>2 DEF WellNested, Open, InClass, Depth

LEMMA OpenToken ==
  ASSUME NEW s \in Seq(Tokens), NEW x \in Tokens, x.what \notin Brackets, NEW b \in Int, NEW r \in Int,
         Open(s, b, r)
  PROVE  Open(Append(s, x), b, r)
<1> DEFINE t == Append(s, x)
<1>1. \A k \in Brackets : Num(s, k) \in Nat /\ Num(t, k) = Num(s, k) + 0
  BY NumAppend
<1> HIDE DEF t
<1>2. Num(t, "block") = Num(s, "block") /\ Num(t, "endBlock") = Num(s, "endBlock") /\ Num(t, "paren") = Num(s, "paren") /\ Num(t, "endParen") = Num(s, "endParen")
  BY <1>1 DEF Brackets
<1>3. Open(t, b, r)
  BY <1>2 DEF Open
<1> QED
  BY <1>3 DEF t

LEMMA BracketAppend ==
  ASSUME NEW s \in Seq(Tokens), NEW what \in Brackets
  PROVE  /\ Num(s, what) \in Nat /\ Num(Append(s, Mark(what)), what) = Num(s, what) + 1
         /\ \A k \in Brackets \ {what} : Num(s, k) \in Nat /\ Num(Append(s, Mark(what)), k) = Num(s, k)
<1>1. what \in Kinds \ ItemTokens
  BY KindsAre DEF Brackets
<1>2. Mark(what) \in Tokens /\ Mark(what).what = what
  BY <1>1, MarksFit
<1>3. Num(s, what) \in Nat /\ Num(Append(s, Mark(what)), what) = Num(s, what) + 1
  BY <1>2, NumAppend
<1>4. ASSUME NEW k \in Brackets \ {what} PROVE Num(s, k) \in Nat /\ Num(Append(s, Mark(what)), k) = Num(s, k)
  <2>1. Num(s, k) \in Nat /\ Num(Append(s, Mark(what)), k) = Num(s, k) + 0
    BY <1>2, NumAppend
  <2> QED
    BY <2>1
<1> QED
  BY <1>3, <1>4

LEMMA OpenBracket ==
  ASSUME NEW s \in Seq(Tokens), NEW b \in Int, NEW r \in Int, Open(s, b, r)
  PROVE  /\ Open(Append(s, Mark("block")), b + 1, r) /\ Open(Append(s, Mark("endBlock")), b - 1, r)
         /\ Open(Append(s, Mark("paren")), b, r + 1) /\ Open(Append(s, Mark("endParen")), b, r - 1)
<1>2. ASSUME NEW t, t = Append(s, Mark("block")) PROVE Open(t, b + 1, r)
  <2>1. "block" \in Brackets /\ {"endBlock", "paren", "endParen"} \subseteq Brackets \ {"block"}
    BY DEF Brackets
  <2>2. Num(s, "block") \in Nat /\ Num(t, "block") = Num(s, "block") + 1
    BY <1>2, <2>1, BracketAppend
  <2>3. \A k \in {"endBlock", "paren", "endParen"} : Num(s, k) \in Nat /\ Num(t, k) = Num(s, k)
    BY <1>2, <2>1, BracketAppend
  <2>4. /\ Num(s, "endBlock") \in Nat /\ Num(t, "endBlock") = Num(s, "endBlock")
        /\ Num(t, "paren") = Num(s, "paren") /\ Num(t, "endParen") = Num(s, "endParen")
        /\ Num(s, "endParen") \in Nat
    BY <2>3
  <2> QED
    BY <2>2, <2>4 DEF Open
<1>3. ASSUME NEW t, t = Append(s, Mark("endBlock")) PROVE Open(t, b - 1, r)
  <2>1. "endBlock" \in Brackets /\ {"block", "paren", "endParen"} \subseteq Brackets \ {"endBlock"}
    BY DEF Brackets
  <2>2. Num(s, "endBlock") \in Nat /\ Num(t, "endBlock") = Num(s, "endBlock") + 1
    BY <1>3, <2>1, BracketAppend
  <2>3. \A k \in {"block", "paren", "endParen"} : Num(s, k) \in Nat /\ Num(t, k) = Num(s, k)
    BY <1>3, <2>1, BracketAppend
  <2>4. /\ Num(s, "block") \in Nat /\ Num(t, "block") = Num(s, "block")
        /\ Num(t, "paren") = Num(s, "paren") /\ Num(t, "endParen") = Num(s, "endParen")
        /\ Num(s, "endParen") \in Nat
    BY <2>3
  <2> QED
    BY <2>2, <2>4 DEF Open
<1>4. ASSUME NEW t, t = Append(s, Mark("paren")) PROVE Open(t, b, r + 1)
  <2>1. "paren" \in Brackets /\ {"block", "endBlock", "endParen"} \subseteq Brackets \ {"paren"}
    BY DEF Brackets
  <2>2. Num(s, "paren") \in Nat /\ Num(t, "paren") = Num(s, "paren") + 1
    BY <1>4, <2>1, BracketAppend
  <2>3. \A k \in {"block", "endBlock", "endParen"} : Num(s, k) \in Nat /\ Num(t, k) = Num(s, k)
    BY <1>4, <2>1, BracketAppend
  <2>4. /\ Num(s, "block") \in Nat /\ Num(t, "block") = Num(s, "block")
        /\ Num(t, "endBlock") = Num(s, "endBlock") /\ Num(t, "endParen") = Num(s, "endParen")
        /\ Num(s, "endParen") \in Nat
    BY <2>3
  <2> QED
    BY <2>2, <2>4 DEF Open
<1>5. ASSUME NEW t, t = Append(s, Mark("endParen")) PROVE Open(t, b, r - 1)
  <2>1. "endParen" \in Brackets /\ {"block", "endBlock", "paren"} \subseteq Brackets \ {"endParen"}
    BY DEF Brackets
  <2>2. Num(s, "endParen") \in Nat /\ Num(t, "endParen") = Num(s, "endParen") + 1
    BY <1>5, <2>1, BracketAppend
  <2>3. \A k \in {"block", "endBlock", "paren"} : Num(s, k) \in Nat /\ Num(t, k) = Num(s, k)
    BY <1>5, <2>1, BracketAppend
  <2>4. /\ Num(s, "block") \in Nat /\ Num(t, "block") = Num(s, "block")
        /\ Num(t, "endBlock") = Num(s, "endBlock") /\ Num(t, "paren") = Num(s, "paren")
        /\ Num(s, "paren") \in Nat
    BY <2>3
  <2> QED
    BY <2>2, <2>4 DEF Open
<1> QED
  BY <1>2, <1>3, <1>4, <1>5

\* The depths that occur.
LEMMA Opens ==
  ASSUME NEW s \in Seq(Tokens)
  PROVE  /\ Open(s, 0, 0) => Open(Append(s, Mark("block")), 1, 0)
         /\ Open(s, 1, 0) => Open(Append(s, Mark("block")), 2, 0)
         /\ Open(s, 2, 0) => Open(Append(s, Mark("endBlock")), 1, 0)
         /\ Open(s, 1, 0) => Open(Append(s, Mark("endBlock")), 0, 0)
         /\ Open(s, 2, 0) => Open(Append(s, Mark("paren")), 2, 1)
         /\ Open(s, 2, 1) => Open(Append(s, Mark("endParen")), 2, 0)
<1>1. \A b, r \in Int : Open(s, b, r) =>
         /\ Open(Append(s, Mark("block")), b + 1, r) /\ Open(Append(s, Mark("endBlock")), b - 1, r)
         /\ Open(Append(s, Mark("paren")), b, r + 1) /\ Open(Append(s, Mark("endParen")), b, r - 1)
  BY OpenBracket
<1>2. Open(s, 0, 0) => Open(Append(s, Mark("block")), 0 + 1, 0)
  BY <1>1
<1>3. Open(s, 1, 0) => Open(Append(s, Mark("block")), 1 + 1, 0) /\ Open(Append(s, Mark("endBlock")), 1 - 1, 0)
  BY <1>1
<1>4. Open(s, 2, 0) => Open(Append(s, Mark("endBlock")), 2 - 1, 0) /\ Open(Append(s, Mark("paren")), 2, 0 + 1)
  BY <1>1
<1>5. Open(s, 2, 1) => Open(Append(s, Mark("endParen")), 2, 1 - 1)
  BY <1>1
<1>6. 0 + 1 = 1 /\ 1 + 1 = 2 /\ 1 - 1 = 0 /\ 2 - 1 = 1
  OBVIOUS
<1> QED
  BY <1>2, <1>3, <1>4, <1>5, <1>6

LEMMA OpenItem ==
  ASSUME NEW s \in Seq(Tokens), NEW x \in Tokens, x.what \in ItemTokens, NEW b \in Int, NEW r \in Int,
         Open(s, b, r)
  PROVE  Open(Append(s, x), b, r)
<1>1. x.what \notin Brackets
  BY DEF Brackets, ItemTokens, Keywords
<1> QED
  BY <1>1, OpenToken

LEMMA OpenMark ==
  ASSUME NEW s \in Seq(Tokens), NEW what \in {"namespace", "base", "blank", "comma"}, NEW b \in Int, NEW r \in Int,
         Open(s, b, r)
  PROVE  Open(Append(s, Mark(what)), b, r)
<1>1. what \in Kinds \ ItemTokens /\ what \notin Brackets
  BY KindsAre DEF Brackets
<1>2. Mark(what) \in Tokens /\ Mark(what).what \notin Brackets
  BY <1>1, MarksFit
<1> QED
  BY <1>2, OpenToken

LEMMA NestedInit == Init => Depth
<1> SUFFICES ASSUME Init PROVE Depth
  OBVIOUS
<1>1. \A k : Num(<<>>, k) = 0
  <2>1. \A k : {i \in 1..Len(<<>>) : <<>>[i].what = k} = {}
    OBVIOUS
  <2> QED
    BY <2>1, FS_EmptySet DEF Num
<1> QED
  BY <1>1 DEF Init, Depth, Open

LEMMA NestedStep ==
  ASSUME TypeInv, Depth, [Next]_vars
  PROVE  Depth'
<1>1. out \in Seq(Tokens) /\ \A s \in Seq(Tokens), x \in Tokens : Append(s, x) \in Seq(Tokens)
  BY AppendIs DEF TypeInv, GenTypeOK
<1>2. \A what \in {"namespace", "base", "blank", "block", "endBlock", "paren", "endParen", "comma"} : Mark(what) \in Tokens
  BY MarksFit, KindsAre
<1>3. /\ \A s \in Seq(Tokens) :
           /\ Open(s, 0, 0) => Open(Append(s, Mark("block")), 1, 0)
           /\ Open(s, 1, 0) => Open(Append(s, Mark("block")), 2, 0) /\ Open(Append(s, Mark("endBlock")), 0, 0)
           /\ Open(s, 2, 0) => Open(Append(s, Mark("endBlock")), 1, 0) /\ Open(Append(s, Mark("paren")), 2, 1)
           /\ Open(s, 2, 1) => Open(Append(s, Mark("endParen")), 2, 0)
      /\ \A s \in Seq(Tokens), x \in Tokens, b \in 0..2, r \in 0..1 :
           x.what \in ItemTokens /\ Open(s, b, r) => Open(Append(s, x), b, r)
      /\ \A s \in Seq(Tokens), b \in 0..2, r \in 0..1 : Open(s, b, r) =>
           /\ Open(Append(s, Mark("namespace")), b, r) /\ Open(Append(s, Mark("base")), b, r)
           /\ Open(Append(s, Mark("blank")), b, r) /\ Open(Append(s, Mark("comma")), b, r)
  BY Opens, OpenItem, OpenMark
<1>0. 0 \in 0..2 /\ 1 \in 0..2 /\ 2 \in 0..2 /\ 0 \in 0..1 /\ 1 \in 0..1
  OBVIOUS
<1>4. CASE BeginImage
  <2>1. Open(out, 0, 0) /\ pc' = "class" /\ out' = Append(Append(out, Mark("namespace")), Mark("block"))
    BY <1>4, ImageWrites DEF Depth, BeginImage
  <2>2. Open(Append(out, Mark("namespace")), 0, 0) /\ Append(out, Mark("namespace")) \in Seq(Tokens)
    BY <1>1, <1>2, <1>0, <1>3, <2>1
  <2>3. Open(out', 1, 0)
    BY <1>0, <1>3, <2>1, <2>2
  <2> QED
    BY <2>1, <2>3 DEF Depth
<1>5. CASE EndImage
  <2>1. Open(out, 1, 0) /\ pc' = "end" /\ out' = Append(out, Mark("endBlock"))
    BY <1>5, ImageWrites DEF Depth, EndImage
  <2>2. Open(out', 0, 0)
    BY <1>1, <1>0, <1>3, <2>1
  <2> QED
    BY <2>1, <2>2 DEF Depth
<1>6. CASE SkipClass \/ SkipMethod \/ UNCHANGED vars
  BY <1>6 DEF SkipClass, SkipMethod, vars, Depth
<1>7. CASE NullName
  <2>1. Open(out, 1, 0) /\ pc' = "fault" /\ (out' = out \/ out' = Append(out, HeaderToken))
    BY <1>7, ClassWrites DEF Depth, NullName
  <2>2. HeaderToken \in Tokens /\ HeaderToken.what \in ItemTokens
    BY <1>7, HeaderFits, KindsAre DEF NullName
  <2>3. Open(out', 1, 0)
    BY <1>1, <1>0, <1>3, <2>1, <2>2
  <2> QED
    BY <2>1, <2>3 DEF Depth
<1>8. CASE BeginClass
  <2>1. Open(out, 1, 0) /\ pc' = "fields"
    BY <1>8 DEF Depth, BeginClass
  <2>2. HeaderToken \in Tokens /\ HeaderToken.what \in ItemTokens
    BY <1>8, HeaderFits, KindsAre DEF BeginClass
  <2>3. Open(Append(out, HeaderToken), 1, 0) /\ Append(out, HeaderToken) \in Seq(Tokens)
    BY <1>1, <1>0, <1>3, <2>1, <2>2
  <2>4. /\ Open(Append(Append(out, HeaderToken), Mark("base")), 1, 0)
        /\ Append(Append(out, HeaderToken), Mark("base")) \in Seq(Tokens)
    BY <1>1, <1>2, <1>0, <1>3, <2>3
  <2>5. Open(out', 2, 0)
    <3>1. CASE out' = Append(Append(out, HeaderToken), Mark("block"))
      BY <1>0, <1>3, <2>3, <3>1
    <3>2. CASE out' = Append(Append(Append(out, HeaderToken), Mark("base")), Mark("block"))
      BY <1>0, <1>3, <2>4, <3>2
    <3> QED
      BY <1>8, <3>1, <3>2, ClassWrites
  <2> QED
    BY <2>1, <2>5 DEF Depth
<1>9. CASE NextField
  <2>1. Open(out, 2, 0) /\ pc' = "fields" /\ (out' = out \/ out' = Append(out, FieldToken))
    BY <1>9, MemberWrites DEF Depth, NextField
  <2>2. FieldToken \in Tokens /\ FieldToken.what \in ItemTokens
    BY <1>9, FieldFits, KindsAre DEF NextField
  <2>3. Open(out', 2, 0)
    BY <1>1, <1>0, <1>3, <2>1, <2>2
  <2> QED
    BY <2>1, <2>3 DEF Depth
<1>10. CASE EndFields
  <2>1. Open(out, 2, 0) /\ pc' = "methods" /\ (out' = out \/ out' = Append(out, Mark("blank")))
    BY <1>10, ImageWrites DEF Depth, EndFields
  <2>2. Open(out', 2, 0)
    BY <1>1, <1>0, <1>3, <2>1
  <2> QED
    BY <2>1, <2>2 DEF Depth
<1>11. CASE BeginMethod
  <2>1. Open(out, 2, 0) /\ pc' = "params" /\ out' = Append(Append(out, MethodToken), Mark("paren"))
    BY <1>11, MemberWrites DEF Depth, BeginMethod
  <2>2. MethodToken \in Tokens /\ MethodToken.what \in ItemTokens
    BY <1>11, MethodTokenFits, KindsAre DEF BeginMethod
  <2>3. Open(Append(out, MethodToken), 2, 0) /\ Append(out, MethodToken) \in Seq(Tokens)
    BY <1>1, <1>0, <1>3, <2>1, <2>2
  <2>4. Open(out', 2, 1)
    BY <1>0, <1>3, <2>1, <2>3
  <2> QED
    BY <2>1, <2>4 DEF Depth
<1>12. CASE NextParam
  <2>1. Open(out, 2, 1) /\ pc' = "params"
    BY <1>12 DEF Depth, NextParam
  <2>2. ParamToken \in Tokens /\ ParamToken.what \in ItemTokens
    BY ParamFits, KindsAre
  <2>3. Open(Append(out, ParamToken), 2, 1) /\ Append(out, ParamToken) \in Seq(Tokens)
    BY <1>1, <1>0, <1>3, <2>1, <2>2
  <2>4. Open(Append(Append(out, ParamToken), Mark("comma")), 2, 1)
    BY <1>0, <1>3, <2>3
  <2>5. Open(out', 2, 1)
    BY <1>12, <2>1, <2>3, <2>4, MemberWrites
  <2> QED
    BY <2>1, <2>5 DEF Depth
<1>13. CASE EndMethod
  <2>1. Open(out, 2, 1) /\ pc' = "methods" /\ out' = Append(out, Mark("endParen"))
    BY <1>13, ImageWrites DEF Depth, EndMethod
  <2>2. Open(out', 2, 0)
    BY <1>1, <1>0, <1>3, <2>1
  <2> QED
    BY <2>1, <2>2 DEF Depth
<1>14. CASE EndClass
  <2>1. Open(out, 2, 0) /\ pc' = "class" /\ out' = Append(out, Mark("endBlock"))
    BY <1>14, ImageWrites DEF Depth, EndClass
  <2>2. Open(out', 1, 0)
    BY <1>1, <1>0, <1>3, <2>1
  <2> QED
    BY <2>1, <2>2 DEF Depth
<1> QED
  BY <1>4, <1>5, <1>6, <1>7, <1>8, <1>9, <1>10, <1>11, <1>12, <1>13, <1>14 DEF Next

\* Braces and parentheses of the dump of any assembly match, also where a
\* null name cuts it off.
THEOREM DumpIsNested == Spec => []WellNested
<1>1. Init => TypeInv /\ Depth
  BY TypeInit, NestedInit
<1>2. TypeInv /\ Depth /\ [Next]_vars => (TypeInv /\ Depth)'
  BY TypeStep, NestedStep
<1>3. TypeInv /\ Depth => WellNested
  BY NestedIs
<1> QED
  BY <1>1, <1>2, <1>3, PTL DEF Spec

-----------------------------------------------------------------------------
(* Modifiers.                                                              *)

\* A method's token is about a method of the image, with the words that its
\* flags give.
MethodRight(x) ==
  \E c \in 1..Len(image) : image[c] \in Classes /\ \E k \in 1..Len(image[c].methods) :
    LET method == image[c].methods[k]
    IN  x.item = <<c, k>> /\ x.words = Access[method.access] \cup MethodWords(method.flags)
MethodsRight(s) == \A i \in 1..Len(s) : s[i].what = "method" => MethodRight(s[i])

LEMMA MethodWordsAre ==
  ASSUME NEW flags
  PROVE  LET words == MethodWords(flags) IN
           /\ "override" \in words <=> flags \cap {"abstract", "final", "virtual"} # {} /\ "newSlot" \notin flags
           /\ "sealed" \in words <=> "final" \in flags /\ flags \cap {"abstract", "newSlot"} = {}
           /\ "virtual" \in words <=> {"virtual", "newSlot"} \subseteq flags /\ flags \cap {"abstract", "final"} = {}
           /\ "static" \in words <=> "static" \in flags
           /\ "abstract" \in words <=> "abstract" \in flags
<1>1. "override" \in MethodWords(flags) <=>
        flags \cap {"abstract", "final", "virtual"} # {} /\ "newSlot" \notin flags
  BY DEF MethodWords
<1>2. "sealed" \in MethodWords(flags) <=> "final" \in flags /\ flags \cap {"abstract", "newSlot"} = {}
  BY DEF MethodWords
<1>3. "virtual" \in MethodWords(flags) <=>
        {"virtual", "newSlot"} \subseteq flags /\ flags \cap {"abstract", "final"} = {}
  BY DEF MethodWords
<1>4. "static" \in MethodWords(flags) <=> "static" \in flags
  BY DEF MethodWords
<1>5. "abstract" \in MethodWords(flags) <=> "abstract" \in flags
  BY DEF MethodWords
<1> QED
  BY <1>1, <1>2, <1>3, <1>4, <1>5

\* What ModifiersFollowCSharp says of one method.
LEMMA WordsFollow ==
  ASSUME NEW flags, Allowed(flags), NEW access \in DOMAIN Access
  PROVE  LET words == Access[access] \cup MethodWords(flags) IN
           /\ "override" \in words <=> "virtual" \in flags /\ "newSlot" \notin flags
           /\ "sealed" \in words => "override" \in words
           /\ "virtual" \in words => words \cap {"override", "abstract", "sealed", "static"} = {}
           /\ "static" \in words => words \cap {"override", "abstract", "sealed", "virtual"} = {}
<1> DEFINE words == Access[access] \cup MethodWords(flags)
<1>1. \A w \in {"override", "sealed", "virtual", "static", "abstract"} : w \in words <=> w \in MethodWords(flags)
  <2>1. \A a \in DOMAIN Access : Access[a] \cap {"override", "sealed", "virtual", "static", "abstract"} = {}
    BY DEF Access
  <2> QED
    BY <2>1
<1> HIDE DEF words
<1>2. "override" \in words <=> flags \cap {"abstract", "final", "virtual"} # {} /\ "newSlot" \notin flags
  BY <1>1, MethodWordsAre
<1>3. "sealed" \in words <=> "final" \in flags /\ flags \cap {"abstract", "newSlot"} = {}
  BY <1>1, MethodWordsAre
<1>4. "virtual" \in words <=> {"virtual", "newSlot"} \subseteq flags /\ flags \cap {"abstract", "final"} = {}
  BY <1>1, MethodWordsAre
<1>5. ("static" \in words <=> "static" \in flags) /\ ("abstract" \in words <=> "abstract" \in flags)
  BY <1>1, MethodWordsAre
<1>6. /\ "newSlot" \in flags => "virtual" \in flags
      /\ "final" \in flags => "virtual" \in flags /\ "abstract" \notin flags
      /\ "abstract" \in flags => "virtual" \in flags
      /\ "static" \in flags => "virtual" \notin flags
  BY DEF Allowed
<1>7. "override" \in words <=> "virtual" \in flags /\ "newSlot" \notin flags
  BY <1>2, <1>6
<1>8. "sealed" \in words => "override" \in words
  BY <1>2, <1>3
<1>9. "virtual" \in words => words \cap {"override", "abstract", "sealed", "static"} = {}
  BY <1>2, <1>3, <1>4, <1>5, <1>6
<1>10. "static" \in words => words \cap {"override", "abstract", "sealed", "virtual"} = {}
  BY <1>2, <1>3, <1>4, <1>5, <1>6
<1> QED
  BY <1>7, <1>8, <1>9, <1>10 DEF words

LEMMA MethodsAppend ==
  ASSUME NEW s \in Seq(Tokens), NEW x \in Tokens, MethodsRight(s), x.what = "method" => MethodRight(x)
  PROVE  Append(s, x) \in Seq(Tokens) /\ MethodsRight(Append(s, x))
<1>1. Append(s, x) \in Seq(Tokens)
  BY AppendIs
<1> SUFFICES ASSUME NEW i \in 1..Len(Append(s, x)), Append(s, x)[i].what = "method"
             PROVE  MethodRight(Append(s, x)[i])
  BY <1>1 DEF MethodsRight
<1>2. CASE i \in 1..Len(s)
  BY <1>2, AppendIs DEF MethodsRight
<1>3. CASE i = Len(s) + 1
  BY <1>3, AppendIs
<1> QED
  BY <1>2, <1>3, AppendIs

\* An item that is no method, or a mark.
LEMMA OtherAppend ==
  ASSUME NEW s \in Seq(Tokens), MethodsRight(s)
  PROVE  /\ \A x \in Tokens : x.what # "method" => Append(s, x) \in Seq(Tokens) /\ MethodsRight(Append(s, x))
         /\ \A what \in Kinds \ ItemTokens :
              Append(s, Mark(what)) \in Seq(Tokens) /\ MethodsRight(Append(s, Mark(what)))
<1>1. \A x \in Tokens : x.what # "method" => Append(s, x) \in Seq(Tokens) /\ MethodsRight(Append(s, x))
  BY MethodsAppend
<1>2. ASSUME NEW what \in Kinds \ ItemTokens PROVE Mark(what) \in Tokens /\ Mark(what).what # "method"
  BY MarksFit, KindsAre
<1> QED
  BY <1>1, <1>2

LEMMA ImageStays == [Next]_vars => image' = image
BY DEF Next, BeginImage, EndImage, SkipClass, NullName, BeginClass, EndClass, NextField, EndFields,
       SkipMethod, BeginMethod, EndMethod, NextParam, vars

LEMMA MethodsStep ==
  ASSUME TypeInv, MethodsRight(out), [Next]_vars
  PROVE  MethodsRight(out')
<1>1. out \in Seq(Tokens)
  BY DEF TypeInv, GenTypeOK
<1>2. \A s \in Seq(Tokens), what \in {"namespace", "base", "blank", "block", "endBlock", "paren", "endParen", "comma"} :
        MethodsRight(s) => Append(s, Mark(what)) \in Seq(Tokens) /\ MethodsRight(Append(s, Mark(what)))
  BY OtherAppend, KindsAre
<1>3. \A s \in Seq(Tokens), x \in Tokens :
        MethodsRight(s) /\ x.what # "method" => Append(s, x) \in Seq(Tokens) /\ MethodsRight(Append(s, x))
  BY OtherAppend
<1>4. CASE BeginImage \/ EndImage \/ EndClass \/ EndMethod \/ EndFields
  BY <1>1, <1>2, <1>4, ImageWrites
<1>5. CASE BeginClass \/ NullName
  <2>1. HeaderToken \in Tokens /\ HeaderToken.what # "method"
    BY <1>5, HeaderFits DEF BeginClass, NullName, Keywords
  <2>2. Append(out, HeaderToken) \in Seq(Tokens) /\ MethodsRight(Append(out, HeaderToken))
    BY <1>1, <1>3, <2>1
  <2>3. /\ Append(Append(out, HeaderToken), Mark("base")) \in Seq(Tokens)
        /\ MethodsRight(Append(Append(out, HeaderToken), Mark("base")))
    BY <1>2, <2>2
  <2> QED
    BY <1>2, <1>5, <2>2, <2>3, ClassWrites
<1>6. CASE NextField
  <2>1. FieldToken \in Tokens /\ FieldToken.what # "method"
    BY <1>6, FieldFits DEF NextField
  <2> QED
    BY <1>1, <1>3, <1>6, <2>1, MemberWrites
<1>7. CASE BeginMethod
  <2>1. MethodToken \in Tokens /\ MethodToken.what = "method" /\ MethodToken.item = <<j, m>>
    BY <1>7, MethodTokenFits DEF BeginMethod
  <2>2. MethodRight(MethodToken)
    <3>1. m \in 1..Len(Class.methods) /\ j \in 1..Len(image) /\ Class \in Classes
      BY <1>7, MethodFits, ClassFits DEF BeginMethod, TypeInv, GenTypeOK, CursorFits, InClass
    <3>2. MethodToken.words = Access[Method.access] \cup MethodWords(Method.flags)
      BY DEF MethodToken, Token
    <3> QED
      BY <2>1, <3>1, <3>2 DEF MethodRight, Class, Method
  <2>3. Append(out, MethodToken) \in Seq(Tokens) /\ MethodsRight(Append(out, MethodToken))
    BY <1>1, <2>1, <2>2, MethodsAppend
  <2> QED
    BY <1>2, <1>7, <2>3, MemberWrites
<1>8. CASE NextParam
  <2>1. ParamToken \in Tokens /\ ParamToken.what # "method"
    BY ParamFits
  <2>2. Append(out, ParamToken) \in Seq(Tokens) /\ MethodsRight(Append(out, ParamToken))
    BY <1>1, <1>3, <2>1
  <2> QED
    BY <1>2, <1>8, <2>2, MemberWrites
<1>9. CASE SkipClass \/ SkipMethod \/ UNCHANGED vars
  BY <1>9 DEF SkipClass, SkipMethod, vars
<1> QED
  BY <1>4, <1>5, <1>6, <1>7, <1>8, <1>9 DEF Next

LEMMA MethodsFollow == TypeInv /\ MethodsRight(out) => ModifiersFollowCSharp
<1> SUFFICES ASSUME TypeInv, MethodsRight(out), NEW i \in 1..Len(out), out[i].what = "method"
             PROVE  LET flags == image[out[i].item[1]].methods[out[i].item[2]].flags
                        words == out[i].words
                    IN  /\ "override" \in words <=> "virtual" \in flags /\ "newSlot" \notin flags
                        /\ "sealed" \in words => "override" \in words
                        /\ "virtual" \in words =>
                             words \cap {"override", "abstract", "sealed", "static"} = {}
                        /\ "static" \in words =>
                             words \cap {"override", "abstract", "sealed", "virtual"} = {}
  BY DEF ModifiersFollowCSharp
<1>1. PICK c \in 1..Len(image) : image[c] \in Classes /\ \E k \in 1..Len(image[c].methods) :
        LET method == image[c].methods[k]
        IN  out[i].item = <<c, k>> /\ out[i].words = Access[method.access] \cup MethodWords(method.flags)
  BY DEF MethodsRight, MethodRight
<1>2. PICK k \in 1..Len(image[c].methods) :
        LET method == image[c].methods[k]
        IN  out[i].item = <<c, k>> /\ out[i].words = Access[method.access] \cup MethodWords(method.flags)
  BY <1>1
<1> DEFINE method == image[c].methods[k]
<1>3. image[c].methods \in Seq(Methods)
  BY <1>1 DEF Classes
<1>4. method \in Methods
  BY <1>3
<1>5. Allowed(method.flags) /\ method.access \in DOMAIN Access
  BY <1>4 DEF Methods
<1>6. /\ out[i].item[1] = c /\ out[i].item[2] = k
      /\ out[i].words = Access[method.access] \cup MethodWords(method.flags)
  BY <1>2
<1> DEFINE flags == method.flags
           access == method.access
<1>7. image[out[i].item[1]].methods[out[i].item[2]].flags = flags
  BY <1>6
<1>8. Allowed(flags) /\ access \in DOMAIN Access /\ out[i].words = Access[access] \cup MethodWords(flags)
  BY <1>5, <1>6
<1> HIDE DEF flags, access
<1> QED
  BY <1>7, <1>8, WordsFollow

\* Whatever the assembly: a method's modifiers mean what its flags mean, and
\* no two of them exclude each other in C#.
THEOREM ModifiersAreCSharp == Spec => []ModifiersFollowCSharp
<1>1. Init => TypeInv /\ MethodsRight(out)
  BY TypeInit DEF Init, MethodsRight
<1>2. TypeInv /\ MethodsRight(out) /\ [Next]_vars => (TypeInv /\ MethodsRight(out))'
  <2>1. ASSUME TypeInv, MethodsRight(out), [Next]_vars PROVE MethodsRight(out)'
    <3>1. MethodsRight(out') /\ image' = image
      BY <2>1, MethodsStep, ImageStays
    <3>2. ASSUME NEW i \in 1..Len(out'), out'[i].what = "method" PROVE MethodRight(out[i])'
      <4>1. MethodRight(out'[i])
        BY <3>1, <3>2 DEF MethodsRight
      <4> QED
        BY <3>1, <4>1 DEF MethodRight
    <3> QED
      BY <3>2 DEF MethodsRight
  <2> QED
    BY <2>1, TypeStep
<1> QED
  BY <1>1, <1>2, MethodsFollow, PTL DEF Spec

-----------------------------------------------------------------------------
(* Commas.                                                                 *)

\* A comma behind this parameter may hang.
Hanging(item) ==
  LET params == image[item[1]].methods[item[2]].params
  IN  item[3] < Len(params) /\ \A q \in (item[3] + 1)..Len(params) : params[q] = "null"

\* ParamsSeparated of two neighbours, and of a sequence.
Apart(x, y, before) ==
  /\ x.what = "param" => y.what \in {"comma", "endParen"}
  /\ x.what = "comma" => y.what = "param" \/ Hanging(before)
Separated(s) ==
  /\ Len(s) > 0 => s[1].what # "comma"
  /\ \A i \in 1..(Len(s) - 1) : Apart(s[i], s[i + 1], s[i - 1].item)

\* Whatever follows is apart from what is there.
Calm(s) == Len(s) = 0 \/ s[Len(s)].what \notin {"param", "comma"}

\* The parameters between a comma at the end and the cursor have no type.
CommaLast(before) ==
  \E q0 \in 1..(p - 1) :
    /\ before = <<j, m, q0>> /\ q0 < Len(Method.params)
    /\ \A q \in (q0 + 1)..(p - 1) : Method.params[q] = "null"

\* What the dump ends in.
EndsIn ==
  \/ Calm(out)
  \/ pc = "params" /\ Len(out) > 0 /\ out[Len(out)].what = "param" /\ p > Len(Method.params)
  \/ /\ pc = "params" /\ Len(out) > 1 /\ out[Len(out)].what = "comma"
     /\ CommaLast(out[Len(out) - 1].item)

LEMMA SeparatedAppend ==
  ASSUME NEW s \in Seq(Tokens), NEW x \in Tokens, Separated(s),
         Len(s) = 0 => x.what # "comma",
         Len(s) > 0 => Apart(s[Len(s)], x, s[Len(s) - 1].item)
  PROVE  Separated(Append(s, x))
<1> DEFINE t == Append(s, x)
<1>1. Len(s) \in Nat /\ Len(t) = Len(s) + 1 /\ t[Len(s) + 1] = x /\ \A i \in 1..Len(s) : t[i] = s[i]
  BY AppendIs
<1>2. \A i \in 1..(Len(s) - 1) : Apart(s[i], s[i + 1], s[i - 1].item)
  BY DEF Separated
<1>3. Len(s) > 0 => s[1].what # "comma"
  BY DEF Separated
<1> HIDE DEF t
<1>4. t[1].what # "comma"
  BY <1>1, <1>3
<1>5. ASSUME NEW i \in 1..(Len(t) - 1) PROVE Apart(t[i], t[i + 1], t[i - 1].item)
  <2>1. i \in 1..Len(s) /\ t[i] = s[i] /\ (i # 1 => t[i - 1] = s[i - 1])
    BY <1>1, <1>5
  <2>2. CASE i = Len(s)
    <3>1. t[i + 1] = x /\ Len(s) > 0 /\ s[i] = s[Len(s)]
      BY <1>1, <2>1, <2>2
    <3>2. CASE i # 1
      BY <2>1, <2>2, <3>1, <3>2
    <3>3. CASE i = 1
      BY <1>3, <2>1, <2>2, <3>1, <3>3 DEF Apart
    <3> QED
      BY <3>2, <3>3
  <2>3. CASE i # Len(s)
    <3>1. i \in 1..(Len(s) - 1) /\ t[i + 1] = s[i + 1] /\ Len(s) > 0
      BY <1>1, <2>1, <2>3
    <3>2. CASE i # 1
      BY <1>2, <2>1, <3>1, <3>2
    <3>3. CASE i = 1
      BY <1>2, <1>3, <2>1, <3>1, <3>3 DEF Apart
    <3> QED
      BY <3>2, <3>3
  <2> QED
    BY <2>2, <2>3
<1>6. Separated(t)
  BY <1>4, <1>5 DEF Separated
<1> QED
  BY <1>6 DEF t

\* Behind calm, what is no comma; behind a parameter, what has to follow it.
LEMMA CalmAppend ==
  ASSUME NEW s \in Seq(Tokens), NEW x \in Tokens, x.what # "comma", Calm(s), Separated(s)
  PROVE  /\ Append(s, x) \in Seq(Tokens) /\ Separated(Append(s, x))
         /\ x.what # "param" => Calm(Append(s, x))
<1>1. Len(s) > 0 => Apart(s[Len(s)], x, s[Len(s) - 1].item)
  BY DEF Calm, Apart
<1>2. Separated(Append(s, x))
  BY <1>1, SeparatedAppend
<1>3. x.what # "param" => Calm(Append(s, x))
  BY AppendIs DEF Calm
<1> QED
  BY <1>2, <1>3, AppendIs

LEMMA CalmOutside == EndsIn /\ pc # "params" => Calm(out)
BY DEF EndsIn

LEMMA MarkCalm ==
  ASSUME NEW s \in Seq(Tokens), Separated(s), Calm(s),
         NEW what \in {"namespace", "base", "blank", "block", "endBlock", "paren", "endParen"}
  PROVE  /\ Append(s, Mark(what)) \in Seq(Tokens) /\ Separated(Append(s, Mark(what)))
         /\ Calm(Append(s, Mark(what)))
<1>1. what \in Kinds \ ItemTokens /\ what # "comma" /\ what # "param"
  BY KindsAre
<1>2. Mark(what) \in Tokens /\ Mark(what).what # "comma" /\ Mark(what).what # "param"
  BY <1>1, MarksFit
<1> QED
  BY <1>2, CalmAppend

\* The closing parenthesis.
LEMMA SeparatedEndMethod ==
  ASSUME TypeInv, Separated(out), EndsIn, EndMethod
  PROVE  Separated(Append(out, Mark("endParen"))) /\ Calm(Append(out, Mark("endParen")))
<1>1. out \in Seq(Tokens)
  BY DEF TypeInv, GenTypeOK
<1>2. Mark("endParen") \in Tokens /\ Mark("endParen").what = "endParen"
  BY MarksFit, KindsAre
<1>3. Len(out) > 0 => Apart(out[Len(out)], Mark("endParen"), out[Len(out) - 1].item)
  <2>1. CASE Calm(out)
    BY <2>1 DEF Calm, Apart
  <2>2. CASE Len(out) > 0 /\ out[Len(out)].what = "param"
    BY <1>2, <2>2 DEF Apart
  <2>3. CASE Len(out) > 1 /\ out[Len(out)].what = "comma" /\ CommaLast(out[Len(out) - 1].item)
    <3> DEFINE before == out[Len(out) - 1].item
    <3>1. PICK q0 \in 1..(p - 1) :
            /\ before = <<j, m, q0>> /\ q0 < Len(Method.params)
            /\ \A q \in (q0 + 1)..(p - 1) : Method.params[q] = "null"
      BY <2>3 DEF CommaLast
    <3>2. p > Len(Method.params) /\ Len(Method.params) \in Nat /\ p \in Nat
      BY MethodFits DEF EndMethod, TypeInv, GenTypeOK, CursorFits
    <3>3. \A q \in (q0 + 1)..Len(Method.params) : Method.params[q] = "null"
      BY <3>1, <3>2
    <3>4. image[before[1]].methods[before[2]].params = Method.params /\ before[3] = q0
      BY <3>1 DEF Method, Class
    <3>5. Hanging(before)
      BY <3>1, <3>3, <3>4 DEF Hanging
    <3> QED
      BY <2>3, <3>5 DEF Apart
  <2> QED
    BY <2>1, <2>2, <2>3 DEF EndsIn
<1>4. Separated(Append(out, Mark("endParen")))
  BY <1>1, <1>2, <1>3, SeparatedAppend
<1>5. Calm(Append(out, Mark("endParen")))
  BY <1>1, <1>2, AppendIs DEF Calm
<1> QED
  BY <1>4, <1>5

\* A parameter.
LEMMA SeparatedNextParam ==
  ASSUME TypeInv, Separated(out), EndsIn, NextParam
  PROVE  Separated(out') /\ EndsIn'
<1>1. out \in Seq(Tokens) /\ p \in Nat \ {0} /\ p <= Len(Method.params) /\ Len(Method.params) \in Nat
  BY MethodFits DEF TypeInv, GenTypeOK, CursorFits, NextParam
<1>2. /\ pc = "params" /\ pc' = "params" /\ p' = p + 1 /\ j' = j /\ m' = m /\ image' = image
      /\ Method' = Method
  BY DEF NextParam, Method, Class
<1>3. \/ Calm(out)
      \/ Len(out) > 1 /\ out[Len(out)].what = "comma" /\ CommaLast(out[Len(out) - 1].item)
  BY <1>1 DEF EndsIn
<1>4. CASE Method.params[p] = "null"
  <2>1. out' = out
    BY <1>4, MemberWrites
  <2>2. CASE Calm(out)
    BY <2>1, <2>2 DEF EndsIn, Calm
  <2>3. CASE Len(out) > 1 /\ out[Len(out)].what = "comma" /\ CommaLast(out[Len(out) - 1].item)
    <3> DEFINE before == out[Len(out) - 1].item
    <3>1. PICK q0 \in 1..(p - 1) :
            /\ before = <<j, m, q0>> /\ q0 < Len(Method.params)
            /\ \A q \in (q0 + 1)..(p - 1) : Method.params[q] = "null"
      BY <2>3 DEF CommaLast
    <3>2. q0 \in 1..(p' - 1) /\ \A q \in (q0 + 1)..(p' - 1) : Method.params[q] = "null"
      <4>1. ASSUME NEW q \in (q0 + 1)..(p' - 1) PROVE q \in (q0 + 1)..(p - 1) \/ q = p
        BY <1>1, <1>2, <4>1
      <4> QED
        BY <1>1, <1>2, <1>4, <3>1, <4>1
    <3>3. CommaLast(before)'
      BY <1>2, <2>1, <3>1, <3>2 DEF CommaLast
    <3> QED
      BY <1>2, <2>1, <2>3, <3>3 DEF EndsIn
  <2> QED
    BY <1>3, <2>1, <2>2, <2>3
<1>5. CASE Method.params[p] # "null"
  <2> DEFINE s == Append(out, ParamToken)
  <2>1. ParamToken \in Tokens /\ ParamToken.what = "param" /\ ParamToken.item = <<j, m, p>>
    BY ParamFits
  <2>2. Len(out) > 0 => Apart(out[Len(out)], ParamToken, out[Len(out) - 1].item)
    BY <1>3, <2>1 DEF Apart, Calm
  <2>3. Separated(s) /\ s \in Seq(Tokens) /\ Len(s) = Len(out) + 1 /\ s[Len(s)] = ParamToken
    BY <1>1, <2>1, <2>2, SeparatedAppend, AppendIs
  <2>4. CASE p < Len(Method.params)
    <3> DEFINE t == Append(s, Mark("comma"))
    <3>1. Mark("comma") \in Tokens /\ Mark("comma").what = "comma"
      BY MarksFit, KindsAre
    <3> HIDE DEF s
    <3>2. Len(out) \in Nat /\ Len(s) > 0 /\ Apart(s[Len(s)], Mark("comma"), s[Len(s) - 1].item)
      BY <1>1, <2>1, <2>3, <3>1 DEF Apart
    <3>3. Separated(t) /\ Len(t) = Len(s) + 1 /\ t[Len(t)] = Mark("comma") /\ t[Len(s)] = s[Len(s)]
      BY <2>3, <3>1, <3>2, SeparatedAppend, AppendIs
    <3> HIDE DEF t
    <3>4. out' = t
      BY <1>5, <2>4, MemberWrites DEF s, t
    <3>5. Len(out') > 1 /\ out'[Len(out')].what = "comma" /\ out'[Len(out') - 1].item = <<j, m, p>>
      BY <2>1, <2>3, <3>1, <3>2, <3>3, <3>4
    <3>6. CommaLast(out[Len(out) - 1].item)'
      BY <1>1, <1>2, <2>4, <3>5 DEF CommaLast
    <3>7. EndsIn'
      BY <1>2, <3>5, <3>6 DEF EndsIn
    <3> QED
      BY <3>3, <3>4, <3>7
  <2>5. CASE ~(p < Len(Method.params))
    <3>1. out' = s
      BY <1>5, <2>5, MemberWrites
    <3> HIDE DEF s
    <3>2. Len(out') > 0 /\ out'[Len(out')].what = "param" /\ p' > Len(Method.params)
      BY <1>1, <1>2, <2>1, <2>3, <2>5, <3>1
    <3> QED
      BY <1>2, <2>3, <3>1, <3>2 DEF EndsIn
  <2> QED
    BY <2>4, <2>5
<1> QED
  BY <1>4, <1>5

LEMMA SeparatedStep ==
  ASSUME TypeInv, Separated(out), EndsIn, [Next]_vars
  PROVE  Separated(out') /\ EndsIn'
<1>1. out \in Seq(Tokens)
  BY DEF TypeInv, GenTypeOK
<1>2. \A s \in Seq(Tokens), what \in {"namespace", "base", "blank", "block", "endBlock", "paren", "endParen"} :
        Separated(s) /\ Calm(s) =>
          /\ Append(s, Mark(what)) \in Seq(Tokens) /\ Separated(Append(s, Mark(what)))
          /\ Calm(Append(s, Mark(what)))
  BY MarkCalm
<1>3. \A s \in Seq(Tokens), x \in Tokens : Separated(s) /\ Calm(s) /\ x.what \notin {"comma", "param"} =>
        Append(s, x) \in Seq(Tokens) /\ Separated(Append(s, x)) /\ Calm(Append(s, x))
  BY CalmAppend
<1>4. Calm(out') => EndsIn'
  BY DEF EndsIn, Calm
<1>5. CASE BeginImage \/ EndImage \/ EndClass \/ EndFields
  <2>1. Calm(out)
    BY <1>5, CalmOutside DEF BeginImage, EndImage, EndClass, EndFields
  <2> QED
    BY <1>1, <1>2, <1>4, <1>5, <2>1, ImageWrites
<1>6. CASE BeginClass \/ NullName
  <2>1. HeaderToken \in Tokens /\ HeaderToken.what \notin {"comma", "param"} /\ Calm(out)
    BY <1>6, HeaderFits, CalmOutside DEF BeginClass, NullName, Keywords
  <2>2. /\ Append(out, HeaderToken) \in Seq(Tokens) /\ Separated(Append(out, HeaderToken))
        /\ Calm(Append(out, HeaderToken))
    BY <1>1, <1>3, <2>1
  <2>3. /\ Append(Append(out, HeaderToken), Mark("base")) \in Seq(Tokens)
        /\ Separated(Append(Append(out, HeaderToken), Mark("base")))
        /\ Calm(Append(Append(out, HeaderToken), Mark("base")))
    BY <1>2, <2>2
  <2> QED
    BY <1>2, <1>4, <1>6, <2>1, <2>2, <2>3, ClassWrites
<1>7. CASE NextField
  <2>1. FieldToken \in Tokens /\ FieldToken.what \notin {"comma", "param"} /\ Calm(out)
    BY <1>7, FieldFits, CalmOutside DEF NextField
  <2> QED
    BY <1>1, <1>3, <1>4, <1>7, <2>1, MemberWrites
<1>8. CASE BeginMethod
  <2>1. MethodToken \in Tokens /\ MethodToken.what \notin {"comma", "param"} /\ Calm(out)
    BY <1>8, MethodTokenFits, CalmOutside DEF BeginMethod
  <2>2. /\ Append(out, MethodToken) \in Seq(Tokens) /\ Separated(Append(out, MethodToken))
        /\ Calm(Append(out, MethodToken))
    BY <1>1, <1>3, <2>1
  <2> QED
    BY <1>2, <1>4, <1>8, <2>2, MemberWrites
<1>9. CASE NextParam
  BY <1>9, SeparatedNextParam
<1>10. CASE EndMethod
  BY <1>4, <1>10, SeparatedEndMethod, ImageWrites
<1>11. CASE SkipClass \/ SkipMethod
  <2>1. Calm(out) /\ out' = out
    BY <1>11, CalmOutside DEF SkipClass, SkipMethod
  <2> QED
    BY <1>4, <2>1
<1>12. CASE UNCHANGED vars
  BY <1>12 DEF vars, walkVars, EndsIn, CommaLast, Calm, Method, Class
<1> QED
  BY <1>5, <1>6, <1>7, <1>8, <1>9, <1>10, <1>11, <1>12 DEF Next

\* Whatever the assembly: parameters are separated by commas, and a comma
\* hangs only in front of parameters without a type.
THEOREM ParamsAreSeparated == Spec => []ParamsSeparated
<1>1. Init => TypeInv /\ Separated(out) /\ EndsIn
  BY TypeInit DEF Init, Separated, EndsIn, Calm
<1>2. TypeInv /\ Separated(out) /\ EndsIn /\ [Next]_vars => (TypeInv /\ Separated(out) /\ EndsIn)'
  <2>1. ASSUME TypeInv, Separated(out), EndsIn, [Next]_vars PROVE Separated(out)' /\ EndsIn'
    <3>1. Separated(out') /\ EndsIn' /\ image' = image
      BY <2>1, SeparatedStep, ImageStays
    <3> QED
      BY <3>1 DEF Separated, Apart, Hanging
  <2> QED
    BY <2>1, TypeStep
<1>3. Separated(out) => ParamsSeparated
  BY DEF Separated, Apart, Hanging, ParamsSeparated
<1> QED
  BY <1>1, <1>2, <1>3, PTL DEF Spec

-----------------------------------------------------------------------------
(* What has been written is what the cursor has gone past.                 *)

InOrder(s) == Ordered(s) /\ Named(s)

\* The cursor of the loops is past this item.
Passed(what, item) ==
  \/ item[1] < j
  \/ item[1] = j /\ what \in Keywords /\ InClass
  \/ item[1] = j /\ what = "field" /\ (pc \in {"methods", "params"} \/ (pc = "fields" /\ item[2] < f))
  \/ item[1] = j /\ what = "method" /\ ((pc = "methods" /\ item[2] < m) \/ (pc = "params" /\ item[2] <= m))
  \/ /\ item[1] = j /\ what = "param"
     /\ (pc \in {"methods", "params"} /\ item[2] < m) \/ (pc = "params" /\ item[2] = m /\ item[3] < p)

Gone(what) == {item \in Items(what) : Passed(what, item)}

Mirrored == InOrder(out) /\ (pc # "fault" => \A what \in ItemTokens : Of(out, what) = Gone(what))

LEMMA MarkInOrder ==
  ASSUME NEW s \in Seq(Tokens), InOrder(s), NEW what \in Kinds \ ItemTokens
  PROVE  /\ Append(s, Mark(what)) \in Seq(Tokens) /\ InOrder(Append(s, Mark(what)))
         /\ \A kind \in ItemTokens : Of(Append(s, Mark(what)), kind) = Of(s, kind)
<1>1. Mark(what) \in Tokens /\ Mark(what).what = what /\ Mark(what).item = <<>>
  BY MarksFit
<1>2. InOrder(Append(s, Mark(what)))
  BY <1>1, OrderedAppend, NamedAppend DEF InOrder
<1>3. ASSUME NEW kind \in ItemTokens PROVE Of(Append(s, Mark(what)), kind) = Of(s, kind)
  <2>1. Mark(what).what # kind
    BY <1>1
  <2>2. Of(Append(s, Mark(what)), kind) = Of(s, kind) \cup {}
    BY <1>1, <2>1, OfAppend
  <2> QED
    BY <2>2
<1> QED
  BY <1>1, <1>2, <1>3, AppendIs

LEMMA ItemInOrder ==
  ASSUME NEW s \in Seq(Tokens), InOrder(s), NEW x \in Tokens, x.what \in ItemTokens, x.item # <<>>, Follows(s, x)
  PROVE  /\ Append(s, x) \in Seq(Tokens) /\ InOrder(Append(s, x))
         /\ \A kind \in ItemTokens :
              Of(Append(s, x), kind) = Of(s, kind) \cup (IF x.what = kind THEN {x.item} ELSE {})
<1>1. InOrder(Append(s, x))
  BY OrderedAppend, NamedAppend DEF InOrder
<1>2. ASSUME NEW kind \in ItemTokens
      PROVE  Of(Append(s, x), kind) = Of(s, kind) \cup (IF x.what = kind THEN {x.item} ELSE {})
  BY OfAppend
<1> QED
  BY <1>1, <1>2, AppendIs

\* The items of the image, one by one.
ClassThere(c) == c \in 1..Len(image) /\ image[c] # NoClass
FieldThere(c, k) ==
  /\ ClassThere(c) /\ k \in 1..Len(image[c].fields)
  /\ Printable(image[c].fields[k].name) /\ image[c].fields[k].type # "null"
MethodThere(c, k) ==
  ClassThere(c) /\ k \in 1..Len(image[c].methods) /\ Printable(image[c].methods[k].name)
ParamThere(c, k, q) ==
  /\ MethodThere(c, k) /\ q \in 1..Len(image[c].methods[k].params)
  /\ image[c].methods[k].params[q] # "null"

LEMMA ItemsAre ==
  /\ \A what \in Keywords : \A item :
       item \in Items(what) <=> \E c : ClassThere(c) /\ Keyword(image[c]) = what /\ item = <<c>>
  /\ \A item : item \in Items("field") <=> \E c, k : FieldThere(c, k) /\ item = <<c, k>>
  /\ \A item : item \in Items("method") <=> \E c, k : MethodThere(c, k) /\ item = <<c, k>>
  /\ \A item : item \in Items("param") <=> \E c, k, q : ParamThere(c, k, q) /\ item = <<c, k, q>>
<1>1. ASSUME NEW what \in Keywords, NEW item
      PROVE  item \in Items(what) <=> \E c : ClassThere(c) /\ Keyword(image[c]) = what /\ item = <<c>>
  <2> DEFINE there == {d \in {c \in 1..Len(image) : image[c] # NoClass} : Keyword(image[d]) = what}
  <2>1. Items(what) = {<<c>> : c \in there}
    <3>1. what # "field" /\ what # "method" /\ what # "param"
      BY DEF Keywords
    <3> QED
      BY <3>1, Zenon DEF Items
  <2>2. \A c : c \in there <=> ClassThere(c) /\ Keyword(image[c]) = what
    BY DEF ClassThere
  <2> HIDE DEF there
  <2> QED
    BY <2>1, <2>2
<1>2. "field" \notin Keywords /\ "method" \notin Keywords /\ "param" \notin Keywords
  BY DEF Keywords
<1>3. ASSUME NEW item PROVE item \in Items("field") <=> \E c, k : FieldThere(c, k) /\ item = <<c, k>>
  BY <1>2 DEF Items, FieldThere, ClassThere
<1>4. ASSUME NEW item PROVE item \in Items("method") <=> \E c, k : MethodThere(c, k) /\ item = <<c, k>>
  BY <1>2 DEF Items, MethodThere, ClassThere
<1>5. ASSUME NEW item PROVE item \in Items("param") <=> \E c, k, q : ParamThere(c, k, q) /\ item = <<c, k, q>>
  BY <1>2 DEF Items, ParamThere, MethodThere, ClassThere
<1> QED
  BY <1>1, <1>3, <1>4, <1>5

\* A step that goes past one item, i0, of kind w0, or past none.
LEMMA GoneStep ==
  ASSUME image' = image, NEW w0, NEW i0, w0 \in ItemTokens => i0 \in Items(w0),
         \A what \in ItemTokens : \A item \in Items(what) :
           Passed(what, item)' <=> Passed(what, item) \/ (what = w0 /\ item = i0)
  PROVE  \A what \in ItemTokens : Gone(what)' = Gone(what) \cup (IF w0 = what THEN {i0} ELSE {})
<1> SUFFICES ASSUME NEW what \in ItemTokens
             PROVE  Gone(what)' = Gone(what) \cup (IF w0 = what THEN {i0} ELSE {})
  OBVIOUS
<1>1. Items(what)' = Items(what)
  BY DEF Items
<1>2. Gone(what)' = {item \in Items(what) : Passed(what, item)'}
  BY <1>1 DEF Gone
<1>3. \A item \in Items(what) : Passed(what, item)' <=> Passed(what, item) \/ (what = w0 /\ item = i0)
  OBVIOUS
<1>4. Gone(what) = {item \in Items(what) : Passed(what, item)}
  BY DEF Gone
<1> QED
  BY <1>2, <1>3, <1>4

\* The same, kind by kind.
Passes(w0, i0) ==
  /\ \A what \in Keywords : \A c : ClassThere(c) /\ Keyword(image[c]) = what =>
       (Passed(what, <<c>>)' <=> Passed(what, <<c>>) \/ (what = w0 /\ <<c>> = i0))
  /\ \A c, k : FieldThere(c, k) =>
       (Passed("field", <<c, k>>)' <=> Passed("field", <<c, k>>) \/ ("field" = w0 /\ <<c, k>> = i0))
  /\ \A c, k : MethodThere(c, k) =>
       (Passed("method", <<c, k>>)' <=> Passed("method", <<c, k>>) \/ ("method" = w0 /\ <<c, k>> = i0))
  /\ \A c, k, q : ParamThere(c, k, q) =>
       (Passed("param", <<c, k, q>>)' <=> Passed("param", <<c, k, q>>) \/ ("param" = w0 /\ <<c, k, q>> = i0))

LEMMA PassesStep ==
  ASSUME image' = image, NEW w0, NEW i0, w0 \in ItemTokens => i0 \in Items(w0), Passes(w0, i0)
  PROVE  \A what \in ItemTokens : Gone(what)' = Gone(what) \cup (IF w0 = what THEN {i0} ELSE {})
<1>1. ASSUME NEW what \in ItemTokens, NEW item \in Items(what)
      PROVE  Passed(what, item)' <=> Passed(what, item) \/ (what = w0 /\ item = i0)
  <2>1. CASE what \in Keywords
    <3>1. PICK c : ClassThere(c) /\ Keyword(image[c]) = what /\ item = <<c>>
      BY <2>1, ItemsAre
    <3> QED
      BY <2>1, <3>1 DEF Passes
  <2>2. CASE what = "field"
    <3>1. PICK c, k : FieldThere(c, k) /\ item = <<c, k>>
      BY <2>2, ItemsAre
    <3> QED
      BY <2>2, <3>1 DEF Passes
  <2>3. CASE what = "method"
    <3>1. PICK c, k : MethodThere(c, k) /\ item = <<c, k>>
      BY <2>3, ItemsAre
    <3> QED
      BY <2>3, <3>1 DEF Passes
  <2>4. CASE what = "param"
    <3>1. PICK c, k, q : ParamThere(c, k, q) /\ item = <<c, k, q>>
      BY <2>4, ItemsAre
    <3> QED
      BY <2>4, <3>1 DEF Passes
  <2> QED
    BY <2>1, <2>2, <2>3, <2>4 DEF ItemTokens
<1> QED
  BY <1>1, GoneStep

\* What the places of an item say of the cursor.
LEMMA ThereIs ==
  /\ \A c : ClassThere(c) => c \in Nat /\ c \in 1..Len(image) /\ image[c] # NoClass
  /\ \A c, k : FieldThere(c, k) => /\ ClassThere(c) /\ k \in Nat \ {0} /\ k <= Len(image[c].fields)
                                   /\ Printable(image[c].fields[k].name) /\ image[c].fields[k].type # "null"
  /\ \A c, k : MethodThere(c, k) => /\ ClassThere(c) /\ k \in Nat \ {0} /\ k <= Len(image[c].methods)
                                    /\ Printable(image[c].methods[k].name)
  /\ \A c, k, q : ParamThere(c, k, q) => /\ MethodThere(c, k) /\ q \in Nat \ {0}
                                         /\ q <= Len(image[c].methods[k].params)
                                         /\ image[c].methods[k].params[q] # "null"
BY DEF ClassThere, FieldThere, MethodThere, ParamThere

\* Steps that write no item.
LEMMA PassesNothing ==
  ASSUME TypeInv, BeginImage \/ EndImage \/ SkipClass \/ EndFields \/ SkipMethod \/ EndMethod \/ EndClass
  PROVE  Passes("none", <<>>)
<1>1. j \in Nat /\ f \in Nat /\ m \in Nat \ {0} /\ p \in Nat
  BY DEF TypeInv, GenTypeOK
<1>2. CASE BeginImage \/ EndImage
  BY <1>1, <1>2, ThereIs DEF BeginImage, EndImage, Passes, Passed, InClass, walkVars, Keywords
<1>3. CASE SkipClass
  BY <1>1, <1>3, ThereIs DEF SkipClass, Passes, Passed, InClass, Class, Keywords
<1>4. CASE EndFields
  BY <1>1, <1>4, ThereIs DEF EndFields, Passes, Passed, InClass, Class, Keywords, TypeInv, CursorFits, walkVars
<1>5. CASE SkipMethod
  BY <1>1, <1>5, ThereIs DEF SkipMethod, Passes, Passed, InClass, Class, Method, Keywords
<1>6. CASE EndMethod
  BY <1>1, <1>6, ThereIs DEF EndMethod, Passes, Passed, InClass, Class, Method, Keywords
<1>7. CASE EndClass
  BY <1>1, <1>7, ThereIs DEF EndClass, Passes, Passed, InClass, Class, Keywords
<1> QED
  BY <1>2, <1>3, <1>4, <1>5, <1>6, <1>7

LEMMA PassesBeginClass ==
  ASSUME TypeInv, BeginClass
  PROVE  Passes(Keyword(Class), <<j>>)
<1>1. j \in Nat /\ f \in Nat /\ m \in Nat \ {0} /\ p \in Nat
  BY DEF TypeInv, GenTypeOK
<1>2. pc = "class" /\ pc' = "fields" /\ f' = 1 /\ m' = 1 /\ j' = j
  BY DEF BeginClass
<1> QED
  BY <1>1, <1>2, ThereIs, KeywordIs DEF Passes, Passed, InClass, Class, Keywords

LEMMA PassesMember ==
  ASSUME TypeInv
  PROVE  /\ NextField => IF Printable(Class.fields[f].name) /\ Class.fields[f].type # "null"
                            THEN Passes("field", <<j, f>>) ELSE Passes("none", <<>>)
         /\ BeginMethod => Passes("method", <<j, m>>)
         /\ NextParam => IF Method.params[p] # "null" THEN Passes("param", <<j, m, p>>) ELSE Passes("none", <<>>)
<1>1. j \in Nat /\ f \in Nat /\ m \in Nat \ {0} /\ p \in Nat
  BY DEF TypeInv, GenTypeOK
<1>2. ASSUME NextField
      PROVE  IF Printable(Class.fields[f].name) /\ Class.fields[f].type # "null"
               THEN Passes("field", <<j, f>>) ELSE Passes("none", <<>>)
  <2>1. pc = "fields" /\ pc' = pc /\ f' = f + 1 /\ m' = m /\ j' = j /\ p' = p
    BY <1>2 DEF NextField
  <2> QED
    BY <1>1, <2>1, ThereIs DEF Passes, Passed, InClass, Class, Keywords
<1>3. ASSUME BeginMethod PROVE Passes("method", <<j, m>>)
  <2>1. pc = "methods" /\ pc' = "params" /\ f' = f /\ m' = m /\ j' = j /\ p' = 1
    BY <1>3 DEF BeginMethod
  <2> QED
    BY <1>1, <2>1, ThereIs DEF Passes, Passed, InClass, Class, Keywords
<1>4. ASSUME NextParam
      PROVE  IF Method.params[p] # "null" THEN Passes("param", <<j, m, p>>) ELSE Passes("none", <<>>)
  <2>1. pc = "params" /\ pc' = pc /\ f' = f /\ m' = m /\ j' = j /\ p' = p + 1
    BY <1>4 DEF NextParam
  <2> QED
    BY <1>1, <2>1, ThereIs DEF Passes, Passed, InClass, Class, Method, Keywords
<1> QED
  BY <1>2, <1>3, <1>4

\* An item that the cursor is at is new, and after whatever it has gone past.
LEMMA AtFollows ==
  ASSUME TypeInv, Mirrored, pc # "fault", NEW x \in Tokens, x.what \in ItemTokens, x.item[1] = j,
         ~Passed(x.what, x.item), x.what \in Keywords => pc = "class"
  PROVE  Follows(out, x)
<1> SUFFICES ASSUME NEW what \in ItemTokens, NEW item \in Of(out, what)
             PROVE  /\ what # x.what \/ item # x.item
                    /\ item[1] <= x.item[1]
                    /\ x.what \in Keywords => item[1] < x.item[1]
  BY DEF Follows
<1>1. item \in Items(what) /\ Passed(what, item)
  BY DEF Mirrored, Gone
<1>2. what # x.what \/ item # x.item
  BY <1>1
<1>3. item[1] \in Nat /\ j \in Nat
  <2>1. CASE what \in Keywords
    BY <1>1, <2>1, ItemsAre, ThereIs DEF TypeInv, GenTypeOK
  <2>2. CASE what = "field"
    BY <1>1, <2>2, ItemsAre, ThereIs DEF TypeInv, GenTypeOK
  <2>3. CASE what = "method"
    BY <1>1, <2>3, ItemsAre, ThereIs DEF TypeInv, GenTypeOK
  <2>4. CASE what = "param"
    BY <1>1, <2>4, ItemsAre, ThereIs DEF TypeInv, GenTypeOK
  <2> QED
    BY <2>1, <2>2, <2>3, <2>4 DEF ItemTokens
<1>4. item[1] < j \/ item[1] = j
  BY <1>1 DEF Passed
<1>5. x.what \in Keywords => item[1] < j
  BY <1>1 DEF Passed, InClass
<1> QED
  BY <1>2, <1>3, <1>4, <1>5

LEMMA HeaderAt ==
  ASSUME TypeInv, pc = "class", j <= Len(image), Class # NoClass, Mirrored
  PROVE  /\ HeaderToken \in Tokens /\ HeaderToken.what = Keyword(Class) /\ HeaderToken.what \in ItemTokens
         /\ HeaderToken.item = <<j>> /\ Follows(out, HeaderToken) /\ <<j>> \in Items(Keyword(Class))
<1>1. /\ HeaderToken \in Tokens /\ HeaderToken.what = Keyword(Class) /\ HeaderToken.what \in Keywords
      /\ HeaderToken.item = <<j>>
  BY HeaderFits
<1>2. ~Passed(HeaderToken.what, HeaderToken.item)
  BY <1>1 DEF Passed, InClass, TypeInv, GenTypeOK
<1>3. Follows(out, HeaderToken)
  BY <1>1, <1>2, AtFollows, KindsAre
<1>4. ClassThere(j)
  BY ClassFits DEF ClassThere, Class
<1>5. <<j>> \in Items(Keyword(Class))
  BY <1>4, ItemsAre, KeywordIs DEF Class
<1> QED
  BY <1>1, <1>3, <1>5, KindsAre

LEMMA FieldAt ==
  ASSUME TypeInv, pc = "fields", f <= Len(Class.fields), Printable(Class.fields[f].name),
         Class.fields[f].type # "null", Mirrored
  PROVE  /\ FieldToken \in Tokens /\ FieldToken.what = "field" /\ FieldToken.item = <<j, f>>
         /\ Follows(out, FieldToken) /\ <<j, f>> \in Items("field")
<1>1. FieldToken \in Tokens /\ FieldToken.what = "field" /\ FieldToken.item = <<j, f>>
  BY FieldFits
<1>2. ~Passed(FieldToken.what, FieldToken.item)
  BY <1>1 DEF Passed, InClass, TypeInv, GenTypeOK, Keywords
<1>3. Follows(out, FieldToken)
  BY <1>1, <1>2, AtFollows, KindsAre DEF Keywords
<1>4. ClassThere(j) /\ Class.fields \in Seq(Fields) /\ f \in Nat \ {0}
  BY ClassFits DEF ClassThere, Class, TypeInv, GenTypeOK, CursorFits, InClass
<1>5. FieldThere(j, f)
  BY <1>4 DEF FieldThere, Class
<1> QED
  BY <1>1, <1>3, <1>5, ItemsAre

LEMMA MethodAt ==
  ASSUME TypeInv, pc = "methods", m <= Len(Class.methods), Printable(Method.name), Mirrored
  PROVE  /\ MethodToken \in Tokens /\ MethodToken.what = "method" /\ MethodToken.item = <<j, m>>
         /\ Follows(out, MethodToken) /\ <<j, m>> \in Items("method")
<1>1. MethodToken \in Tokens /\ MethodToken.what = "method" /\ MethodToken.item = <<j, m>>
  BY MethodTokenFits
<1>2. ~Passed(MethodToken.what, MethodToken.item)
  BY <1>1 DEF Passed, InClass, TypeInv, GenTypeOK, Keywords
<1>3. Follows(out, MethodToken)
  BY <1>1, <1>2, AtFollows, KindsAre DEF Keywords
<1>4. ClassThere(j) /\ m \in 1..Len(Class.methods)
  BY ClassFits, MethodFits DEF ClassThere, Class, TypeInv, GenTypeOK, CursorFits, InClass
<1>5. MethodThere(j, m)
  BY <1>4 DEF MethodThere, Class, Method
<1> QED
  BY <1>1, <1>3, <1>5, ItemsAre

LEMMA ParamAt ==
  ASSUME TypeInv, pc = "params", p <= Len(Method.params), Method.params[p] # "null", Mirrored
  PROVE  /\ ParamToken \in Tokens /\ ParamToken.what = "param" /\ ParamToken.item = <<j, m, p>>
         /\ Follows(out, ParamToken) /\ <<j, m, p>> \in Items("param")
<1>1. ParamToken \in Tokens /\ ParamToken.what = "param" /\ ParamToken.item = <<j, m, p>>
  BY ParamFits
<1>2. ~Passed(ParamToken.what, ParamToken.item)
  BY <1>1 DEF Passed, InClass, TypeInv, GenTypeOK, Keywords
<1>3. Follows(out, ParamToken)
  BY <1>1, <1>2, AtFollows, KindsAre DEF Keywords
<1>4. ClassThere(j) /\ m \in 1..Len(Class.methods) /\ Printable(Method.name) /\ p \in Nat \ {0}
  BY ClassFits DEF ClassThere, Class, TypeInv, GenTypeOK, CursorFits, InClass
<1>5. MethodThere(j, m)
  BY <1>4 DEF MethodThere, Class, Method
<1>6. p \in 1..Len(Method.params)
  BY <1>4, MethodFits DEF TypeInv, CursorFits
<1>7. ParamThere(j, m, p)
  BY <1>5, <1>6 DEF ParamThere, Class, Method
<1> QED
  BY <1>1, <1>3, <1>7, ItemsAre

\* What is written and what is gone past grow alike.
LEMMA MirroredBy ==
  ASSUME Mirrored, pc # "fault", NEW w0, NEW i0, Passes(w0, i0), image' = image, w0 \in ItemTokens => i0 \in Items(w0),
         InOrder(out'),
         \A kind \in ItemTokens : Of(out', kind) = Of(out, kind) \cup (IF w0 = kind THEN {i0} ELSE {})
  PROVE  Mirrored'
<1>1. \A what \in ItemTokens : Gone(what)' = Gone(what) \cup (IF w0 = what THEN {i0} ELSE {})
  BY PassesStep
<1>2. \A what \in ItemTokens : Of(out', what) = Gone(what)'
  BY <1>1 DEF Mirrored
<1> QED
  BY <1>2 DEF Mirrored

\* Writing marks between.
SameItems(s, t) == t \in Seq(Tokens) /\ InOrder(t) /\ \A kind \in ItemTokens : Of(t, kind) = Of(s, kind)

LEMMA SameItemsTwice == \A s, t, u : SameItems(s, t) /\ SameItems(t, u) => SameItems(s, u)
BY DEF SameItems

LEMMA ItemsNamed == \A a, b, c : <<a>> # <<>> /\ <<a, b>> # <<>> /\ <<a, b, c>> # <<>>
OBVIOUS

LEMMA NoItem == "none" \notin ItemTokens
BY DEF ItemTokens, Keywords

LEMMA MirroredStep ==
  ASSUME TypeInv, Mirrored, [Next]_vars
  PROVE  Mirrored'
<1>1. out \in Seq(Tokens) /\ InOrder(out) /\ image' = image
  BY ImageStays DEF TypeInv, GenTypeOK, Mirrored
<1>2. \A s \in Seq(Tokens), what \in {"namespace", "base", "blank", "block", "endBlock", "paren", "endParen", "comma"} :
        InOrder(s) => SameItems(s, Append(s, Mark(what)))
  BY MarkInOrder, KindsAre DEF SameItems
<1>3. \A x \in Tokens : x.what \in ItemTokens /\ x.item # <<>> /\ Follows(out, x) =>
        /\ Append(out, x) \in Seq(Tokens) /\ InOrder(Append(out, x))
        /\ \A kind \in ItemTokens :
             Of(Append(out, x), kind) = Of(out, kind) \cup (IF x.what = kind THEN {x.item} ELSE {})
  BY <1>1, ItemInOrder
<1>4. CASE BeginImage \/ EndImage \/ SkipClass \/ EndFields \/ SkipMethod \/ EndMethod \/ EndClass
  <2>1. Passes("none", <<>>) /\ pc # "fault"
    BY <1>4, PassesNothing DEF BeginImage, EndImage, SkipClass, EndFields, SkipMethod, EndMethod, EndClass
  <2>2. SameItems(out, out')
    <3>1. CASE BeginImage
      <4> DEFINE s == Append(out, Mark("namespace"))
      <4>1. SameItems(out, s)
        BY <1>1, <1>2
      <4>2. out' = Append(s, Mark("block"))
        BY <3>1, ImageWrites
      <4> HIDE DEF s
      <4>3. SameItems(s, Append(s, Mark("block")))
        BY <1>2, <4>1 DEF SameItems
      <4> QED
        <5>1. SameItems(s, out')
          BY <4>2, <4>3
        <5> QED
          BY <4>1, <5>1, SameItemsTwice, Zenon
    <3>2. CASE EndImage \/ EndFields \/ EndMethod \/ EndClass
      <4>1. SameItems(out, out)
        BY <1>1 DEF SameItems
      <4> QED
        BY <1>1, <1>2, <3>2, <4>1, ImageWrites
    <3>3. CASE SkipClass \/ SkipMethod
      BY <1>1, <3>3 DEF SkipClass, SkipMethod, SameItems
    <3> QED
      BY <1>4, <3>1, <3>2, <3>3
  <2> QED
    BY <1>1, <2>1, <2>2, MirroredBy, NoItem DEF SameItems
<1>5. CASE NullName
  <2>1. HeaderToken \in Tokens /\ HeaderToken.what \in ItemTokens /\ HeaderToken.item # <<>> /\ Follows(out, HeaderToken)
    BY <1>5, HeaderAt, ItemsNamed DEF NullName
  <2>2. InOrder(out')
    BY <1>1, <1>3, <1>5, <2>1, ClassWrites
  <2> QED
    BY <1>5, <2>2 DEF Mirrored, NullName
<1>6. CASE BeginClass
  <2> DEFINE s == Append(out, HeaderToken)
             t == Append(s, Mark("base"))
  <2>1. /\ HeaderToken \in Tokens /\ HeaderToken.what = Keyword(Class) /\ HeaderToken.what \in ItemTokens
        /\ HeaderToken.item = <<j>> /\ Follows(out, HeaderToken) /\ <<j>> \in Items(Keyword(Class))
    BY <1>6, HeaderAt DEF BeginClass
  <2>2. /\ s \in Seq(Tokens) /\ InOrder(s)
        /\ \A kind \in ItemTokens : Of(s, kind) = Of(out, kind) \cup (IF Keyword(Class) = kind THEN {<<j>>} ELSE {})
    BY <1>3, <2>1, ItemsNamed
  <2>3. out' = Append(s, Mark("block")) \/ out' = Append(t, Mark("block"))
    BY <1>6, ClassWrites
  <2> HIDE DEF s
  <2>4. SameItems(s, t) /\ SameItems(s, Append(s, Mark("block")))
    BY <1>2, <2>2
  <2> HIDE DEF t
  <2>5. SameItems(t, Append(t, Mark("block")))
    BY <1>2, <2>4 DEF SameItems
  <2>6. SameItems(s, out')
    <3>1. CASE out' = Append(s, Mark("block"))
      BY <2>4, <3>1
    <3>2. CASE out' = Append(t, Mark("block"))
      <4>1. SameItems(t, out')
        BY <2>5, <3>2
      <4> QED
        BY <2>4, <4>1, SameItemsTwice, Zenon
    <3> QED
      BY <2>3, <3>1, <3>2
  <2>7. \A kind \in ItemTokens : Of(out', kind) = Of(out, kind) \cup (IF Keyword(Class) = kind THEN {<<j>>} ELSE {})
    BY <2>2, <2>6 DEF SameItems
  <2>8. Passes(Keyword(Class), <<j>>) /\ pc # "fault" /\ InOrder(out')
    BY <1>6, <2>6, PassesBeginClass DEF BeginClass, SameItems
  <2> QED
    BY <1>1, <2>1, <2>7, <2>8, MirroredBy
<1>7. CASE NextField
  <2>1. CASE Printable(Class.fields[f].name) /\ Class.fields[f].type # "null"
    <3>1. /\ FieldToken \in Tokens /\ FieldToken.what = "field" /\ FieldToken.item = <<j, f>>
          /\ Follows(out, FieldToken) /\ <<j, f>> \in Items("field")
      BY <1>7, <2>1, FieldAt DEF NextField
    <3>2. out' = Append(out, FieldToken) /\ Passes("field", <<j, f>>) /\ pc # "fault"
      BY <1>7, <2>1, MemberWrites, PassesMember DEF NextField
    <3>3. /\ InOrder(out')
          /\ \A kind \in ItemTokens : Of(out', kind) = Of(out, kind) \cup (IF "field" = kind THEN {<<j, f>>} ELSE {})
      <4> DEFINE s == Append(out, FieldToken)
      <4>1. FieldToken.what \in ItemTokens /\ FieldToken.item # <<>>
        BY <3>1, KindsAre, ItemsNamed
      <4>2. /\ s \in Seq(Tokens) /\ InOrder(s)
            /\ \A kind \in ItemTokens : Of(s, kind) = Of(out, kind) \cup (IF "field" = kind THEN {<<j, f>>} ELSE {})
        BY <1>3, <3>1, <4>1
      <4>3. out' = s
        BY <3>2
      <4> HIDE DEF s
      <4> QED
        BY <4>2, <4>3
    <3> QED
      BY <1>1, <3>1, <3>2, <3>3, MirroredBy
  <2>2. CASE ~(Printable(Class.fields[f].name) /\ Class.fields[f].type # "null")
    <3>1. out' = out /\ Passes("none", <<>>) /\ pc # "fault"
      BY <1>7, <2>2, MemberWrites, PassesMember DEF NextField
    <3> QED
      BY <1>1, <3>1, MirroredBy, NoItem
  <2> QED
    BY <2>1, <2>2
<1>8. CASE BeginMethod
  <2>1. /\ MethodToken \in Tokens /\ MethodToken.what = "method" /\ MethodToken.item = <<j, m>>
        /\ Follows(out, MethodToken) /\ <<j, m>> \in Items("method")
    BY <1>8, MethodAt DEF BeginMethod
  <2> DEFINE s == Append(out, MethodToken)
  <2>2. /\ s \in Seq(Tokens) /\ InOrder(s)
        /\ \A kind \in ItemTokens : Of(s, kind) = Of(out, kind) \cup (IF "method" = kind THEN {<<j, m>>} ELSE {})
    <3>1. MethodToken.what \in ItemTokens /\ MethodToken.item # <<>>
      BY <2>1, KindsAre, ItemsNamed
    <3> QED
      BY <1>3, <2>1, <3>1
  <2>3. out' = Append(s, Mark("paren")) /\ Passes("method", <<j, m>>) /\ pc # "fault"
    BY <1>8, MemberWrites, PassesMember DEF BeginMethod
  <2> HIDE DEF s
  <2>4. /\ InOrder(out')
        /\ \A kind \in ItemTokens : Of(out', kind) = Of(out, kind) \cup (IF "method" = kind THEN {<<j, m>>} ELSE {})
    BY <1>2, <2>2, <2>3 DEF SameItems
  <2> QED
    BY <1>1, <2>1, <2>3, <2>4, MirroredBy
<1>9. CASE NextParam
  <2>1. CASE Method.params[p] # "null"
    <3>1. /\ ParamToken \in Tokens /\ ParamToken.what = "param" /\ ParamToken.item = <<j, m, p>>
          /\ Follows(out, ParamToken) /\ <<j, m, p>> \in Items("param")
      BY <1>9, <2>1, ParamAt DEF NextParam
    <3> DEFINE s == Append(out, ParamToken)
    <3>2. /\ s \in Seq(Tokens) /\ InOrder(s)
          /\ \A kind \in ItemTokens : Of(s, kind) = Of(out, kind) \cup (IF "param" = kind THEN {<<j, m, p>>} ELSE {})
      <4>1. ParamToken.what \in ItemTokens /\ ParamToken.item # <<>>
        BY <3>1, KindsAre, ItemsNamed
      <4> QED
        BY <1>3, <3>1, <4>1
    <3>3. (out' = s \/ out' = Append(s, Mark("comma"))) /\ Passes("param", <<j, m, p>>) /\ pc # "fault"
      BY <1>9, <2>1, MemberWrites, PassesMember DEF NextParam
    <3> HIDE DEF s
    <3>4. /\ InOrder(out')
          /\ \A kind \in ItemTokens : Of(out', kind) = Of(out, kind) \cup (IF "param" = kind THEN {<<j, m, p>>} ELSE {})
      <4>1. CASE out' = s
        BY <3>2, <4>1
      <4>2. CASE out' = Append(s, Mark("comma"))
        <5>1. SameItems(s, out')
          BY <1>2, <3>2, <4>2
        <5> QED
          BY <3>2, <5>1 DEF SameItems
      <4> QED
        BY <3>3, <4>1, <4>2
    <3> QED
      BY <1>1, <3>1, <3>3, <3>4, MirroredBy
  <2>2. CASE Method.params[p] = "null"
    <3>1. out' = out /\ Passes("none", <<>>) /\ pc # "fault"
      BY <1>9, <2>2, MemberWrites, PassesMember DEF NextParam
    <3> QED
      BY <1>1, <3>1, MirroredBy, NoItem
  <2> QED
    BY <2>1, <2>2
<1>10. CASE UNCHANGED vars
  <2>1. out' = out /\ pc' = pc /\ j' = j /\ f' = f /\ m' = m /\ p' = p
    BY <1>10 DEF vars, walkVars
  <2>2. \A what \in ItemTokens : Gone(what)' = Gone(what)
    BY <1>1, <2>1 DEF Gone, Items, Passed, InClass
  <2> QED
    BY <2>1, <2>2 DEF Mirrored
<1> QED
  BY <1>4, <1>5, <1>6, <1>7, <1>8, <1>9, <1>10 DEF Next

LEMMA MirroredInit == Init => Mirrored
<1> SUFFICES ASSUME Init PROVE Mirrored
  OBVIOUS
<1>1. out = <<>> /\ pc = "image" /\ j = 1
  BY DEF Init
<1>2. InOrder(out)
  BY <1>1 DEF InOrder, Ordered, Named
<1>3. ASSUME NEW what \in ItemTokens PROVE Of(out, what) = Gone(what)
  <2>1. Of(out, what) = {}
    BY <1>1 DEF Of
  <2>2. ASSUME NEW item \in Items(what) PROVE ~Passed(what, item)
    <3>1. item[1] \in Nat \ {0}
      <4>1. \A c : ClassThere(c) => c \in Nat \ {0}
        BY DEF ClassThere
      <4>2. CASE what \in Keywords
        BY <2>2, <4>1, <4>2, ItemsAre
      <4>3. CASE what = "field"
        BY <2>2, <4>1, <4>3, ItemsAre, ThereIs
      <4>4. CASE what = "method"
        BY <2>2, <4>1, <4>4, ItemsAre, ThereIs
      <4>5. CASE what = "param"
        BY <2>2, <4>1, <4>5, ItemsAre, ThereIs
      <4> QED
        BY <4>2, <4>3, <4>4, <4>5 DEF ItemTokens
    <3> QED
      BY <1>1, <3>1 DEF Passed, InClass
  <2> QED
    BY <2>1, <2>2 DEF Gone
<1> QED
  BY <1>2, <1>3 DEF Mirrored

LEMMA MirroredMirrors == TypeInv /\ Mirrored => MirrorsImage
<1> SUFFICES ASSUME TypeInv, Mirrored PROVE MirrorsImage
  OBVIOUS
<1>1. OnceUnderItsClass
  BY DEF Mirrored, InOrder, Ordered, OnceUnderItsClass
<1>2. ASSUME pc = "end", NEW what \in ItemTokens PROVE Written(what) = Items(what)
  <2>1. Written(what) = Gone(what)
    BY <1>2 DEF Mirrored, Written, Of
  <2>2. j > Len(image) /\ j \in Nat /\ Len(image) \in Nat
    BY <1>2 DEF TypeInv, GenTypeOK, CursorFits
  <2>3. ASSUME NEW item \in Items(what) PROVE Passed(what, item)
    <3>1. item[1] \in 1..Len(image)
      <4>1. CASE what \in Keywords
        BY <2>3, <4>1, ItemsAre, ThereIs
      <4>2. CASE what = "field"
        BY <2>3, <4>2, ItemsAre, ThereIs
      <4>3. CASE what = "method"
        BY <2>3, <4>3, ItemsAre, ThereIs
      <4>4. CASE what = "param"
        BY <2>3, <4>4, ItemsAre, ThereIs
      <4> QED
        BY <4>1, <4>2, <4>3, <4>4 DEF ItemTokens
    <3> QED
      BY <2>2, <3>1 DEF Passed
  <2> QED
    BY <2>1, <2>3 DEF Gone
<1> QED
  BY <1>1, <1>2 DEF MirrorsImage

\* The dump of any assembly names every class, member and parameter that is
\* there and can be printed, once, under its own class, whatever null entries
\* and odd names lie between them.
THEOREM DumpMirrorsImage == Spec => []MirrorsImage
<1>1. Init => TypeInv /\ Mirrored
  BY TypeInit, MirroredInit
<1>2. TypeInv /\ Mirrored /\ [Next]_vars => (TypeInv /\ Mirrored)'
  BY TypeStep, MirroredStep
<1> QED
  BY <1>1, <1>2, MirroredMirrors, PTL DEF Spec
=============================================================================
