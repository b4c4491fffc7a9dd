---------------------------- MODULE MCTextsProofs ----------------------------
(***************************************************************************)
(* What MCTexts checks, for every value of its bounds: templates,          *)
(* mappings, headers and paths of any length, any number of options, of    *)
(* handlers and of derivations.                                            *)
(*                                                                         *)
(* The theorems of PolicyTemplateProofs say of any policy and request what *)
(* is said here of the model that TLC checks.  Fields, applyOptions and    *)
(* the two folds over a logger go through their input element by element:  *)
(* each has an instance of FoldProofs and an invariant of its results turn *)
(* by turn.                                                                *)
(***************************************************************************)
EXTENDS MCTexts, PolicyTemplateProofs, FiniteSetTheorems

(* The characters that the templates, the names and the values are made    *)
(* of, what a number, a truth value or bytes read as among them, and the   *)
(* names of fields and actions.                                            *)
Extra == {"ff", "true", "false"} \cup {Digits(-1)[1]}
Tokens == {"<", ">", "a", "b", "t", "u"} \cup Extra
Strings == FieldNames \cup {"read", ""}

(* Sequences up to a bound are sequences. *)
LEMMA BoundedIsSeq ==
    ASSUME NEW S, NEW n \in Nat
    PROVE  BoundedSeq(S, n) \subseteq Seq(S)
PROOF
  BY DEF BoundedSeq, SeqOf

(* A character is a text, and so is a placeholder. *)
LEMMA OneIsText ==
    /\ \A t \in Tokens : <<t>> \in Seq(Tokens) /\ Pattern(<<t>>) \in Seq(Tokens)
    /\ <<>> \in Seq(Tokens) /\ Brackets \subseteq Tokens
PROOF
  <1>1. "<" \in Tokens /\ ">" \in Tokens
    BY DEF Tokens
  <1>2. ASSUME NEW t \in Tokens PROVE <<t>> \in Seq(Tokens)
    OBVIOUS
  <1>3. ASSUME NEW t \in Tokens PROVE Pattern(<<t>>) \in Seq(Tokens)
    <2>1. <<"<">> \in Seq(Tokens) /\ <<">">> \in Seq(Tokens) /\ <<t>> \in Seq(Tokens)
      BY <1>1, <1>2
    <2>2. QED
      BY <2>1, ConcatProperties DEF Pattern
  <1>4. <<>> \in Seq(Tokens) /\ Brackets \subseteq Tokens
    BY <1>1, EmptySeq DEF Brackets
  <1>5. QED
    BY <1>2, <1>3, <1>4

(* Templates are texts. *)
LEMMA TemplatesType == Templates \subseteq Seq(Tokens)
PROOF
  <1>1. Parts \subseteq Seq(Tokens)
    <2>1. "a" \in Tokens /\ "b" \in Tokens /\ "t" \in Tokens /\ "<" \in Tokens /\ ">" \in Tokens
      BY DEF Tokens
    <2>2. QED
      BY <2>1, OneIsText, Zenon DEF Parts
  <1>2. BoundedSeq(Parts, MaxTemplate) \subseteq Seq(Parts)
    BY BoundsAssumption, BoundedIsSeq
  <1>3. Seq(Parts) \subseteq Seq(Seq(Tokens))
    BY <1>1, SeqMonotonic
  <1>4. ASSUME NEW parts \in BoundedSeq(Parts, MaxTemplate)
        PROVE  FlattenSeq(parts) \in Seq(Tokens)
    BY <1>2, <1>3, FlattenType
  <1>5. QED
    BY <1>4 DEF Templates

(* Field mappings whose fields are named in F. *)
Maps(F) == [placeholder : Seq(Tokens), request_field : F]

(* The mappings of the model *)
Mappings ==
    [placeholder : {<<"a">>, <<"b">>}, request_field : FieldNames]
    \cup {[placeholder |-> <<>>, request_field |-> "f"],
          [placeholder |-> <<"a">>, request_field |-> ""]}

(* are mappings. *)
LEMMA MappingsType == Mappings \subseteq Maps(Strings)
PROOF
  <1>1. <<"a">> \in Seq(Tokens) /\ <<"b">> \in Seq(Tokens) /\ <<>> \in Seq(Tokens)
    <2>1. "a" \in Tokens /\ "b" \in Tokens
      BY DEF Tokens
    <2>2. QED
      BY <2>1, OneIsText, Zenon
  <1>2. "f" \in Strings /\ "" \in Strings /\ FieldNames \subseteq Strings
    BY DEF Strings, FieldNames
  <1>3. PICK A, B, N, T : A = <<"a">> /\ B = <<"b">> /\ N = <<>> /\ T = Seq(Tokens)
    OBVIOUS
  <1>4. A \in T /\ B \in T /\ N \in T
    BY <1>1, <1>3, Zenon
  <1>5. /\ Mappings = [placeholder : {A, B}, request_field : FieldNames]
                      \cup {[placeholder |-> N, request_field |-> "f"],
                            [placeholder |-> A, request_field |-> ""]}
        /\ Maps(Strings) = [placeholder : T, request_field : Strings]
    BY <1>3, Zenon DEF Mappings, Maps
  <1>6. QED
    BY <1>2, <1>4, <1>5

(* The policies of the model are policies of the schema. *)
LEMMA PoliciesType == Policies \subseteq PolicyMessages(Tokens, Strings)
PROOF
  <1>1. BoundedSeq(Mappings, MaxMappings) \subseteq Seq(Maps(Strings))
    <2>1. BoundedSeq(Mappings, MaxMappings) \subseteq Seq(Mappings)
      BY BoundsAssumption, BoundedIsSeq
    <2>2. QED
      BY <2>1, MappingsType, SeqMonotonic
  <1>2. {"read", ""} \subseteq Strings
    BY DEF Strings
  <1>3. Policies = [resource : Templates, action : {"read", ""},
                    field_mappings : BoundedSeq(Mappings, MaxMappings)]
    BY Zenon DEF Policies, Mappings
  <1>4. PolicyMessages(Tokens, Strings) =
            [resource : Seq(Tokens), action : Strings, field_mappings : Seq(Maps(Strings))]
    BY Zenon DEF PolicyMessages, Maps
  <1>5. QED
    BY <1>1, <1>2, <1>3, <1>4, TemplatesType

(* What the kinds of fields read as. *)
LEMMA FieldKinds ==
    ASSUME NEW f
    PROVE  /\ f.kind = "string" => fieldText(f) = Resolved(f.value)
           /\ f.kind = "bytes" =>
                  fieldText(f) = Resolved(IF f.value.utf8 THEN f.value.text ELSE f.value.hex)
           /\ f.kind = "int32" => fieldText(f) = Resolved(Digits(f.value))
           /\ f.kind = "bool" => fieldText(f) = Resolved(<<IF f.value THEN "true" ELSE "false">>)
           /\ f.kind = "double" => fieldText(f) = Failed
PROOF
  <1>1. ASSUME f.kind = "string" PROVE fieldText(f) = Resolved(f.value)
    BY <1>1 DEF fieldText, IntKinds, UintKinds
  <1>2. ASSUME f.kind = "bytes"
        PROVE  fieldText(f) = Resolved(IF f.value.utf8 THEN f.value.text ELSE f.value.hex)
    BY <1>2 DEF fieldText, IntKinds, UintKinds
  <1>3. ASSUME f.kind = "int32" PROVE fieldText(f) = Resolved(Digits(f.value))
    BY <1>3 DEF fieldText, IntKinds, UintKinds
  <1>4. ASSUME f.kind = "bool"
        PROVE  fieldText(f) = Resolved(<<IF f.value THEN "true" ELSE "false">>)
    BY <1>4 DEF fieldText, IntKinds, UintKinds
  <1>5. ASSUME f.kind = "double" PROVE fieldText(f) = Failed
    BY <1>5 DEF fieldText, IntKinds, UintKinds
  <1>6. QED
    BY <1>1, <1>2, <1>3, <1>4, <1>5

(* What the fields of the requests read as. *)
LEMMA FieldTexts ==
    ASSUME NEW f \in FieldValues \cup OtherValues, fieldText(f).ok
    PROVE  fieldText(f).text \in Seq(Tokens)
PROOF
  <1>1. \A text : Resolved(text).text = text
    BY AnswerFields
  <1>2. PICK V : V = {<<>>, <<"t">>, <<"<">>, Pattern(<<"b">>), <<"u">>, <<">">>}
    OBVIOUS
  <1>3. V \subseteq Seq(Tokens) /\ <<"t">> \in Seq(Tokens) /\ <<"ff">> \in Seq(Tokens)
        /\ <<"true">> \in Seq(Tokens)
    <2>1. /\ "t" \in Tokens /\ "u" \in Tokens /\ "b" \in Tokens /\ "<" \in Tokens /\ ">" \in Tokens
          /\ "ff" \in Tokens /\ "true" \in Tokens
      BY DEF Tokens, Extra
    <2>2. QED
      BY <1>2, <2>1, OneIsText, Zenon
  <1>4. CASE f.kind = "string" /\ f.value \in Seq(Tokens)
    <2>1. fieldText(f) = Resolved(f.value)
      BY <1>4, FieldKinds, Zenon
    <2>2. QED
      BY <1>1, <1>4, <2>1, Zenon
  <1>5. CASE f.kind = "bytes" /\ f.value.text = <<"t">> /\ f.value.hex = <<"ff">>
    BY <1>1, <1>3, <1>5, FieldKinds
  <1>6. CASE f.kind = "int32" /\ f.value = -1
    <2>1. Digits(-1) = <<Digits(-1)[1]>>
      BY DEF Digits
    <2>2. Digits(-1)[1] \in Tokens
      BY DEF Tokens, Extra
    <2>3. Digits(-1) \in Seq(Tokens)
      BY <2>1, <2>2, OneIsText, Zenon
    <2>4. fieldText(f) = Resolved(Digits(-1))
      BY <1>6, FieldKinds, Zenon
    <2>5. QED
      BY <1>1, <2>3, <2>4, Zenon
  <1>7. CASE f.kind = "double"
    BY <1>7, FieldKinds, AnswerFields
  <1>8. CASE f.kind = "bool" /\ f.value = TRUE
    BY <1>1, <1>3, <1>8, FieldKinds
  <1>9. \/ f.kind = "string" /\ f.value \in Seq(Tokens)
        \/ f.kind = "bytes" /\ f.value.text = <<"t">> /\ f.value.hex = <<"ff">>
        \/ f.kind = "int32" /\ f.value = -1
        \/ f.kind = "double"
        \/ f.kind = "bool" /\ f.value = TRUE
    <2>1. CASE \E t \in V : f = FieldOf("string", t)
      BY <1>3, <2>1 DEF FieldOf
    <2>2. CASE \E u \in BOOLEAN :
                   f = FieldOf("bytes", [utf8 |-> u, text |-> <<"t">>, hex |-> <<"ff">>])
      <3>1. PICK u \in BOOLEAN :
                f = FieldOf("bytes", [utf8 |-> u, text |-> <<"t">>, hex |-> <<"ff">>])
        BY <2>2
      <3>2. PICK v : v = [utf8 |-> u, text |-> <<"t">>, hex |-> <<"ff">>]
        OBVIOUS
      <3>3. f.kind = "bytes" /\ f.value = v
        BY <3>1, <3>2 DEF FieldOf
      <3>4. QED
        BY <3>2, <3>3
    <2>3. CASE f \in {FieldOf("int32", -1), FieldOf("double", 1), FieldOf("bool", TRUE)}
      BY <2>3 DEF FieldOf
    <2>4. CASE f = ListOf("string", <<"t">>)
      BY <1>3, <2>4 DEF ListOf
    <2>5. \/ \E t \in V : f = FieldOf("string", t)
          \/ \E u \in BOOLEAN :
                   f = FieldOf("bytes", [utf8 |-> u, text |-> <<"t">>, hex |-> <<"ff">>])
          \/ f \in {FieldOf("int32", -1), FieldOf("double", 1), FieldOf("bool", TRUE)}
          \/ f = ListOf("string", <<"t">>)
      BY <1>2, Zenon DEF FieldValues, OtherValues
    <2>6. QED
      BY <2>1, <2>2, <2>3, <2>4, <2>5
  <1>10. QED
    BY <1>4, <1>5, <1>6, <1>7, <1>8, <1>9

(* The fields of every request of the model read as texts. *)
LEMMA RequestsType == \A r \in Requests \cup {NotProto} : HasTexts(r, Tokens)
PROOF
  <1>1. HasTexts(NotProto, Tokens)
    BY DEF HasTexts, NotProto
  <1>2. ASSUME NEW F \in SUBSET FieldNames, NEW v \in FieldValues, NEW w \in OtherValues, NEW r,
               r = [proto |-> TRUE, fields |-> [n \in F |-> IF n = "f" THEN v ELSE w]]
        PROVE  HasTexts(r, Tokens)
    <2>1. ASSUME NEW n \in F PROVE r.fields[n] \in FieldValues \cup OtherValues
      BY <1>2
    <2>2. DOMAIN r.fields = F
      BY <1>2
    <2>3. QED
      BY <2>1, <2>2, FieldTexts, Zenon DEF HasTexts
  <1>3. QED
    BY <1>1, <1>2 DEF Requests

-----------------------------------------------------------------------------
(* The subject is one of those of its topic; the template of a policy is   *)
(* resolved for one of the requests.                                       *)
Inv ==
    /\ topic = "policy" => subject \in Policies /\ request \in Requests \cup {NotProto}
    /\ topic = "header" => subject \in HeaderValues
    /\ topic = "client" => subject \in Clients
    /\ topic = "logger" => subject \in Loggers

(* So it is at every step. *)
LEMMA InvHolds == Spec => []Inv
PROOF
  <1>1. Init => Inv
    BY DEF Init, Inv
  <1>2. Inv /\ [Next]_<<topic, subject, request>> => Inv'
    BY DEF Inv, Next, Resolve
  <1>3. QED
    BY <1>1, <1>2, PTL DEF Spec

(* These are policies and requests as the theorems on templates have them. *)
LEMMA InvType ==
    ASSUME Inv, topic = "policy"
    PROVE  subject \in PolicyMessages(Tokens, Strings) /\ HasTexts(request, Tokens)
PROOF
  BY PoliciesType, RequestsType DEF Inv

(* resolveResourceFromRequest gives what replacing all placeholders at     *)
(* once gives, for templates and mappings of any length, as long as no     *)
(* bracket comes from a name or a value or stands alone in the template.   *)
THEOREM SequentialIsSimultaneousAlways == Spec => []SequentialIsSimultaneous
PROOF
  <1>1. Inv => SequentialIsSimultaneous
    <2>1. SUFFICES ASSUME Inv, topic = "policy", Result.ok, Plain(subject, request)
                   PROVE  Result.text = SimultaneousSubstitution(subject, request)
      BY DEF SequentialIsSimultaneous
    <2>2. subject \in PolicyMessages(Tokens, Strings) /\ HasTexts(request, Tokens)
      BY <2>1, InvType
    <2>3. ~ BrokenPolicy(subject) /\ ~ Unresolvable(subject, request)
      BY <2>1, <2>2, FailsWhenItMust, Zenon DEF Result, Plain
    <2>4. Result = Resolved(SimultaneousSubstitution(subject, request))
      BY <2>1, <2>2, <2>3, ResolvesSimultaneously, Zenon DEF Result
    <2>5. QED
      BY <2>4, AnswerFields, Zenon
  <1>2. QED
    BY <1>1, InvHolds, PTL

(* It fails for every policy that is broken and every request without a    *)
(* usable field for a placeholder of the template, if no name has a        *)
(* bracket; and for nothing else, if no value has one and those of the     *)
(* template come in pairs, for templates and mappings of any length.       *)
THEOREM FailsExactlyWhenItMustAlways == Spec => []FailsExactlyWhenItMust
PROOF
  <1>1. Inv => FailsExactlyWhenItMust
    <2>1. SUFFICES ASSUME Inv, topic = "policy", NEW must,
                          must = (BrokenPolicy(subject) \/ Unresolvable(subject, request))
                   PROVE  /\ PlainNames(subject) /\ must => ~ Result.ok
                          /\ Plain(subject, request) /\ ~ Result.ok => must
      BY Zenon DEF FailsExactlyWhenItMust
    <2>2. subject \in PolicyMessages(Tokens, Strings) /\ HasTexts(request, Tokens)
      BY <2>1, InvType
    <2>3. ASSUME PlainNames(subject), Result.ok
          PROVE  ~ BrokenPolicy(subject) /\ ~ Unresolvable(subject, request)
      BY <2>2, <2>3, FailsWhenItMust, Zenon DEF Result
    <2>4. ASSUME Plain(subject, request), ~ BrokenPolicy(subject), ~ Unresolvable(subject, request)
          PROVE  Result.ok
      <3>1. Result = Resolved(SimultaneousSubstitution(subject, request))
        BY <2>2, <2>4, ResolvesSimultaneously, Zenon DEF Result
      <3>2. QED
        BY <3>1, AnswerFields, Zenon
    <2>5. QED
      BY <2>1, <2>3, <2>4, Zenon
  <1>2. QED
    BY <1>1, InvHolds, PTL

-----------------------------------------------------------------------------
(* The static rule for a template *)

(* What stands before the first bracket that opens. *)
IsOpening(ch) == ch = "<"
HeadOf(text) ==
    LET at == SelectInSeq(text, IsOpening)
    IN  IF at = 0 THEN text ELSE SubSeq(text, 1, at - 1)

(* A template starts with its head, in which no placeholder begins. *)
LEMMA HeadOfType ==
    ASSUME NEW S, NEW text \in Seq(S)
    PROVE  /\ HeadOf(text) \in Seq(S) /\ StartsWith(text, HeadOf(text), S)
           /\ Bare(HeadOf(text))
PROOF
  <1> DEFINE I == {i \in 1..Len(text) : IsOpening(text[i])}
  <1>0. Len(text) \in Nat
    BY LenProperties
  <1>1. SelectInSeq(text, IsOpening) = IF I # {} THEN Min(I) ELSE 0
    BY DEF SelectInSeq
  <1>2. CASE I = {}
    <2>1. HeadOf(text) = text
      BY <1>1, <1>2 DEF HeadOf
    <2>2. text \o <<>> = text /\ <<>> \in Seq(S)
      BY ConcatEmptySeq, EmptySeq
    <2>3. StartsWith(text, text, S)
      BY <2>2, Zenon DEF StartsWith
    <2>4. Bare(text)
      BY <1>2 DEF Bare, IsOpening
    <2>5. QED
      BY <2>1, <2>3, <2>4, Zenon
  <1>3. CASE I # {}
    <2>1. PICK k \in 1..Len(text) : k = Min(I) /\ \A i \in I : k <= i
      <3>1. I \in SUBSET Nat
        OBVIOUS
      <3>2. Min(I) \in I /\ \A i \in I : Min(I) <= i
        <4> HIDE DEF I
        <4>1. QED
          BY <1>3, <3>1, MinIsSmallest
      <3>3. QED
        BY <3>2
    <2>2. HeadOf(text) = SubSeq(text, 1, k - 1)
      <3>1. SelectInSeq(text, IsOpening) = k
        BY <1>1, <1>3, <2>1, Zenon
      <3>2. k # 0
        OBVIOUS
      <3>3. QED
        BY <3>1, <3>2, Zenon DEF HeadOf
    <2>3. PICK head \in Seq(S) :
              /\ head = SubSeq(text, 1, k - 1) /\ Len(head) = k - 1
              /\ \A i \in 1..(k - 1) : head[i] = text[i]
      <3>1. /\ SubSeq(text, 1, k - 1) \in Seq(S) /\ Len(SubSeq(text, 1, k - 1)) = k - 1
            /\ \A i \in 1..(k - 1) : SubSeq(text, 1, k - 1)[i] = text[i]
        BY <1>0
      <3>2. QED
        BY <3>1, Zenon
    <2>4. Bare(head)
      <3>1. SUFFICES ASSUME NEW i \in 1..(k - 1), head[i] = "<" PROVE FALSE
        BY <2>3 DEF Bare
      <3>2. i \in I
        BY <1>0, <2>3, <3>1 DEF IsOpening
      <3>3. k <= i
        BY <2>1, <3>2
      <3>4. QED
        BY <3>3
    <2>5. PICK rest \in Seq(S) :
              /\ rest = SubSeq(text, k, Len(text)) /\ Len(rest) = Len(text) - k + 1
              /\ \A i \in 1..(Len(text) - k + 1) : rest[i] = text[k - 1 + i]
      <3>1. /\ SubSeq(text, k, Len(text)) \in Seq(S)
            /\ Len(SubSeq(text, k, Len(text))) = Len(text) - k + 1
            /\ \A i \in 1..(Len(text) - k + 1) : SubSeq(text, k, Len(text))[i] = text[k - 1 + i]
        BY <1>0
      <3>2. QED
        BY <3>1, Zenon
    <2>6. text = head \o rest
      <3>1. PICK f \in Seq(S) :
                /\ f = head \o rest /\ Len(f) = Len(head) + Len(rest)
                /\ \A i \in 1..Len(head) + Len(rest) :
                       f[i] = IF i <= Len(head) THEN head[i] ELSE rest[i - Len(head)]
        <4>1. /\ head \o rest \in Seq(S) /\ Len(head \o rest) = Len(head) + Len(rest)
              /\ \A i \in 1..Len(head) + Len(rest) :
                     (head \o rest)[i] = IF i <= Len(head) THEN head[i] ELSE rest[i - Len(head)]
          BY ConcatProperties
        <4>2. QED
          BY <4>1, Zenon
      <3>2. Len(head) = k - 1 /\ Len(rest) = Len(text) - k + 1
        BY <2>3, <2>5, Zenon
      <3>3. Len(head) + Len(rest) = Len(text)
        BY <1>0, <3>2
      <3>4. ASSUME NEW i \in 1..Len(text) PROVE f[i] = text[i]
        <4>1. CASE i <= k - 1
          <5>1. i \in 1..(k - 1)
            BY <4>1
          <5>2. QED
            BY <2>3, <3>1, <3>2, <3>3, <4>1, <5>1, Zenon
        <4>2. CASE ~ (i <= k - 1)
          <5>1. i - (k - 1) \in 1..(Len(text) - k + 1) /\ k - 1 + (i - (k - 1)) = i
            BY <1>0, <4>2
          <5>2. f[i] = rest[i - (k - 1)]
            BY <3>1, <3>2, <3>3, <4>2, Zenon
          <5>3. rest[i - (k - 1)] = text[k - 1 + (i - (k - 1))]
            BY <2>5, <5>1, Zenon
          <5>4. QED
            BY <5>1, <5>2, <5>3, Zenon
        <4>3. QED
          BY <4>1, <4>2
      <3>5. Len(f) = Len(text)
        BY <3>1, <3>3, Zenon
      <3>6. f = text
        BY <3>4, <3>5, SeqEqual
      <3>7. QED
        BY <3>1, <3>6, Zenon
    <2>7. QED
      BY <2>2, <2>3, <2>4, <2>6, Zenon DEF StartsWith
  <1>4. QED
    BY <1>2, <1>3

(* The first token of a text. *)
LEMMA FirstOf ==
    ASSUME NEW S, NEW x \in S, NEW r \in Seq(S), Len(r) >= 1, r[1] = x
    PROVE  SubSeq(r, 1, 1) = <<x>>
PROOF
  <1>1. SubSeq(r, 1, 1) \in Seq(S) /\ Len(SubSeq(r, 1, 1)) = 1 /\ SubSeq(r, 1, 1)[1] = x
    <2>1. Len(r) \in Nat
      BY LenProperties
    <2>2. QED
      BY <2>1
  <1>2. <<x>> \in Seq(S) /\ <<x>>[1] = x /\ Len(<<x>>) = 1
    OBVIOUS
  <1>3. PICK a \in Seq(S), b \in Seq(S) :
            /\ a = SubSeq(r, 1, 1) /\ b = <<x>>
            /\ Len(a) = 1 /\ Len(b) = 1 /\ a[1] = x /\ b[1] = x
    BY <1>1, <1>2, Zenon
  <1>4. Len(a) = Len(b) /\ \A i \in 1..Len(a) : a[i] = b[i]
    BY <1>3
  <1>5. a = b
    BY <1>4, SeqEqual
  <1>6. QED
    BY <1>3, <1>5, Zenon

(* A text with one of length one at its end ends in it, and is the text    *)
(* before it again once that is cut off.                                   *)
LEMMA TrimAppended ==
    ASSUME NEW S, NEW head \in Seq(S), NEW x \in S
    PROVE  IsSuffix(<<x>>, Append(head, x)) /\ Front(Append(head, x)) = head
PROOF
  <1>1. PICK p \in Seq(S), k \in Nat :
            /\ p = Append(head, x) /\ k = Len(head) /\ Len(p) = k + 1 /\ p[k + 1] = x
            /\ \A i \in 1..k : p[i] = head[i]
    <2>1. /\ Append(head, x) \in Seq(S) /\ Len(head) \in Nat
          /\ Len(Append(head, x)) = Len(head) + 1 /\ Append(head, x)[Len(head) + 1] = x
          /\ \A i \in 1..Len(head) : Append(head, x)[i] = head[i]
      BY AppendProperties, LenProperties
    <2>2. QED
      BY <2>1, Zenon
  <1>2. IsSuffix(<<x>>, p)
    <2>1. Reverse(p) = [i \in 1..(k + 1) |-> p[(k + 1) - i + 1]]
      BY <1>1, Zenon DEF Reverse
    <2>2. PICK r : r = Reverse(p) /\ r \in Seq(S) /\ Len(r) = k + 1 /\ r[1] = x
      <3>1. p \in [1..(k + 1) -> S]
        <4>1. p \in [1..Len(p) -> S]
          OBVIOUS
        <4>2. Len(p) = k + 1
          BY <1>1, Zenon
        <4>3. QED
          BY <4>1, <4>2, Zenon
      <3>2. \A i \in 1..(k + 1) : (k + 1) - i + 1 \in 1..(k + 1)
        OBVIOUS
      <3>3. [i \in 1..(k + 1) |-> p[(k + 1) - i + 1]] \in [1..(k + 1) -> S]
        BY <3>1, <3>2
      <3>4. 1 \in 1..(k + 1) /\ (k + 1) - 1 + 1 = k + 1
        OBVIOUS
      <3>5. Reverse(p)[1] = x
        <4>1. Reverse(p)[1] = p[(k + 1) - 1 + 1]
          BY <2>1, <3>4, Zenon
        <4>2. p[(k + 1) - 1 + 1] = p[k + 1]
          BY <3>4, Zenon
        <4>3. QED
          BY <1>1, <4>1, <4>2, Zenon
      <3>6. Reverse(p) \in [1..(k + 1) -> S]
        BY <2>1, <3>3, Zenon
      <3>7. Reverse(p) \in Seq(S) /\ Len(Reverse(p)) = k + 1
        BY <3>6
      <3>8. QED
        BY <3>5, <3>7, Zenon
    <2>3. Reverse(<<x>>) = <<x>>
      BY DEF Reverse
    <2>4. SubSeq(r, 1, 1) = <<x>> /\ SubSeq(<<x>>, 1, 1) = <<x>> /\ Len(<<x>>) = 1
      <3>1. r \in Seq(S) /\ Len(r) >= 1 /\ r[1] = x
        BY <2>2
      <3>2. <<x>> \in Seq(S) /\ <<x>>[1] = x /\ Len(<<x>>) = 1 /\ Len(<<x>>) >= 1
        OBVIOUS
      <3>3. QED
        BY <3>1, <3>2, FirstOf, Zenon
    <2>5. 1 <= k + 1
      OBVIOUS
    <2>6. QED
      BY <2>2, <2>3, <2>4, <2>5, Zenon DEF IsSuffix, IsPrefix
  <1>3. Front(p) = head
    <2>1. Front(p) = SubSeq(p, 1, k)
      <3>1. Len(p) - 1 = k
        BY <1>1
      <3>2. QED
        BY <3>1, Zenon DEF Front
    <2>2. /\ SubSeq(p, 1, k) \in Seq(S) /\ Len(SubSeq(p, 1, k)) = k
          /\ \A i \in 1..k : SubSeq(p, 1, k)[i] = p[i]
      <3>1. k <= Len(p) /\ Len(p) \in Nat
        BY <1>1
      <3>2. QED
        BY <3>1
    <2>3. SubSeq(p, 1, k) = head
      BY <1>1, <2>2, SeqEqual
    <2>4. QED
      BY <2>1, <2>3, Zenon
  <1>4. QED
    BY <1>1, <1>2, <1>3, Zenon

(* A text starts with what it starts with. *)
LEMMA PrefixOf ==
    ASSUME NEW S, NEW head \in Seq(S), NEW text, StartsWith(text, head, S)
    PROVE  IsPrefix(head, text)
PROOF
  <1>1. PICK rest \in Seq(S) : text = head \o rest
    BY DEF StartsWith
  <1>2. PICK k \in Nat : k = Len(head)
    BY LenProperties
  <1>3. /\ text \in Seq(S) /\ k <= Len(text) /\ Len(text) \in Nat
        /\ \A i \in 1..k : text[i] = head[i]
    BY <1>1, <1>2
  <1>4. SubSeq(text, 1, k) = head
    <2>1. /\ SubSeq(text, 1, k) \in Seq(S) /\ Len(SubSeq(text, 1, k)) = k
          /\ \A i \in 1..k : SubSeq(text, 1, k)[i] = text[i]
      BY <1>3
    <2>2. \A i \in 1..k : SubSeq(text, 1, k)[i] = head[i]
      BY <1>3, <2>1, Zenon
    <2>3. QED
      BY <1>2, <2>1, <2>2, SeqEqual
  <1>5. SubSeq(head, 1, k) = head
    BY <1>2
  <1>6. QED
    BY <1>2, <1>3, <1>4, <1>5, Zenon DEF IsPrefix

(* matchPattern by prefix. *)
LEMMA StarMatches ==
    ASSUME NEW S, NEW head \in Seq(S), NEW text, StartsWith(text, head, S)
    PROVE  matchPattern(Append(head, "*"), text)
PROOF
  <1>1. IsPrefix(head, text)
    BY PrefixOf
  <1>2. head \in Seq(S \cup {"*"}) /\ "*" \in S \cup {"*"}
    <2>1. S \subseteq S \cup {"*"}
      OBVIOUS
    <2>2. Seq(S) \subseteq Seq(S \cup {"*"})
      BY <2>1, SeqMonotonic
    <2>3. QED
      BY <2>2
  <1>3. IsSuffix(<<"*">>, Append(head, "*")) /\ Front(Append(head, "*")) = head
    BY <1>2, TrimAppended, Zenon
  <1>4. QED
    BY <1>1, <1>3, Zenon DEF matchPattern, TrimSuffix

(* A pattern of one token matches itself, be it a star or not. *)
LEMMA OneMatches ==
    ASSUME NEW a
    PROVE  matchPattern(<<a>>, <<a>>)
PROOF
  <1>1. CASE IsSuffix(<<"*">>, <<a>>)
    <2>1. Front(<<a>>) = <<>>
      BY DEF Front
    <2>2. IsPrefix(<<>>, <<a>>)
      BY DEF IsPrefix
    <2>3. QED
      BY <1>1, <2>1, <2>2, Zenon DEF matchPattern, TrimSuffix
  <1>2. CASE ~ IsSuffix(<<"*">>, <<a>>)
    BY <1>2, Zenon DEF matchPattern
  <1>3. QED
    BY <1>1, <1>2

(* A static rule for the text before the first bracket of a template, with *)
(* a star behind it, allows the resource of every request, for templates   *)
(* and mappings of any length.                                             *)
THEOREM RulesCoverTemplates == Spec => []RuleCoversTemplate
PROOF
  <1>1. Inv => RuleCoversTemplate
    <2>1. SUFFICES ASSUME Inv, topic = "policy", Result.ok,
                          NEW rule, rule = [Resource |-> Append(HeadOf(subject.resource), "*"),
                                            Action |-> <<subject.action>>]
                   PROVE  Allows(<<rule>>, Result.text, <<subject.action>>)
      BY Zenon DEF RuleCoversTemplate, HeadOf, IsOpening
    <2>2. subject \in PolicyMessages(Tokens, Strings) /\ HasTexts(request, Tokens)
      BY <2>1, InvType
    <2>3. subject.resource \in Seq(Tokens)
      BY <2>2 DEF PolicyMessages
    <2>4. PICK head \in Seq(Tokens) :
              /\ head = HeadOf(subject.resource) /\ StartsWith(subject.resource, head, Tokens)
              /\ Bare(head)
      BY <2>3, HeadOfType, Zenon
    <2>5. StartsWith(Result.text, head, Tokens)
      BY <2>1, <2>2, <2>4, OneIsText, ResolvesBehindItsHead, Zenon DEF Result
    <2>6. matchPattern(rule.Resource, Result.text)
      <3>1. rule.Resource = Append(head, "*")
        BY <2>1, <2>4
      <3>2. QED
        BY <2>5, <3>1, StarMatches, Zenon
    <2>7. matchPattern(rule.Action, <<subject.action>>)
      <3>1. rule.Action = <<subject.action>>
        BY <2>1
      <3>2. QED
        BY <3>1, OneMatches, Zenon
    <2>8. rule \in ToSet(<<rule>>)
      BY DEF ToSet
    <2>9. QED
      BY <2>6, <2>7, <2>8, Zenon DEF Allows
  <1>2. QED
    BY <1>1, InvHolds, PTL

-----------------------------------------------------------------------------
(* Trimming *)

(* TrimSpace leaves the text from its first to its last character that is  *)
(* not white space, or nothing.                                            *)
LEMMA TrimIs ==
    ASSUME NEW S, NEW text \in Seq(S)
    PROVE  \/ TrimSpace(text) = <<>> /\ \A i \in 1..Len(text) : text[i] \in WhiteSpace
           \/ \E a, b \in 1..Len(text) :
                  /\ a <= b /\ TrimSpace(text) = SubSeq(text, a, b)
                  /\ text[a] \notin WhiteSpace /\ text[b] \notin WhiteSpace
                  /\ \A i \in 1..Len(text) : i < a \/ i > b => text[i] \in WhiteSpace
PROOF
  <1> DEFINE inked == {i \in DOMAIN text : text[i] \notin WhiteSpace}
  <1>1. Len(text) \in Nat /\ DOMAIN text = 1..Len(text)
    BY LenProperties
  <1>2. TrimSpace(text) = IF inked = {} THEN <<>> ELSE SubSeq(text, Min(inked), Max(inked))
    BY DEF TrimSpace
  <1>3. inked \in SUBSET (1..Len(text)) /\ inked \in SUBSET Nat
    BY <1>1
  <1>4. CASE inked = {}
    BY <1>1, <1>2, <1>4
  <1>5. CASE inked # {}
    <2>1. Min(inked) \in inked /\ \A i \in inked : Min(inked) <= i
      BY <1>3, <1>5, MinIsSmallest
    <2>2. Max(inked) \in inked /\ \A i \in inked : i <= Max(inked)
      BY <1>1, <1>3, <1>5, MaxIsLargest
    <2>3. PICK a \in inked : a = Min(inked)
      BY <2>1
    <2>4. PICK b \in inked : b = Max(inked)
      BY <2>2
    <2>5. a \in 1..Len(text) /\ b \in 1..Len(text) /\ a <= b
      BY <1>3, <2>1, <2>3, <2>4
    <2>6. TrimSpace(text) = SubSeq(text, a, b)
      BY <1>2, <1>5, <2>3, <2>4
    <2>7. ASSUME NEW i \in 1..Len(text), i < a \/ i > b PROVE text[i] \in WhiteSpace
      <3>1. i \notin inked
        <4> HIDE DEF inked
        <4>1. QED
          BY <2>1, <2>2, <2>3, <2>4, <2>5, <2>7
      <3>2. QED
        BY <1>1, <3>1
    <2>8. text[a] \notin WhiteSpace /\ text[b] \notin WhiteSpace
      OBVIOUS
    <2>9. QED
      BY <2>5, <2>6, <2>7, <2>8
  <1>6. QED
    BY <1>4, <1>5

(* What is left is a text. *)
LEMMA TrimType ==
    ASSUME NEW S, NEW text \in Seq(S)
    PROVE  TrimSpace(text) \in Seq(S)
PROOF
  <1>1. <<>> \in Seq(S)
    BY EmptySeq
  <1>2. ASSUME NEW a \in 1..Len(text), NEW b \in 1..Len(text) PROVE SubSeq(text, a, b) \in Seq(S)
    BY LenProperties
  <1>3. QED
    BY <1>1, <1>2, TrimIs

-----------------------------------------------------------------------------
(* The two readings of a header *)

(* parseAuthorization splits at the first space. *)
LEMMA ParseIs ==
    ASSUME NEW S, NEW value \in Seq(S), NEW h, h = parseAuthorization(value),
           h.scheme # <<>>
    PROVE  \E at \in 1..Len(value) :
               /\ value[at] = " " /\ \A i \in 1..(at - 1) : value[i] # " "
               /\ h = [scheme |-> ToLower(SubSeq(value, 1, at - 1)),
                       credential |-> TrimSpace(SubSeq(value, at + 1, Len(value)))]
               /\ h.credential # <<>>
PROOF
  <1> DEFINE I == {i \in 1..Len(value) : value[i] = " "}
             at == IF I # {} THEN Min(I) ELSE 0
             credential == TrimSpace(SubSeq(value, at + 1, Len(value)))
             reading == [scheme |-> ToLower(SubSeq(value, 1, at - 1)), credential |-> credential]
  <1>1. h = IF at = 0 \/ credential = <<>> THEN Invalid ELSE reading
    BY DEF parseAuthorization, SelectInSeq
  <1>2. h # Invalid
    BY DEF Invalid
  <1>3. at # 0 /\ credential # <<>> /\ h = reading
    BY <1>1, <1>2, Zenon
  <1>4. Len(value) \in Nat
    BY LenProperties
  <1>5. I # {} /\ at = Min(I)
    BY <1>3
  <1>6. Min(I) \in I /\ \A i \in I : Min(I) <= i
    <2>1. I \in SUBSET Nat
      <3>1. I \subseteq 1..Len(value)
        OBVIOUS
      <3> HIDE DEF I
      <3>2. QED
        BY <1>4, <3>1
    <2> HIDE DEF I
    <2>2. QED
      BY <1>5, <2>1, MinIsSmallest
  <1>7. PICK k \in 1..Len(value) : k = at /\ value[k] = " " /\ \A i \in I : k <= i
    BY <1>5, <1>6
  <1> HIDE DEF at
  <1>8. ASSUME NEW i \in 1..(k - 1) PROVE value[i] # " "
    <2>1. i \in 1..Len(value) /\ ~ (k <= i)
      BY <1>4
    <2>2. i \notin I
      <3> HIDE DEF I
      <3>1. QED
        BY <1>7, <2>1
    <2>3. QED
      BY <2>1, <2>2
  <1>9. /\ h = [scheme |-> ToLower(SubSeq(value, 1, k - 1)),
                credential |-> TrimSpace(SubSeq(value, k + 1, Len(value)))]
        /\ h.credential # <<>>
    <2>1. h.credential = credential
      BY <1>3
    <2>2. QED
      BY <1>3, <1>7, <2>1, Zenon
  <1>10. QED
    BY <1>7, <1>8, <1>9

(* Its parts are texts. *)
LEMMA ParseType ==
    ASSUME NEW S, NEW value \in Seq(S), "b" \in S, NEW h, h = parseAuthorization(value),
           h.scheme # <<>>
    PROVE  /\ h.scheme \in Seq(S) /\ h.credential \in Seq(S)
           /\ h = [scheme |-> h.scheme, credential |-> h.credential]
PROOF
  <1>1. PICK at \in 1..Len(value) :
            h = [scheme |-> ToLower(SubSeq(value, 1, at - 1)),
                 credential |-> TrimSpace(SubSeq(value, at + 1, Len(value)))]
    BY ParseIs
  <1>2. SubSeq(value, at + 1, Len(value)) \in Seq(S) /\ SubSeq(value, 1, at - 1) \in Seq(S)
    BY LenProperties
  <1>3. TrimSpace(SubSeq(value, at + 1, Len(value))) \in Seq(S)
    BY <1>2, TrimType
  <1>4. ASSUME NEW t \in Seq(S) PROVE ToLower(t) \in Seq(S)
    <2>1. DOMAIN t = 1..Len(t) /\ Len(t) \in Nat /\ \A i \in 1..Len(t) : t[i] \in S
      BY LenProperties, ElementOfSeq
    <2>2. ToLower(t) \in [1..Len(t) -> S]
      BY <2>1 DEF ToLower
    <2>3. QED
      BY <2>1, <2>2, SeqDef
  <1>5. ToLower(SubSeq(value, 1, at - 1)) \in Seq(S)
    BY <1>2, <1>4
  <1>6. PICK s \in Seq(S), c \in Seq(S) : h = [scheme |-> s, credential |-> c]
    BY <1>1, <1>3, <1>5, Zenon
  <1>7. QED
    BY <1>6

(* A key is a scheme, a colon and a credential. *)
IsKey(k, s, c) ==
    /\ Len(k) = Len(s) + 1 + Len(c)
    /\ \A i \in 1..Len(s) : k[i] = s[i]
    /\ k[Len(s) + 1] = ":"
    /\ \A i \in 1..Len(c) : k[Len(s) + 1 + i] = c[i]

(* cacheKey makes one, *)
LEMMA KeyParts ==
    ASSUME NEW S, ":" \in S, NEW s \in Seq(S), NEW c \in Seq(S)
    PROVE  cacheKey(s, c) \in Seq(S) /\ IsKey(cacheKey(s, c), s, c)
PROOF
  BY LenProperties DEF cacheKey, IsKey

(* and there is no other with these parts. *)
LEMMA KeyIs ==
    ASSUME NEW S, ":" \in S, NEW s \in Seq(S), NEW c \in Seq(S), NEW k \in Seq(S), IsKey(k, s, c)
    PROVE  k = cacheKey(s, c)
PROOF
  <1>1. PICK l \in Seq(S) : l = cacheKey(s, c) /\ IsKey(l, s, c)
    BY KeyParts
  <1>2. Len(s) \in Nat /\ Len(c) \in Nat /\ Len(k) = Len(l) /\ Len(k) = Len(s) + 1 + Len(c)
    BY <1>1, LenProperties DEF IsKey
  <1>3. ASSUME NEW i \in 1..Len(k) PROVE k[i] = l[i]
    <2>1. CASE i \in 1..Len(s)
      BY <1>1, <2>1 DEF IsKey
    <2>2. CASE i = Len(s) + 1
      BY <1>1, <2>2 DEF IsKey
    <2>3. CASE i > Len(s) + 1
      <3>1. PICK j \in 1..Len(c) : i = Len(s) + 1 + j
        <4>1. i - (Len(s) + 1) \in 1..Len(c) /\ i = Len(s) + 1 + (i - (Len(s) + 1))
          BY <1>2, <2>3
        <4>2. QED
          BY <4>1
      <3>2. QED
        BY <1>1, <3>1 DEF IsKey
    <2>4. QED
      BY <1>2, <2>1, <2>2, <2>3
  <1>4. k = l
    BY <1>2, <1>3, SeqEqual
  <1>5. QED
    BY <1>1, <1>4

(* The length of a key whose parts have the lengths m and l. *)
KeyLength(n, m, l) == n = m + 1 + l

(* The lengths of the parts of a key with two readings. *)
LEMMA Balance ==
    ASSUME NEW ls \in Nat, NEW lc \in Nat, NEW lt \in Nat, NEW ld \in Nat, NEW lm \in Nat, NEW n,
           KeyLength(n, ls, lc), KeyLength(n, lt, ld), KeyLength(lt, ls, lm)
    PROVE  KeyLength(lc, lm, ld)
PROOF
  BY DEF KeyLength

(* A key with two readings: they are the same, or the longer scheme goes   *)
(* on with a colon where the other one ends.                               *)
LEMMA KeySplits ==
    ASSUME NEW S, ":" \in S, NEW s \in Seq(S), NEW c \in Seq(S), NEW t \in Seq(S), NEW d \in Seq(S),
           cacheKey(s, c) = cacheKey(t, d), Len(t) >= Len(s)
    PROVE  \/ s = t /\ c = d
           \/ /\ t = cacheKey(s, SubSeq(t, Len(s) + 2, Len(t)))
              /\ c = cacheKey(SubSeq(t, Len(s) + 2, Len(t)), d)
PROOF
  <1>1. PICK k : k = cacheKey(s, c) /\ k = cacheKey(t, d)
    OBVIOUS
  <1>2. Len(s) \in Nat /\ Len(t) \in Nat /\ Len(c) \in Nat /\ Len(d) \in Nat
    BY LenProperties
  <1>3. IsKey(k, s, c)
    BY <1>1, KeyParts
  <1>4. IsKey(k, t, d)
    BY <1>1, KeyParts
  <1>5. CASE Len(s) = Len(t)
    <2>1. Len(c) = Len(d)
      BY <1>2, <1>3, <1>4, <1>5 DEF IsKey
    <2>2. s = t
      <3>1. \A i \in 1..Len(s) : s[i] = t[i]
        BY <1>3, <1>4, <1>5 DEF IsKey
      <3>2. QED
        BY <1>5, <3>1, SeqEqual
    <2>3. c = d
      <3>1. \A i \in 1..Len(c) : c[i] = d[i]
        BY <1>3, <1>4, <1>5, <2>1 DEF IsKey
      <3>2. QED
        BY <2>1, <3>1, SeqEqual
    <2>4. QED
      BY <2>2, <2>3
  <1>6. CASE Len(s) < Len(t)
    <2>1. PICK more \in Seq(S) :
              /\ more = SubSeq(t, Len(s) + 2, Len(t)) /\ Len(more) = Len(t) - Len(s) - 1
              /\ \A i \in 1..(Len(t) - Len(s) - 1) : more[i] = t[Len(s) + 1 + i]
      <3>1. PICK a \in Nat, b \in Nat : a = Len(s) + 2 /\ b = Len(t) /\ a <= b + 1 /\ 1 <= a
        BY <1>2, <1>6
      <3>2. /\ SubSeq(t, a, b) \in Seq(S) /\ Len(SubSeq(t, a, b)) = b - a + 1
            /\ \A i \in 1..(b - a + 1) : SubSeq(t, a, b)[i] = t[a + i - 1]
        <4>1. \A i \in a..b : t[i] \in S
          BY <3>1, ElementOfSeq
        <4>2. QED
          BY <3>1, <4>1, SubSeqProperties
      <3>3. b - a + 1 = Len(t) - Len(s) - 1 /\ \A i \in Nat : a + i - 1 = Len(s) + 1 + i
        BY <1>2, <3>1
      <3>4. \A i \in 1..(Len(t) - Len(s) - 1) : SubSeq(t, a, b)[i] = t[Len(s) + 1 + i]
        BY <3>2, <3>3
      <3>5. QED
        BY <3>1, <3>2, <3>3, <3>4, Zenon
    <2>2. Len(more) = Len(t) - Len(s) - 1 /\ Len(more) \in Nat
      <3>1. Len(more) = Len(t) - Len(s) - 1
        BY <2>1, Zenon
      <3>2. QED
        BY <3>1, LenProperties
    <2>3. IsKey(t, s, more)
      <3>1. Len(s) + 1 \in 1..Len(t) /\ \A i \in 1..Len(s) : i \in 1..Len(t)
        BY <1>2, <1>6
      <3>2. Len(t) = Len(s) + 1 + Len(more)
        BY <1>2, <2>2
      <3>3. \A i \in 1..Len(s) : t[i] = s[i]
        BY <1>3, <1>4, <3>1 DEF IsKey
      <3>4. t[Len(s) + 1] = ":"
        BY <1>3, <1>4, <3>1 DEF IsKey
      <3>5. QED
        BY <2>1, <3>2, <3>3, <3>4 DEF IsKey
    <2>4. IsKey(c, more, d)
      <3>1. Len(c) = Len(more) + 1 + Len(d)
        <4>1. KeyLength(Len(k), Len(s), Len(c)) /\ KeyLength(Len(k), Len(t), Len(d))
          BY <1>3, <1>4, Zenon DEF IsKey, KeyLength
        <4>2. KeyLength(Len(t), Len(s), Len(more))
          BY <2>3, Zenon DEF IsKey, KeyLength
        <4>3. KeyLength(Len(c), Len(more), Len(d))
          BY <1>2, <2>2, <4>1, <4>2, Balance, Zenon
        <4>4. QED
          BY <4>3, Zenon DEF KeyLength
      <3>2. ASSUME NEW i \in 1..Len(more) PROVE c[i] = more[i]
        <4>1. i \in 1..Len(c) /\ Len(s) + 1 + i \in 1..Len(t)
          BY <1>2, <2>2, <3>1
        <4>2. k[Len(s) + 1 + i] = c[i] /\ k[Len(s) + 1 + i] = t[Len(s) + 1 + i]
          BY <1>3, <1>4, <4>1 DEF IsKey
        <4>3. QED
          BY <2>1, <4>2
      <3>3. c[Len(more) + 1] = ":"
        <4>1. PICK i \in 1..Len(c) : i = Len(more) + 1 /\ Len(s) + 1 + i = Len(t) + 1
          <5>1. /\ Len(more) + 1 \in 1..Len(c)
                /\ Len(s) + 1 + (Len(more) + 1) = Len(t) + 1
            BY <1>2, <1>6, <2>2, <3>1
          <5>2. QED
            BY <5>1
        <4>2. k[Len(s) + 1 + i] = c[i] /\ k[Len(t) + 1] = ":"
          BY <1>3, <1>4 DEF IsKey
        <4>3. QED
          BY <4>1, <4>2
      <3>4. ASSUME NEW j \in 1..Len(d) PROVE c[Len(more) + 1 + j] = d[j]
        <4>1. PICK i \in 1..Len(c) : i = Len(more) + 1 + j /\ Len(s) + 1 + i = Len(t) + 1 + j
          <5>1. /\ Len(more) + 1 + j \in 1..Len(c)
                /\ Len(s) + 1 + (Len(more) + 1 + j) = Len(t) + 1 + j
            BY <1>2, <1>6, <2>2, <3>1
          <5>2. QED
            BY <5>1
        <4>2. k[Len(s) + 1 + i] = c[i] /\ k[Len(t) + 1 + j] = d[j]
          BY <1>3, <1>4 DEF IsKey
        <4>3. QED
          BY <4>1, <4>2
      <3>5. QED
        BY <3>1, <3>2, <3>3, <3>4 DEF IsKey
    <2>5. t = cacheKey(s, more) /\ c = cacheKey(more, d)
      BY <2>3, <2>4, KeyIs
    <2>6. QED
      BY <2>1, <2>5, Zenon
  <1>7. QED
    BY <1>2, <1>5, <1>6

-----------------------------------------------------------------------------
(* The words of a text *)

(* What Fields does with the i-th character. *)
Take(text, words, i) ==
    IF text[i] \in WhiteSpace THEN words
    ELSE IF i = 1 \/ text[i - 1] \in WhiteSpace THEN Append(words, <<text[i]>>)
    ELSE [words EXCEPT ![Len(words)] = Append(@, text[i])]

Split == INSTANCE FoldProofs WITH Op <- Take

(* acc[i] are the words of the first i characters. *)
IsSplit(text, acc) ==
    /\ acc[0] = <<>>
    /\ \A i \in 1..Len(text) : acc[i] = Take(text, acc[i - 1], i)

(* Fields takes one character after the other. *)
LEMMA FieldsSplit ==
    ASSUME NEW S, NEW text \in Seq(S)
    PROVE  \E acc : IsSplit(text, acc) /\ Fields(text) = acc[Len(text)]
PROOF
  <1> DEFINE at == [i \in DOMAIN text |-> i]
  <1>1. DOMAIN text = 1..Len(text) /\ Len(text) \in Nat
    BY LenProperties
  <1>2. at \in Seq(Nat) /\ Len(at) = Len(text)
    BY <1>1
  <1>3. Fields(text) = Split!Folded(text, <<>>, at)
    BY DEF Fields, FoldLeft, MapThenFoldSet, Max, Take,
           Split!Folded, Split!Fold, Split!IsFold, Split!Turn, Split!Max
  <1>4. PICK acc : Split!IsRun(text, <<>>, at, acc) /\ Fields(text) = acc[Len(text)]
    <2> HIDE DEF at
    <2>1. QED
      BY <1>2, <1>3, Split!FoldTurns
  <1>5. ASSUME NEW i \in 1..Len(text) PROVE acc[i] = Take(text, acc[i - 1], i)
    <2>1. i - 1 \in 0..(Len(at) - 1) /\ (i - 1) + 1 = i /\ at[i] = i
      BY <1>1, <1>2
    <2> HIDE DEF at
    <2>2. QED
      BY <1>4, <2>1 DEF Split!IsRun
  <1>6. acc[0] = <<>>
    BY <1>4 DEF Split!IsRun
  <1>7. QED
    BY <1>4, <1>5, <1>6 DEF IsSplit

(* The words are texts, and behind a character there is a last word. *)
LEMMA SplitType ==
    ASSUME NEW S, NEW text \in Seq(S), NEW acc, IsSplit(text, acc)
    PROVE  \A k \in 0..Len(text) :
               /\ acc[k] \in Seq(Seq(S))
               /\ k # 0 /\ text[k] \notin WhiteSpace => acc[k] # <<>>
PROOF
  <1> DEFINE OK(k) == /\ acc[k] \in Seq(Seq(S))
                      /\ k # 0 /\ text[k] \notin WhiteSpace => acc[k] # <<>>
             N == {k \in Nat : k <= Len(text) => OK(k)}
  <1>1. 0 \in N
    BY EmptySeq DEF IsSplit
  <1>2. ASSUME NEW k \in Nat, k \in N PROVE k + 1 \in N
    <2>1. SUFFICES ASSUME k + 1 <= Len(text) PROVE OK(k + 1)
      OBVIOUS
    <2>2. Len(text) \in Nat /\ k + 1 \in 1..Len(text) /\ (k + 1) - 1 = k
      BY <2>1, LenProperties
    <2>3. OK(k) /\ text[k + 1] \in S
      BY <1>2, <2>1, <2>2, ElementOfSeq
    <2>4. acc[k + 1] = Take(text, acc[k], k + 1)
      BY <2>2 DEF IsSplit
    <2>5. CASE text[k + 1] \in WhiteSpace
      BY <2>3, <2>4, <2>5 DEF Take
    <2>6. CASE text[k + 1] \notin WhiteSpace /\ (k + 1 = 1 \/ text[k] \in WhiteSpace)
      <3>1. acc[k + 1] = Append(acc[k], <<text[k + 1]>>)
        BY <2>2, <2>4, <2>6 DEF Take
      <3>2. <<text[k + 1]>> \in Seq(S)
        BY <2>3
      <3>3. QED
        BY <2>3, <3>1, <3>2, AppendProperties
    <2>7. CASE text[k + 1] \notin WhiteSpace /\ k + 1 # 1 /\ text[k] \notin WhiteSpace
      <3> DEFINE w == acc[k]
                 l == Append(w[Len(w)], text[k + 1])
      <3>1. acc[k + 1] = [w EXCEPT ![Len(w)] = l]
        BY <2>2, <2>4, <2>7 DEF Take
      <3>2. w \in Seq(Seq(S)) /\ w # <<>>
        BY <2>3, <2>7
      <3>3. l \in Seq(S)
        BY <2>3, <3>2
      <3> HIDE DEF w, l
      <3>4. acc[k + 1] \in Seq(Seq(S)) /\ Len(acc[k + 1]) = Len(w) /\ Len(w) # 0
        BY <3>1, <3>2, <3>3
      <3>5. QED
        BY <3>4
    <2>8. QED
      BY <2>5, <2>6, <2>7
  <1>3. Nat \subseteq N
    <2> HIDE DEF N
    <2>1. QED
      BY <1>1, <1>2, Induction
  <1>4. QED
    BY <1>3

(* White space adds no word. *)
LEMMA SplitBlank ==
    ASSUME NEW S, NEW text \in Seq(S), NEW acc, IsSplit(text, acc),
           NEW i \in 0..Len(text), NEW j \in i..Len(text),
           \A k \in (i + 1)..j : text[k] \in WhiteSpace
    PROVE  acc[j] = acc[i]
PROOF
  <1> DEFINE N == {k \in Nat : i + k <= j => acc[i + k] = acc[i]}
  <1>0. Len(text) \in Nat /\ i \in Nat /\ j \in Nat /\ i <= j /\ j <= Len(text)
    BY LenProperties
  <1>1. 0 \in N
    BY <1>0
  <1>2. ASSUME NEW k \in Nat, k \in N PROVE k + 1 \in N
    <2>1. SUFFICES ASSUME i + (k + 1) <= j PROVE acc[i + (k + 1)] = acc[i]
      OBVIOUS
    <2>2. PICK m \in 1..Len(text) : m = i + (k + 1)
      BY <1>0, <2>1
    <2>3. text[m] \in WhiteSpace
      BY <1>0, <2>1, <2>2
    <2>4. m - 1 = i + k /\ acc[m - 1] = acc[i]
      BY <1>0, <1>2, <2>1, <2>2
    <2>5. QED
      BY <2>2, <2>3, <2>4 DEF IsSplit, Take
  <1>3. Nat \subseteq N
    <2> HIDE DEF N
    <2>1. QED
      BY <1>1, <1>2, Induction
  <1>4. j - i \in Nat /\ i + (j - i) = j
    BY <1>0
  <1>5. j - i \in N
    BY <1>3, <1>4
  <1>6. QED
    BY <1>0, <1>4, <1>5

(* A character more at the end of the last word. *)
Longer(u, e) == [u EXCEPT ![Len(u)] = Append(u[Len(u)], e)]

(* The words before it stay. *)
LEMMA LongerWord ==
    ASSUME NEW S, NEW w \in Seq(Seq(S)), NEW a \in Seq(S), NEW e \in S
    PROVE  Longer(Append(w, a), e) = Append(w, Append(a, e))
PROOF
  <1>0. PICK u : u = Append(w, a)
    OBVIOUS
  <1> DEFINE b == Append(a, e)
             l == [u EXCEPT ![Len(u)] = b]
             r == Append(w, b)
  <1>1. b \in Seq(S)
    BY AppendProperties
  <1> HIDE DEF b
  <1>2. /\ u \in Seq(Seq(S)) /\ Len(u) = Len(w) + 1 /\ Len(w) \in Nat /\ u[Len(u)] = a
        /\ \A p \in 1..Len(w) : u[p] = w[p]
    BY <1>0, AppendProperties, LenProperties
  <1>3. /\ r \in Seq(Seq(S)) /\ Len(r) = Len(w) + 1 /\ r[Len(w) + 1] = b
        /\ \A p \in 1..Len(w) : r[p] = w[p]
    BY <1>1, AppendProperties
  <1>4. DOMAIN u = 1..Len(u) /\ u \in [1..Len(u) -> Seq(S)]
    BY <1>2, LenProperties
  <1>5. \A p \in 1..Len(u) : l[p] = IF p = Len(u) THEN b ELSE u[p]
    BY <1>4
  <1>6. l \in Seq(Seq(S)) /\ Len(l) = Len(u)
    <2>1. PICK n \in Nat : n = Len(u) /\ n \in 1..Len(u)
      BY <1>2
    <2>2. [u EXCEPT ![n] = b] \in Seq(Seq(S)) /\ Len([u EXCEPT ![n] = b]) = Len(u)
      BY <1>1, <1>2, <2>1, ExceptSeq
    <2>3. QED
      BY <2>1, <2>2
  <1> HIDE DEF l, r
  <1>7. ASSUME NEW p \in 1..Len(u) PROVE l[p] = r[p]
    <2>1. CASE p = Len(u)
      BY <1>2, <1>3, <1>5, <2>1
    <2>2. CASE p # Len(u)
      <3>1. p \in 1..Len(w)
        BY <1>2, <2>2
      <3>2. QED
        BY <1>2, <1>3, <1>5, <2>2, <3>1
    <2>3. QED
      BY <2>1, <2>2
  <1>8. l = r
    <2>1. Len(l) = Len(r) /\ \A p \in 1..Len(l) : l[p] = r[p]
      BY <1>2, <1>3, <1>6, <1>7
    <2>2. QED
      BY <1>3, <1>6, <2>1, SeqEqual
  <1>9. QED
    BY <1>0, <1>2, <1>8 DEF l, r, b, Longer

(* A character more at the end of a part of a text. *)
LEMMA LongerPart ==
    ASSUME NEW S, NEW text \in Seq(S), NEW i \in 1..Len(text), NEW j \in i..Len(text), j < Len(text)
    PROVE  /\ SubSeq(text, i, j) \in Seq(S)
           /\ Append(SubSeq(text, i, j), text[j + 1]) = SubSeq(text, i, j + 1)
PROOF
  <1>1. Len(text) \in Nat /\ i \in Nat /\ j \in Nat /\ 1 <= i /\ i <= j /\ j + 1 <= Len(text)
    BY LenProperties
  <1>2. \A l \in i..(j + 1) : text[l] \in S
    BY <1>1, ElementOfSeq
  <1>3. /\ SubSeq(text, i, j) \in Seq(S) /\ Len(SubSeq(text, i, j)) = j - i + 1
        /\ \A p \in 1..(j - i + 1) : SubSeq(text, i, j)[p] = text[i + p - 1]
    BY <1>1, <1>2, SubSeqProperties
  <1>4. /\ SubSeq(text, i, j + 1) \in Seq(S) /\ Len(SubSeq(text, i, j + 1)) = j - i + 2
        /\ \A p \in 1..(j - i + 2) : SubSeq(text, i, j + 1)[p] = text[i + p - 1]
    BY <1>1, <1>2, SubSeqProperties
  <1> DEFINE a == SubSeq(text, i, j)
             b == SubSeq(text, i, j + 1)
             c == Append(a, text[j + 1])
  <1>5. text[j + 1] \in S
    BY <1>1, <1>2
  <1> HIDE DEF a, b
  <1>6. /\ c \in Seq(S) /\ Len(c) = j - i + 2 /\ c[j - i + 2] = text[j + 1]
        /\ \A p \in 1..(j - i + 1) : c[p] = a[p]
    BY <1>1, <1>3, <1>5, AppendProperties DEF a
  <1> HIDE DEF c
  <1>7. \A p \in 1..Len(c) : c[p] = b[p]
    BY <1>1, <1>3, <1>4, <1>6 DEF a, b
  <1>8. c = b
    BY <1>4, <1>6, <1>7, SeqEqual DEF b
  <1>9. QED
    BY <1>3, <1>8 DEF a, b, c

(* A run of characters behind white space is one more word. *)
LEMMA SplitWord ==
    ASSUME NEW S, NEW text \in Seq(S), NEW acc, IsSplit(text, acc),
           NEW i \in 1..Len(text), NEW j \in i..Len(text),
           i = 1 \/ text[i - 1] \in WhiteSpace,
           \A k \in i..j : text[k] \notin WhiteSpace
    PROVE  acc[j] = Append(acc[i - 1], SubSeq(text, i, j))
PROOF
  <1> DEFINE Word(k) == SubSeq(text, i, i + k)
             N == {k \in Nat : i + k <= j => acc[i + k] = Append(acc[i - 1], Word(k))}
  <1>0. Len(text) \in Nat /\ i \in Nat /\ j \in Nat /\ 1 <= i /\ i <= j /\ j <= Len(text)
    BY LenProperties
  <1>1. acc[i - 1] \in Seq(Seq(S))
    BY <1>0, SplitType
  <1>2. 0 \in N
    <2>1. text[i] \notin WhiteSpace /\ i \in 1..Len(text) /\ i + 0 = i
      BY <1>0
    <2>2. acc[i] = Append(acc[i - 1], <<text[i]>>)
      BY <2>1 DEF IsSplit, Take
    <2>3. <<text[i]>> = SubSeq(text, i, i)
      BY <1>0
    <2>4. QED
      BY <2>1, <2>2, <2>3
  <1>3. ASSUME NEW k \in Nat, k \in N PROVE k + 1 \in N
    <2>1. SUFFICES ASSUME i + (k + 1) <= j
                   PROVE  acc[i + (k + 1)] = Append(acc[i - 1], Word(k + 1))
      OBVIOUS
    <2>2. PICK m \in 1..Len(text) : m = i + k /\ m + 1 = i + (k + 1) /\ m < Len(text)
      BY <1>0, <2>1
    <2>3. /\ text[m] \notin WhiteSpace /\ text[m + 1] \notin WhiteSpace
          /\ m \in i..Len(text) /\ m + 1 \in 1..Len(text) /\ m + 1 # 1 /\ (m + 1) - 1 = m
      BY <1>0, <2>1, <2>2
    <2>4. text[m + 1] \in S
      BY <2>3, ElementOfSeq
    <2>5. Word(k) \in Seq(S) /\ Append(Word(k), text[m + 1]) = Word(k + 1)
      BY <2>2, <2>3, LongerPart
    <2>6. acc[m] = Append(acc[i - 1], Word(k))
      BY <1>0, <1>3, <2>1, <2>2
    <2>7. acc[m + 1] = Longer(acc[m], text[m + 1])
      BY <2>3 DEF IsSplit, Take, Longer
    <2> HIDE DEF Word, N
    <2>8. acc[m + 1] = Append(acc[i - 1], Append(Word(k), text[m + 1]))
      <3>0. PICK u : u = acc[m]
        OBVIOUS
      <3>1. PICK w \in Seq(Seq(S)), a \in Seq(S), e \in S :
                w = acc[i - 1] /\ a = Word(k) /\ e = text[m + 1]
        BY <1>1, <2>4, <2>5
      <3>2. u = Append(w, a)
        BY <2>6, <3>0, <3>1
      <3>3. Longer(Append(w, a), e) = Append(w, Append(a, e))
        BY LongerWord
      <3>4. QED
        BY <2>7, <3>0, <3>1, <3>2, <3>3
    <2>9. QED
      BY <2>2, <2>5, <2>8
  <1>4. Nat \subseteq N
    <2> HIDE DEF N
    <2>1. QED
      BY <1>2, <1>3, Induction
  <1>5. j - i \in Nat /\ i + (j - i) = j
    BY <1>0
  <1>6. j - i \in N
    BY <1>4, <1>5
  <1>7. QED
    BY <1>0, <1>5, <1>6

(* The words up to the end of a word stay what they are. *)
LEMMA SplitStays ==
    ASSUME NEW S, NEW text \in Seq(S), NEW acc, IsSplit(text, acc),
           NEW j \in 1..Len(text), j = Len(text) \/ text[j + 1] \in WhiteSpace
    PROVE  /\ Len(acc[j]) <= Len(acc[Len(text)])
           /\ \A p \in 1..Len(acc[j]) : acc[Len(text)][p] = acc[j][p]
PROOF
  <1> DEFINE More(k) == /\ Len(acc[j]) <= Len(acc[k])
                        /\ \A p \in 1..Len(acc[j]) : acc[k][p] = acc[j][p]
                        /\ k # j /\ text[k] \notin WhiteSpace => Len(acc[j]) < Len(acc[k])
             N == {k \in Nat : j + k <= Len(text) => More(j + k)}
  <1>0. Len(text) \in Nat /\ j \in Nat /\ 1 <= j /\ j <= Len(text)
    BY LenProperties
  <1>1. ASSUME NEW k \in 0..Len(text) PROVE acc[k] \in Seq(Seq(S)) /\ Len(acc[k]) \in Nat
    BY SplitType, LenProperties
  <1>2. 0 \in N
    <2>1. More(j) /\ j + 0 = j
      BY <1>0, <1>1
    <2> HIDE DEF More
    <2>2. QED
      BY <2>1
  <1>3. ASSUME NEW k \in Nat, k \in N PROVE k + 1 \in N
    <2>1. SUFFICES ASSUME j + (k + 1) <= Len(text) PROVE More(j + (k + 1))
      OBVIOUS
    <2>2. PICK m \in j..Len(text) : m = j + k /\ m + 1 = j + (k + 1)
      BY <1>0, <2>1
    <2>3. More(m)
      BY <1>3, <2>1, <2>2, <1>0
    <2>4. /\ m \in 0..Len(text) /\ m + 1 \in 1..Len(text) /\ m + 1 \in 0..Len(text)
          /\ (m + 1) - 1 = m /\ m + 1 # 1 /\ m + 1 # j /\ j \in 0..Len(text)
      BY <1>0, <2>1, <2>2
    <2>5. acc[m + 1] = Take(text, acc[m], m + 1) /\ text[m + 1] \in S
      BY <2>4, ElementOfSeq DEF IsSplit
    <2>6. /\ acc[m] \in Seq(Seq(S)) /\ Len(acc[m]) \in Nat
          /\ acc[m + 1] \in Seq(Seq(S)) /\ Len(acc[m + 1]) \in Nat /\ Len(acc[j]) \in Nat
      BY <1>1, <2>4
    <2>7. CASE text[m + 1] \in WhiteSpace
      <3>1. acc[m + 1] = acc[m]
        BY <2>5, <2>7 DEF Take
      <3>2. QED
        BY <2>2, <2>3, <2>7, <3>1
    <2>8. CASE text[m + 1] \notin WhiteSpace /\ text[m] \in WhiteSpace
      <3>1. acc[m + 1] = Append(acc[m], <<text[m + 1]>>) /\ <<text[m + 1]>> \in Seq(S)
        BY <2>4, <2>5, <2>8 DEF Take
      <3>2. /\ Len(acc[m + 1]) = Len(acc[m]) + 1
            /\ \A p \in 1..Len(acc[m]) : acc[m + 1][p] = acc[m][p]
        BY <2>6, <3>1, AppendProperties
      <3>3. QED
        BY <2>2, <2>3, <2>6, <3>2
    <2>9. CASE text[m + 1] \notin WhiteSpace /\ text[m] \notin WhiteSpace
      <3> DEFINE w == acc[m]
                 l == Append(w[Len(w)], text[m + 1])
      <3>1. acc[m + 1] = [w EXCEPT ![Len(w)] = l]
        BY <2>4, <2>5, <2>9 DEF Take
      <3>2. m # j
        BY <2>2, <2>9, <1>0, <2>1
      <3>3. Len(acc[j]) < Len(w)
        BY <2>3, <2>9, <3>2
      <3> HIDE DEF l
      <3>4. Len(acc[m + 1]) = Len(w) /\ \A p \in 1..Len(w) : p # Len(w) => acc[m + 1][p] = w[p]
        BY <2>6, <3>1
      <3>5. QED
        BY <2>2, <2>3, <2>6, <3>3, <3>4
    <2>10. QED
      BY <2>7, <2>8, <2>9
  <1>4. Nat \subseteq N
    <2> HIDE DEF N
    <2>1. QED
      BY <1>2, <1>3, Induction
  <1>5. Len(text) - j \in Nat /\ j + (Len(text) - j) = Len(text)
    BY <1>0
  <1>6. Len(text) - j \in N
    BY <1>4, <1>5
  <1>7. More(Len(text))
    <2> HIDE DEF More
    <2>1. PICK k \in N : j + k = Len(text)
      BY <1>5, <1>6
    <2>2. j + k <= Len(text) => More(j + k)
      OBVIOUS
    <2>3. QED
      BY <1>0, <2>1, <2>2
  <1>8. QED
    BY <1>7

(* A word ends at white space or with the text. *)
LEMMA WordEnds ==
    ASSUME NEW S, NEW text \in Seq(S), NEW i \in 1..Len(text), text[i] \notin WhiteSpace
    PROVE  \E b \in i..Len(text) :
               /\ \A k \in i..b : text[k] \notin WhiteSpace
               /\ b = Len(text) \/ text[b + 1] \in WhiteSpace
PROOF
  <1> DEFINE End(k) == k = Len(text) \/ text[k + 1] \in WhiteSpace
             ends == {k \in i..Len(text) : End(k)}
  <1>0. Len(text) \in Nat /\ i \in Nat /\ 1 <= i /\ i <= Len(text)
    BY LenProperties
  <1>1. ends \in SUBSET Nat /\ Len(text) \in ends
    BY <1>0
  <1>2. PICK b \in ends : \A k \in ends : b <= k
    <2> HIDE DEF ends
    <2>1. QED
      BY <1>1, Minimum
  <1>3. b \in i..Len(text) /\ End(b)
    OBVIOUS
  <1>4. ASSUME NEW k \in i..b PROVE text[k] \notin WhiteSpace
    <2>1. CASE k = i
      BY <2>1
    <2>2. CASE k # i
      <3>1. PICK l \in i..Len(text) : k = l + 1 /\ ~ (b <= l)
        <4>1. k - 1 \in i..Len(text) /\ k = (k - 1) + 1 /\ ~ (b <= k - 1)
          BY <1>0, <1>3, <2>2
        <4>2. QED
          BY <4>1
      <3>2. l \notin ends
        <4> HIDE DEF ends
        <4>1. QED
          BY <1>2, <3>1
      <3>3. QED
        BY <3>1, <3>2
    <2>3. QED
      BY <2>1, <2>2
  <1>5. QED
    BY <1>3, <1>4

(* The first word of a text that starts with it. *)
LEMMA FirstWord ==
    ASSUME NEW S, NEW text \in Seq(S), NEW b \in 1..Len(text),
           \A k \in 1..b : text[k] \notin WhiteSpace,
           b = Len(text) \/ text[b + 1] \in WhiteSpace
    PROVE  Head(Fields(text)) = SubSeq(text, 1, b)
PROOF
  <1>1. PICK acc : IsSplit(text, acc) /\ Fields(text) = acc[Len(text)]
    BY FieldsSplit
  <1>2. acc[0] = <<>>
    BY <1>1 DEF IsSplit
  <1>3. Len(text) \in Nat /\ 1 \in 1..Len(text) /\ b \in 1..Len(text) /\ 1 - 1 = 0
    BY LenProperties
  <1>4. acc[b] = Append(acc[1 - 1], SubSeq(text, 1, b))
    BY <1>1, <1>3, SplitWord
  <1>5. acc[b] = <<SubSeq(text, 1, b)>>
    <2>1. PICK w : w = SubSeq(text, 1, b)
      OBVIOUS
    <2>2. acc[b] = Append(<<>>, w)
      BY <1>2, <1>3, <1>4, <2>1
    <2>3. QED
      BY <2>1, <2>2
  <1>6. Len(acc[b]) <= Len(acc[Len(text)]) /\ \A p \in 1..Len(acc[b]) : acc[Len(text)][p] = acc[b][p]
    BY <1>1, SplitStays
  <1>7. acc[Len(text)] \in Seq(Seq(S))
    BY <1>1, <1>3, SplitType
  <1>8. Len(acc[b]) = 1 /\ acc[b][1] = SubSeq(text, 1, b)
    BY <1>5
  <1>9. acc[Len(text)][1] = SubSeq(text, 1, b)
    BY <1>6, <1>8
  <1>10. QED
    BY <1>1, <1>7, <1>9

(* A text starts with a word, white space from at on, and a word from a to b. *)
TwoRuns(text, at, a, b) ==
    /\ at \in 2..Len(text) /\ a \in (at + 1)..Len(text) /\ b \in a..Len(text)
    /\ \A k \in 1..(at - 1) : text[k] \notin WhiteSpace
    /\ \A k \in at..(a - 1) : text[k] \in WhiteSpace
    /\ \A k \in a..b : text[k] \notin WhiteSpace
    /\ b = Len(text) \/ text[b + 1] \in WhiteSpace

(* These are its first two words. *)
LEMMA TwoWords ==
    ASSUME NEW S, NEW text \in Seq(S), NEW at \in Nat, NEW a \in Nat, NEW b \in Nat,
           TwoRuns(text, at, a, b)
    PROVE  /\ Fields(text) \in Seq(Seq(S)) /\ Len(Fields(text)) >= 2
           /\ Fields(text)[1] = SubSeq(text, 1, at - 1) /\ Fields(text)[2] = SubSeq(text, a, b)
PROOF
  <1>0. /\ at \in 2..Len(text) /\ a \in (at + 1)..Len(text) /\ b \in a..Len(text)
        /\ \A k \in 1..(at - 1) : text[k] \notin WhiteSpace
        /\ \A k \in at..(a - 1) : text[k] \in WhiteSpace
        /\ \A k \in a..b : text[k] \notin WhiteSpace
        /\ b = Len(text) \/ text[b + 1] \in WhiteSpace
    BY DEF TwoRuns
  <1>1. PICK acc : IsSplit(text, acc) /\ Fields(text) = acc[Len(text)]
    BY FieldsSplit
  <1>2. acc[0] = <<>>
    BY <1>1 DEF IsSplit
  <1>3. /\ Len(text) \in Nat /\ at \in Nat /\ a \in Nat /\ b \in Nat
        /\ 2 <= at /\ at < a /\ a <= b /\ b <= Len(text)
    BY <1>0, LenProperties
  <1>4. PICK s \in 1..Len(text) : s = at - 1 /\ s + 1 = at
    BY <1>3
  <1>5. PICK r \in s..Len(text) : r = a - 1
    BY <1>3, <1>4
  <1>6. acc[s] = Append(acc[1 - 1], SubSeq(text, 1, s))
    <2>1. 1 \in 1..Len(text) /\ s \in 1..Len(text) /\ \A k \in 1..s : text[k] \notin WhiteSpace
      BY <1>0, <1>3, <1>4
    <2>2. QED
      BY <1>1, <2>1, SplitWord
  <1>7. acc[r] = acc[s]
    <2>1. s \in 0..Len(text) /\ \A k \in (s + 1)..r : text[k] \in WhiteSpace
      BY <1>0, <1>3, <1>4, <1>5
    <2>2. QED
      BY <1>1, <2>1, SplitBlank
  <1>8. acc[b] = Append(acc[a - 1], SubSeq(text, a, b))
    <2>1. a \in 1..Len(text) /\ text[a - 1] \in WhiteSpace
      BY <1>0, <1>3
    <2>2. QED
      BY <1>0, <1>1, <2>1, SplitWord
  <1>9. PICK v, w : v = SubSeq(text, 1, s) /\ w = SubSeq(text, a, b)
    OBVIOUS
  <1>10. acc[s] = Append(<<>>, v) /\ acc[b] = Append(acc[s], w)
    <2>1. acc[1 - 1] = <<>> /\ acc[a - 1] = acc[s]
      <3>1. 1 - 1 = 0
        OBVIOUS
      <3>2. QED
        BY <1>2, <1>5, <1>7, <3>1
    <2>2. QED
      BY <1>6, <1>8, <1>9, <2>1
  <1>11. Len(acc[b]) = 2 /\ acc[b][1] = v /\ acc[b][2] = w
    BY <1>10
  <1>12. b \in 1..Len(text) /\ Len(text) \in 0..Len(text)
    BY <1>3
  <1>13. Len(acc[b]) <= Len(acc[Len(text)]) /\ \A p \in 1..Len(acc[b]) : acc[Len(text)][p] = acc[b][p]
    BY <1>0, <1>1, <1>12, SplitStays
  <1>14. acc[Len(text)] \in Seq(Seq(S))
    BY <1>1, <1>12, SplitType
  <1>15. Len(acc[Len(text)]) \in Nat
    BY <1>14, LenProperties
  <1>16. Len(acc[Len(text)]) >= 2 /\ acc[Len(text)][1] = v /\ acc[Len(text)][2] = w
    BY <1>11, <1>13, <1>15
  <1>17. QED
    BY <1>1, <1>4, <1>9, <1>14, <1>16

(* A part of a part. *)
LEMMA PartOfPart ==
    ASSUME NEW S, NEW text \in Seq(S), NEW a \in 1..Len(text), NEW e \in a..Len(text),
           NEW part, part = SubSeq(text, a, e)
    PROVE  /\ part \in Seq(S) /\ Len(part) = e - a + 1
           /\ \A k \in 1..Len(part) : part[k] = text[a + k - 1]
           /\ \A l \in 1..Len(part) : SubSeq(part, 1, l) = SubSeq(text, a, a + l - 1)
PROOF
  <1>1. Len(text) \in Nat /\ a \in Nat /\ e \in Nat /\ 1 <= a /\ a <= e /\ e <= Len(text)
    BY LenProperties
  <1>2. \A k \in a..e : text[k] \in S
    BY <1>1, ElementOfSeq
  <1>3. /\ part \in Seq(S) /\ Len(part) = e - a + 1
        /\ \A k \in 1..(e - a + 1) : part[k] = text[a + k - 1]
    BY <1>1, <1>2, SubSeqProperties
  <1>4. ASSUME NEW l \in 1..Len(part) PROVE SubSeq(part, 1, l) = SubSeq(text, a, a + l - 1)
    <2>1. l \in Nat /\ 1 <= l /\ l <= e - a + 1 /\ a + l - 1 \in a..e
      BY <1>1, <1>3
    <2>2. \A k \in 1..l : part[k] \in S
      BY <1>3, <2>1, ElementOfSeq
    <2>3. PICK u : u = SubSeq(part, 1, l)
      OBVIOUS
    <2>4. PICK w : w = SubSeq(text, a, a + l - 1)
      OBVIOUS
    <2>5. u \in Seq(S) /\ Len(u) = l /\ \A k \in 1..l : u[k] = part[k]
      BY <1>3, <2>1, <2>2, <2>3, SubSeqProperties
    <2>6. w \in Seq(S) /\ Len(w) = l /\ \A k \in 1..l : w[k] = text[a + k - 1]
      BY <1>1, <1>2, <2>1, <2>4, SubSeqProperties
    <2>7. ASSUME NEW k \in 1..Len(u) PROVE u[k] = w[k]
      <3>1. k \in 1..l /\ k \in 1..(e - a + 1)
        BY <1>1, <2>1, <2>5
      <3>2. QED
        BY <1>3, <2>5, <2>6, <3>1
    <2>8. u = w
      BY <2>5, <2>6, <2>7, SeqEqual
    <2>9. QED
      BY <2>3, <2>4, <2>8
  <1>5. QED
    BY <1>3, <1>4

(* Both readings of a header with a proper scheme find it and the first    *)
(* word of its credential.                                                 *)
LEMMA ReadingsOfHeader ==
    ASSUME NEW S, NEW value \in Seq(S), NEW h, h = parseAuthorization(value),
           IsToken(h.scheme)
    PROVE  /\ getToken(value).ok
           /\ ToLower(getToken(value).TokenType) = h.scheme
           /\ getToken(value).Value = Head(Fields(h.credential))
PROOF
  <1>1. PICK at \in 1..Len(value) :
            /\ value[at] = " "
            /\ h = [scheme |-> ToLower(SubSeq(value, 1, at - 1)),
                    credential |-> TrimSpace(SubSeq(value, at + 1, Len(value)))]
            /\ h.credential # <<>>
    BY ParseIs DEF IsToken
  <1>2. Len(value) \in Nat /\ at \in Nat /\ 1 <= at /\ at <= Len(value)
    BY LenProperties
  <1>3. PICK scheme : scheme = SubSeq(value, 1, at - 1)
    OBVIOUS
  <1>4. PICK rest : rest = SubSeq(value, at + 1, Len(value))
    OBVIOUS
  <1>5. h.scheme = ToLower(scheme) /\ h.credential = TrimSpace(rest) /\ TrimSpace(rest) # <<>>
    <2>1. PICK s, c : s = ToLower(scheme) /\ c = TrimSpace(rest)
      OBVIOUS
    <2>2. h = [scheme |-> s, credential |-> c] /\ h.credential # <<>>
      BY <1>1, <1>3, <1>4, <2>1
    <2>3. QED
      BY <2>1, <2>2
  <1>6. /\ scheme \in Seq(S) /\ Len(scheme) = at - 1
        /\ \A k \in 1..(at - 1) : scheme[k] = value[k]
    <2>1. \A k \in 1..(at - 1) : value[k] \in S
      BY <1>2, ElementOfSeq
    <2>2. QED
      BY <1>2, <1>3, <2>1, SubSeqProperties
  <1>7. at >= 2 /\ \A k \in 1..(at - 1) : value[k] \notin WhiteSpace
    <2>1. DOMAIN scheme = 1..(at - 1)
      BY <1>6, LenProperties
    <2>2. IsToken(ToLower(scheme))
      BY <1>5
    <2>3. \A k \in 1..(at - 1) : ToLower(scheme)[k] = IF value[k] = "B" THEN "b" ELSE value[k]
      BY <1>6, <2>1 DEF ToLower
    <2>4. \A k \in 1..(at - 1) : ToLower(scheme)[k] \notin WhiteSpace
      <3>1. DOMAIN ToLower(scheme) = 1..(at - 1)
        BY <2>1 DEF ToLower
      <3>2. QED
        BY <2>2, <3>1 DEF IsToken, ToSet
    <2>5. \A k \in 1..(at - 1) : value[k] \notin WhiteSpace
      BY <2>3, <2>4 DEF WhiteSpace
    <2>6. at # 1
      <3>1. SUFFICES ASSUME at = 1 PROVE FALSE
        OBVIOUS
      <3>2. scheme = <<>>
        BY <1>6, <3>1, EmptySeq
      <3>3. ToLower(scheme) = <<>>
        BY <3>2 DEF ToLower
      <3>4. QED
        BY <2>2, <3>3 DEF IsToken
    <2>7. QED
      BY <1>2, <2>5, <2>6
  <1>8. /\ rest \in Seq(S) /\ Len(rest) = Len(value) - at
        /\ \A k \in 1..(Len(value) - at) : rest[k] = value[at + k]
    <2>1. \A k \in (at + 1)..Len(value) : value[k] \in S
      BY <1>2, ElementOfSeq
    <2>2. QED
      BY <1>2, <1>4, <2>1, SubSeqProperties
  <1>9. PICK a, e \in 1..Len(rest) :
            /\ a <= e /\ h.credential = SubSeq(rest, a, e)
            /\ rest[a] \notin WhiteSpace
            /\ \A i \in 1..Len(rest) : i < a \/ i > e => rest[i] \in WhiteSpace
    BY <1>5, <1>8, TrimIs
  <1>10. PICK c : c = h.credential /\ c = SubSeq(rest, a, e)
    BY <1>9
  <1>11. /\ a \in Nat /\ e \in a..Len(rest) /\ e \in Nat /\ 1 <= a /\ e <= Len(rest)
    BY <1>2, <1>8, <1>9
  <1>12. /\ c \in Seq(S) /\ Len(c) = e - a + 1
         /\ \A k \in 1..Len(c) : c[k] = rest[a + k - 1]
    BY <1>8, <1>10, <1>11, PartOfPart
  <1>13. Len(c) \in Nat /\ 1 \in 1..Len(c) /\ c[1] \notin WhiteSpace
    BY <1>9, <1>11, <1>12
  <1>14. PICK b \in 1..Len(c) :
            /\ \A k \in 1..b : c[k] \notin WhiteSpace
            /\ b = Len(c) \/ c[b + 1] \in WhiteSpace
    BY <1>12, <1>13, WordEnds
  <1>15. Head(Fields(c)) = SubSeq(c, 1, b)
    BY <1>12, <1>14, FirstWord
  <1>16. PICK A, E, B \in 1..Len(value) :
             /\ A = at + a /\ E = at + e /\ B = A + b - 1
             /\ A \in (at + 1)..Len(value) /\ E \in A..Len(value) /\ B \in A..Len(value)
    <2>1. /\ at + a \in (at + 1)..Len(value) /\ at + e \in (at + a)..Len(value)
          /\ at + a + b - 1 \in (at + a)..Len(value)
      BY <1>2, <1>8, <1>11, <1>12
    <2>2. at + a \in 1..Len(value) /\ at + e \in 1..Len(value) /\ at + a + b - 1 \in 1..Len(value)
      BY <1>2, <1>8, <1>11, <1>12
    <2>3. QED
      BY <2>1, <2>2
  <1>17. A \in 1..Len(value) /\ A \in Nat /\ E \in Nat /\ B \in Nat /\ b \in Nat
    BY <1>2, <1>8, <1>11, <1>16
  <1>18. c = SubSeq(value, A, E)
    <2>1. PICK w : w = SubSeq(value, A, E)
      OBVIOUS
    <2>2. /\ w \in Seq(S) /\ Len(w) = E - A + 1
          /\ \A k \in 1..Len(w) : w[k] = value[A + k - 1]
      BY <1>16, <1>17, <2>1, PartOfPart
    <2>3. Len(w) = Len(c)
      BY <1>2, <1>11, <1>12, <1>16, <2>2
    <2>4. ASSUME NEW k \in 1..Len(c) PROVE c[k] = w[k]
      <3>0. k \in Nat /\ 1 <= k /\ k <= e - a + 1
        BY <1>11, <1>12
      <3>1. PICK l \in 1..(Len(value) - at) : l = a + k - 1
        <4>1. Len(value) \in Nat /\ at \in Nat /\ Len(rest) = Len(value) - at
          BY <1>2, <1>8
        <4>2. a + k - 1 \in 1..(Len(value) - at)
          BY <1>11, <3>0, <4>1
        <4>3. QED
          BY <4>2
      <3>2. A + k - 1 = at + l
        BY <1>2, <1>11, <1>16, <3>1
      <3>3. c[k] = rest[l] /\ rest[l] = value[at + l]
        BY <1>8, <1>12, <3>1
      <3>4. w[k] = value[at + l]
        BY <2>2, <2>3, <3>2
      <3>5. QED
        BY <3>3, <3>4
    <2>5. QED
      BY <1>12, <2>1, <2>2, <2>3, <2>4, SeqEqual
  <1>19. /\ \A k \in 1..Len(c) : c[k] = value[A + k - 1]
         /\ SubSeq(c, 1, b) = SubSeq(value, A, B)
    BY <1>16, <1>17, <1>18, PartOfPart
  <1>20. \A k \in at..(A - 1) : value[k] \in WhiteSpace
    <2>1. SUFFICES ASSUME NEW k \in at..(A - 1) PROVE value[k] \in WhiteSpace
      OBVIOUS
    <2>2. CASE k = at
      BY <1>1, <2>2 DEF WhiteSpace
    <2>3. CASE k # at
      <3>1. PICK l \in 1..Len(rest) : k = at + l /\ l < a
        <4>1. k - at \in 1..Len(rest) /\ k = at + (k - at) /\ k - at < a
          BY <1>2, <1>8, <1>11, <1>16, <2>3
        <4>2. QED
          BY <4>1
      <3>2. rest[l] \in WhiteSpace /\ rest[l] = value[k]
        BY <1>8, <1>9, <3>1
      <3>3. QED
        BY <3>2
    <2>4. QED
      BY <2>2, <2>3
  <1>21. \A k \in A..B : value[k] \notin WhiteSpace
    <2>1. SUFFICES ASSUME NEW k \in A..B PROVE value[k] \notin WhiteSpace
      OBVIOUS
    <2>2. PICK l \in 1..b : k = A + l - 1
      <3>1. k - A + 1 \in 1..b /\ k = A + (k - A + 1) - 1
        BY <1>16, <1>17
      <3>2. QED
        BY <3>1
    <2>3. l \in 1..Len(c)
      BY <1>13
    <2>4. QED
      BY <1>14, <1>19, <2>2, <2>3
  <1>22. B = Len(value) \/ value[B + 1] \in WhiteSpace
    <2>1. CASE b # Len(c)
      <3>1. b + 1 \in 1..Len(c) /\ A + (b + 1) - 1 = B + 1
        BY <1>13, <1>16, <1>17, <2>1
      <3>2. QED
        BY <1>14, <1>19, <2>1, <3>1
    <2>2. CASE b = Len(c) /\ e # Len(rest)
      <3>1. PICK l \in 1..Len(rest) : l = e + 1 /\ B + 1 = at + l /\ l > e
        <4>0. Len(rest) \in Nat
          BY <1>8, LenProperties
        <4>1. e + 1 \in 1..Len(rest) /\ e + 1 > e
          BY <1>11, <2>2, <4>0
        <4>2. B + 1 = at + (e + 1)
          BY <1>2, <1>11, <1>12, <1>16, <2>2
        <4>3. QED
          BY <4>1, <4>2
      <3>2. rest[l] \in WhiteSpace /\ rest[l] = value[B + 1]
        BY <1>8, <1>9, <3>1
      <3>3. QED
        BY <3>2
    <2>3. CASE b = Len(c) /\ e = Len(rest)
      BY <1>2, <1>8, <1>11, <1>12, <1>16, <2>3
    <2>4. QED
      BY <2>1, <2>2, <2>3
  <1>23. PICK words : words = Fields(value)
    OBVIOUS
  <1>24. /\ words \in Seq(Seq(S)) /\ Len(words) >= 2
         /\ words[1] = scheme /\ words[2] = SubSeq(value, A, B)
    <2>1. at \in 2..Len(value)
      BY <1>2, <1>7
    <2>2. TwoRuns(value, at, A, B)
      BY <1>7, <1>16, <1>20, <1>21, <1>22, <2>1 DEF TwoRuns
    <2>3. /\ Fields(value) \in Seq(Seq(S)) /\ Len(Fields(value)) >= 2
          /\ Fields(value)[1] = SubSeq(value, 1, at - 1) /\ Fields(value)[2] = SubSeq(value, A, B)
      BY <1>2, <1>17, <2>2, TwoWords
    <2>4. QED
      BY <1>3, <1>23, <2>3
  <1>25. getToken(value) = [ok |-> TRUE, TokenType |-> words[1], Value |-> words[2]]
    <2>1. ~ (Len(words) < 2)
      BY <1>24, LenProperties
    <2>2. QED
      BY <1>23, <2>1, Zenon DEF getToken
  <1>26. QED
    <2>1. PICK v, w : v = words[1] /\ w = words[2]
      OBVIOUS
    <2>2. getToken(value) = [ok |-> TRUE, TokenType |-> v, Value |-> w]
      BY <1>25, <2>1
    <2>3. v = scheme /\ w = Head(Fields(h.credential))
      BY <1>10, <1>15, <1>19, <1>24, <2>1
    <2>4. QED
      BY <1>5, <2>2, <2>3

(* The characters of a header. *)
Chars == {" ", "\t", ":", "B", "b"}

(* The values of the header are texts. *)
LEMMA HeaderType == HeaderValues \subseteq Seq(Chars)
PROOF
  BY BoundsAssumption, BoundedIsSeq DEF HeaderValues, Chars

(* The token that getToken finds is the credential that was introspected,  *)
(* or its first word, under the same scheme, for headers of any length.    *)
THEOREM ReadingsAlwaysAgree == Spec => []ReadingsAgree
PROOF
  <1>1. Inv => ReadingsAgree
    <2>1. SUFFICES ASSUME Inv, topic = "header", NEW h, h = parseAuthorization(subject),
                          IsToken(h.scheme)
                   PROVE  /\ getToken(subject).ok
                          /\ ToLower(getToken(subject).TokenType) = h.scheme
                          /\ getToken(subject).Value = Head(Fields(h.credential))
      BY Zenon DEF ReadingsAgree
    <2>2. subject \in Seq(Chars)
      BY <2>1, HeaderType DEF Inv
    <2>3. QED
      BY <2>1, <2>2, ReadingsOfHeader, Zenon
  <1>2. QED
    BY <1>1, InvHolds, PTL

(* Two headers share a cache key only if the scheme of one goes on, with a *)
(* colon, where that of the other ends, for headers of any length.         *)
THEOREM KeyAlwaysTellsApart == Spec => []KeyTellsApart
PROOF
  <1>1. Inv => KeyTellsApart
    <2>1. SUFFICES ASSUME Inv, topic = "header", NEW h, h = parseAuthorization(subject),
                          h.scheme # <<>>, NEW g \in Readings, KeyOf(g) = KeyOf(h),
                          Len(g.scheme) >= Len(h.scheme),
                          NEW more, more = SubSeq(g.scheme, Len(h.scheme) + 2, Len(g.scheme))
                   PROVE  \/ g = h
                          \/ /\ g.scheme = h.scheme \o <<":">> \o more
                             /\ h.credential = more \o <<":">> \o g.credential
      BY Zenon DEF KeyTellsApart
    <2>2. PICK value \in HeaderValues : g = parseAuthorization(value) /\ g.scheme # <<>>
      BY DEF Readings
    <2>3. subject \in Seq(Chars) /\ value \in Seq(Chars) /\ "b" \in Chars /\ ":" \in Chars
      BY <2>1, HeaderType DEF Inv, Chars
    <2>4. /\ h.scheme \in Seq(Chars) /\ h.credential \in Seq(Chars)
          /\ h = [scheme |-> h.scheme, credential |-> h.credential]
      BY <2>1, <2>3, ParseType, Zenon
    <2>5. /\ g.scheme \in Seq(Chars) /\ g.credential \in Seq(Chars)
          /\ g = [scheme |-> g.scheme, credential |-> g.credential]
      BY <2>2, <2>3, ParseType, Zenon
    <2>6. PICK s, c, t, d \in Seq(Chars) :
              /\ s = h.scheme /\ c = h.credential /\ t = g.scheme /\ d = g.credential
              /\ h = [scheme |-> s, credential |-> c] /\ g = [scheme |-> t, credential |-> d]
      BY <2>4, <2>5, Zenon
    <2>7. cacheKey(s, c) = cacheKey(t, d) /\ Len(t) >= Len(s)
      BY <2>1, <2>6, Zenon DEF KeyOf
    <2>8. more = SubSeq(t, Len(s) + 2, Len(t))
      BY <2>1, <2>6, Zenon
    <2>9. \/ s = t /\ c = d
          \/ t = cacheKey(s, more) /\ c = cacheKey(more, d)
      <3>1. \/ s = t /\ c = d
            \/ /\ t = cacheKey(s, SubSeq(t, Len(s) + 2, Len(t)))
               /\ c = cacheKey(SubSeq(t, Len(s) + 2, Len(t)), d)
        <4>1. ":" \in Chars
          BY <2>3
        <4>2. QED
          BY <2>7, <4>1, KeySplits
      <3>2. QED
        BY <2>8, <3>1, Zenon
    <2>10. QED
      BY <2>6, <2>9, Zenon DEF cacheKey
  <1>2. QED
    BY <1>1, InvHolds, PTL

-----------------------------------------------------------------------------
(* Clients *)

(* What an option does; the kind of the client does not matter. *)
SetField(kind, cfg, option) == [cfg EXCEPT ![option.field] = option.value]

Setting == INSTANCE FoldProofs WITH Op <- SetField

(* applyOptions applies one option after the other. *)
LEMMA ApplyTurns ==
    ASSUME NEW S, NEW kind, NEW options \in Seq(S)
    PROVE  \E acc : /\ Setting!IsRun(kind, Defaults(kind), options, acc)
                    /\ applyOptions(kind, options) = acc[Len(options)]
PROOF
  <1>1. applyOptions(kind, options) = Setting!Folded(kind, Defaults(kind), options)
    BY DEF applyOptions, FoldLeft, MapThenFoldSet, Max, SetField,
           Setting!Folded, Setting!Fold, Setting!IsFold, Setting!Turn, Setting!Max
  <1>2. QED
    BY <1>1, Setting!FoldTurns

(* The configurations that the options start from. *)
LEMMA DefaultsAre ==
    ASSUME NEW kind \in ClientKinds, NEW cfg, cfg = Defaults(kind)
    PROVE  /\ {"timeout", "maxResponseBodySize"} \subseteq DOMAIN cfg
           /\ cfg["timeout"] = "positive" /\ cfg["maxResponseBodySize"] = "positive"
           /\ kind = "cedar" => "principalResolver" \in DOMAIN cfg /\ cfg["principalResolver"] # ""
           /\ kind = "rfc7662" => "auth" \in DOMAIN cfg /\ cfg["auth"] # "self"
PROOF
  <1>1. CASE kind \in {"rest", "opa"}
    BY <1>1 DEF Defaults, restDefaults
  <1>2. CASE kind = "cedar"
    BY <1>2 DEF Defaults, cedarDefaults
  <1>3. CASE kind = "rfc7662"
    BY <1>3 DEF Defaults, rfc7662Defaults
  <1>4. QED
    BY <1>1, <1>2, <1>3 DEF ClientKinds

(* What the options that do not panic set. *)
LEMMA ProperOption ==
    ASSUME NEW kind \in ClientKinds, NEW o \in OptionCalls(kind), ~ Panics(kind, o)
    PROVE  /\ o.field \in DOMAIN Defaults(kind)
           /\ o.field \in {"timeout", "maxResponseBodySize"} => o.value = "positive"
           /\ kind = "cedar" /\ o.field = "principalResolver" => o.value # ""
PROOF
  <1>1. o.field \in DOMAIN Defaults(kind)
    BY DEF OptionCalls
  <1>2. ~ restPanics(o) /\ (kind = "cedar" => ~ cedarPanics(o))
    BY DEF Panics, ClientKinds, cedarPanics, rfc7662Panics
  <1>3. QED
    BY <1>1, <1>2 DEF restPanics, cedarPanics

(* Of the first k options the last one for authentication is               *)
(* WithSelfIntrospect.                                                     *)
SelfIsLast(options, k) ==
    \E i \in 1..k : /\ options[i].field = "auth" /\ options[i].value = "self"
                    /\ \A j \in (i + 1)..k : options[j].field # "auth"

(* A configuration that is bounded, after k options. *)
Bounded(kind, options, k, cfg) ==
    /\ DOMAIN cfg = DOMAIN Defaults(kind)
    /\ cfg["timeout"] = "positive" /\ cfg["maxResponseBodySize"] = "positive"
    /\ kind = "cedar" => cfg["principalResolver"] # ""
    /\ kind = "rfc7662" => (cfg["auth"] = "self" <=> SelfIsLast(options, k))

(* One option more. *)
LEMMA BoundedStep ==
    ASSUME NEW kind \in ClientKinds, NEW options \in Seq(OptionCalls(kind)), NEW k \in Nat,
           k + 1 <= Len(options), ~ Panics(kind, options[k + 1]),
           NEW cfg, Bounded(kind, options, k, cfg)
    PROVE  Bounded(kind, options, k + 1, SetField(kind, cfg, options[k + 1]))
PROOF
  <1>1. PICK o \in OptionCalls(kind) : o = options[k + 1]
    <2>1. k + 1 \in 1..Len(options)
      BY LenProperties
    <2>2. QED
      BY <2>1, ElementOfSeq
  <1>2. PICK f, v : f = o.field /\ v = o.value
    OBVIOUS
  <1>3. /\ f \in DOMAIN Defaults(kind)
        /\ f \in {"timeout", "maxResponseBodySize"} => v = "positive"
        /\ kind = "cedar" /\ f = "principalResolver" => v # ""
    BY <1>1, <1>2, ProperOption
  <1>4. PICK d : d = [cfg EXCEPT ![f] = v]
    OBVIOUS
  <1>5. d = SetField(kind, cfg, options[k + 1])
    BY <1>1, <1>2, <1>4 DEF SetField
  <1>6. PICK D : D = DOMAIN Defaults(kind) /\ D = DOMAIN cfg
    BY DEF Bounded
  <1>7. DOMAIN d = D /\ \A x \in D : d[x] = IF x = f THEN v ELSE cfg[x]
    BY <1>4, <1>6
  <1>8. /\ "timeout" \in D /\ "maxResponseBodySize" \in D
        /\ kind = "cedar" => "principalResolver" \in D
        /\ kind = "rfc7662" => "auth" \in D
    BY <1>6, DefaultsAre
  <1>9. d["timeout"] = "positive" /\ d["maxResponseBodySize"] = "positive"
    BY <1>3, <1>7, <1>8 DEF Bounded
  <1>10. kind = "cedar" => d["principalResolver"] # ""
    BY <1>3, <1>7, <1>8 DEF Bounded
  <1>11. ASSUME kind = "rfc7662" PROVE d["auth"] = "self" <=> SelfIsLast(options, k + 1)
    <2>1. d["auth"] = IF f = "auth" THEN v ELSE cfg["auth"]
      BY <1>7, <1>8, <1>11
    <2>2. cfg["auth"] = "self" <=> SelfIsLast(options, k)
      BY <1>11 DEF Bounded
    <2>3. CASE f = "auth"
      <3>1. ASSUME v = "self" PROVE SelfIsLast(options, k + 1)
        <4>1. k + 1 \in 1..(k + 1) /\ \A j \in ((k + 1) + 1)..(k + 1) : FALSE
          OBVIOUS
        <4>2. options[k + 1].field = "auth" /\ options[k + 1].value = "self"
          BY <1>1, <1>2, <2>3, <3>1
        <4>3. QED
          BY <4>1, <4>2 DEF SelfIsLast
      <3>2. ASSUME SelfIsLast(options, k + 1) PROVE v = "self"
        <4>1. PICK i \in 1..(k + 1) :
                  /\ options[i].field = "auth" /\ options[i].value = "self"
                  /\ \A j \in (i + 1)..(k + 1) : options[j].field # "auth"
          BY <3>2 DEF SelfIsLast
        <4>2. options[k + 1].field = "auth"
          BY <1>1, <1>2, <2>3
        <4>3. k + 1 \notin (i + 1)..(k + 1)
          BY <4>1, <4>2
        <4>4. i = k + 1
          BY <4>3
        <4>5. QED
          BY <1>1, <1>2, <4>1, <4>4
      <3>3. QED
        BY <2>1, <2>3, <3>1, <3>2
    <2>4. CASE f # "auth"
      <3>1. options[k + 1].field # "auth"
        BY <1>1, <1>2, <2>4
      <3>2. ASSUME SelfIsLast(options, k) PROVE SelfIsLast(options, k + 1)
        <4>1. PICK i \in 1..k :
                  /\ options[i].field = "auth" /\ options[i].value = "self"
                  /\ \A j \in (i + 1)..k : options[j].field # "auth"
          BY <3>2 DEF SelfIsLast
        <4>2. ASSUME NEW j \in (i + 1)..(k + 1) PROVE options[j].field # "auth"
          <5>1. j = k + 1 \/ j \in (i + 1)..k
            OBVIOUS
          <5>2. QED
            BY <3>1, <4>1, <5>1
        <4>3. i \in 1..(k + 1)
          OBVIOUS
        <4>4. QED
          BY <4>1, <4>2, <4>3 DEF SelfIsLast
      <3>3. ASSUME SelfIsLast(options, k + 1) PROVE SelfIsLast(options, k)
        <4>1. PICK i \in 1..(k + 1) :
                  /\ options[i].field = "auth" /\ options[i].value = "self"
                  /\ \A j \in (i + 1)..(k + 1) : options[j].field # "auth"
          BY <3>3 DEF SelfIsLast
        <4>2. i # k + 1
          BY <3>1, <4>1
        <4>3. i \in 1..k
          BY <4>2
        <4>4. \A j \in (i + 1)..k : j \in (i + 1)..(k + 1)
          OBVIOUS
        <4>5. QED
          BY <4>1, <4>3, <4>4 DEF SelfIsLast
      <3>4. QED
        BY <2>1, <2>2, <2>4, <3>2, <3>3
    <2>5. QED
      BY <2>3, <2>4
  <1>12. QED
    BY <1>5, <1>6, <1>7, <1>9, <1>10, <1>11 DEF Bounded

(* All of the options. *)
LEMMA OptionsBound ==
    ASSUME NEW kind \in ClientKinds, NEW options \in Seq(OptionCalls(kind)),
           \A i \in 1..Len(options) : ~ Panics(kind, options[i])
    PROVE  Bounded(kind, options, Len(options), applyOptions(kind, options))
PROOF
  <1>1. PICK acc : /\ Setting!IsRun(kind, Defaults(kind), options, acc)
                   /\ applyOptions(kind, options) = acc[Len(options)]
    BY ApplyTurns
  <1> DEFINE N == {k \in Nat : k <= Len(options) => Bounded(kind, options, k, acc[k])}
  <1>2. 0 \in N
    <2>1. acc[0] = Defaults(kind)
      BY <1>1 DEF Setting!IsRun
    <2>2. ~ SelfIsLast(options, 0)
      BY DEF SelfIsLast
    <2>3. Bounded(kind, options, 0, acc[0])
      BY <2>1, <2>2, DefaultsAre DEF Bounded
    <2>4. QED
      BY <2>3
  <1>3. ASSUME NEW k \in Nat, k \in N PROVE k + 1 \in N
    <2>1. SUFFICES ASSUME k + 1 <= Len(options) PROVE Bounded(kind, options, k + 1, acc[k + 1])
      OBVIOUS
    <2>2. Len(options) \in Nat /\ k \in 0..(Len(options) - 1) /\ k + 1 \in 1..Len(options)
      BY <2>1, LenProperties
    <2>3. Bounded(kind, options, k, acc[k])
      BY <1>3, <2>2
    <2>4. acc[k + 1] = SetField(kind, acc[k], options[k + 1])
      BY <1>1, <2>2 DEF Setting!IsRun
    <2>5. PICK cfg : cfg = acc[k]
      OBVIOUS
    <2>6. Bounded(kind, options, k + 1, SetField(kind, cfg, options[k + 1]))
      BY <2>1, <2>2, <2>3, <2>5, BoundedStep
    <2>7. QED
      BY <2>4, <2>5, <2>6
  <1>4. Nat \subseteq N
    <2> HIDE DEF N
    <2>1. QED
      BY <1>2, <1>3, Induction
  <1>5. Len(options) \in Nat
    BY LenProperties
  <1>6. QED
    BY <1>1, <1>4, <1>5

-----------------------------------------------------------------------------
(* Texts that are trimmed *)

(* A text without white space stays as it is. *)
LEMMA TrimInk ==
    ASSUME NEW S, S \cap WhiteSpace = {}, NEW text \in Seq(S)
    PROVE  TrimSpace(text) = text
PROOF
  <1>1. Len(text) \in Nat /\ \A i \in 1..Len(text) : text[i] \notin WhiteSpace
    BY ElementOfSeq, LenProperties
  <1>2. CASE TrimSpace(text) = <<>> /\ \A i \in 1..Len(text) : text[i] \in WhiteSpace
    <2>1. Len(text) = 0
      <3>1. SUFFICES ASSUME Len(text) # 0 PROVE FALSE
        OBVIOUS
      <3>2. 1 \in 1..Len(text)
        BY <1>1, <3>1
      <3>3. QED
        BY <1>1, <1>2, <3>2
    <2>2. QED
      BY <1>2, <2>1, EmptySeq
  <1>3. CASE \E a, b \in 1..Len(text) :
                 /\ a <= b /\ TrimSpace(text) = SubSeq(text, a, b)
                 /\ \A i \in 1..Len(text) : i < a \/ i > b => text[i] \in WhiteSpace
    <2>1. PICK a, b \in 1..Len(text) :
              /\ a <= b /\ TrimSpace(text) = SubSeq(text, a, b)
              /\ \A i \in 1..Len(text) : i < a \/ i > b => text[i] \in WhiteSpace
      BY <1>3
    <2>2. 1 \in 1..Len(text) /\ Len(text) \in 1..Len(text)
      BY <1>1
    <2>3. ~ (1 < a) /\ ~ (Len(text) > b)
      BY <1>1, <2>1, <2>2
    <2>4. a = 1 /\ b = Len(text)
      BY <1>1, <2>2, <2>3
    <2>5. SubSeq(text, 1, Len(text)) = text
      BY <1>1
    <2>6. QED
      BY <2>1, <2>4, <2>5
  <1>4. QED
    BY <1>2, <1>3, TrimIs

(* A text between two pieces. *)
LEMMA Enclosed ==
    ASSUME NEW S, NEW x \in S, NEW y \in S, NEW text \in Seq(S), NEW n \in Nat, n = Len(text),
           NEW w, w = <<x>> \o text \o <<y>>
    PROVE  /\ w \in Seq(S) /\ Len(w) = n + 2 /\ w[1] = x /\ w[n + 2] = y
           /\ \A i \in 1..n : w[i + 1] = text[i]
PROOF
  <1>1. PICK u : u = <<x>> \o text
    OBVIOUS
  <1>2. <<x>> \in Seq(S) /\ <<y>> \in Seq(S)
    OBVIOUS
  <1>3. u \in Seq(S) /\ Len(u) = n + 1 /\ u[1] = x /\ \A i \in 1..n : u[i + 1] = text[i]
    BY <1>1, <1>2
  <1>4. w = u \o <<y>>
    BY <1>1
  <1>5. w \in Seq(S) /\ Len(w) = n + 2 /\ w[n + 2] = y /\ \A i \in 1..(n + 1) : w[i] = u[i]
    BY <1>2, <1>3, <1>4
  <1>6. 1 \in 1..(n + 1) /\ \A i \in 1..n : i + 1 \in 1..(n + 1)
    OBVIOUS
  <1>7. QED
    BY <1>3, <1>5, <1>6

(* And it is the same text with white space around it. *)
LEMMA TrimAround ==
    ASSUME NEW S, S \cap WhiteSpace = {}, NEW text \in Seq(S), text # <<>>,
           NEW x \in WhiteSpace, NEW y \in WhiteSpace
    PROVE  TrimSpace(<<x>> \o text \o <<y>>) = text
PROOF
  <1>0. PICK T : S \subseteq T /\ x \in T /\ y \in T
    <2>1. S \subseteq S \cup WhiteSpace /\ x \in S \cup WhiteSpace /\ y \in S \cup WhiteSpace
      OBVIOUS
    <2>2. QED
      BY <2>1, Zenon
  <1>1. PICK n \in Nat : n = Len(text) /\ n >= 1
    BY EmptySeq, LenProperties
  <1>2. \A i \in 1..n : text[i] \in S /\ text[i] \notin WhiteSpace
    BY <1>1, ElementOfSeq
  <1>3. PICK w : w = <<x>> \o text \o <<y>>
    OBVIOUS
  <1>4. /\ w \in Seq(T) /\ Len(w) = n + 2 /\ w[1] = x /\ w[n + 2] = y
        /\ \A i \in 1..n : w[i + 1] = text[i]
    <2>1. text \in Seq(T)
      BY <1>0, SeqMonotonic
    <2>2. QED
      BY <1>0, <1>1, <1>3, <2>1, Enclosed
  <1>5. 2 \in 1..Len(w) /\ n + 1 \in 1..Len(w) /\ w[2] \notin WhiteSpace /\ w[n + 1] \notin WhiteSpace
    <2>1. 1 \in 1..n /\ n \in 1..n /\ 1 + 1 = 2
      BY <1>1
    <2>2. w[1 + 1] = text[1] /\ w[n + 1] = text[n]
      BY <1>4, <2>1
    <2>3. 2 \in 1..Len(w) /\ n + 1 \in 1..Len(w)
      BY <1>1, <1>4
    <2>4. QED
      BY <1>2, <2>1, <2>2, <2>3
  <1>6. PICK a, b \in 1..Len(w) :
            /\ a <= b /\ TrimSpace(w) = SubSeq(w, a, b)
            /\ w[a] \notin WhiteSpace /\ w[b] \notin WhiteSpace
            /\ \A i \in 1..Len(w) : i < a \/ i > b => w[i] \in WhiteSpace
    BY <1>4, <1>5, TrimIs
  <1>7. a = 2 /\ b = n + 1
    <2>1. w[1] \in WhiteSpace /\ w[n + 2] \in WhiteSpace
      BY <1>4
    <2>2. a # 1 /\ b # n + 2
      BY <1>6, <2>1
    <2>3. ~ (2 < a) /\ ~ (n + 1 > b)
      BY <1>5, <1>6
    <2>4. QED
      BY <1>1, <1>4, <2>2, <2>3
  <1>8. PICK s : s = SubSeq(w, 2, n + 1)
    OBVIOUS
  <1>9. /\ s \in Seq(T) /\ Len(s) = n /\ \A i \in 1..n : s[i] = w[2 + i - 1]
    <2>1. \A i \in 2..(n + 1) : w[i] \in T
      <3>1. \A i \in 2..(n + 1) : i \in 1..Len(w)
        BY <1>1, <1>4
      <3>2. QED
        BY <1>4, <3>1, ElementOfSeq
    <2>2. QED
      BY <1>1, <1>4, <1>8, <2>1, SubSeqProperties
  <1>10. ASSUME NEW i \in 1..n PROVE s[i] = text[i]
    <2>1. 2 + i - 1 = i + 1
      OBVIOUS
    <2>2. QED
      BY <1>4, <1>9, <2>1
  <1>11. text \in Seq(T)
    BY <1>0, SeqMonotonic
  <1>12. s = text
    BY <1>1, <1>9, <1>10, <1>11, SeqEqual
  <1>13. QED
    BY <1>3, <1>6, <1>7, <1>8, <1>12

(* A text that ends in a piece has it at its end. *)
LEMMA SuffixIsLast ==
    ASSUME NEW S, NEW text \in Seq(S), text # <<>>, NEW x \in S, IsSuffix(<<x>>, text)
    PROVE  Last(text) = x
PROOF
  <1>1. PICK n \in Nat : n = Len(text) /\ n >= 1
    BY EmptySeq, LenProperties
  <1>2. PICK r : r = Reverse(text)
    OBVIOUS
  <1>3. r \in Seq(S) /\ Len(r) = n /\ r[1] = text[n]
    <2>1. r = [i \in 1..n |-> text[n - i + 1]]
      BY <1>1, <1>2 DEF Reverse
    <2>2. \A i \in 1..n : n - i + 1 \in 1..Len(text) /\ text[n - i + 1] \in S
      BY <1>1, ElementOfSeq
    <2>3. r \in [1..n -> S]
      BY <2>1, <2>2
    <2>4. 1 \in 1..n /\ n - 1 + 1 = n
      BY <1>1
    <2>5. r[1] = text[n]
      BY <2>1, <2>4
    <2>6. r \in Seq(S) /\ Len(r) = n
      BY <2>3
    <2>7. QED
      BY <2>5, <2>6
  <1>4. Reverse(<<x>>) = <<x>>
    BY DEF Reverse
  <1>5. SubSeq(<<x>>, 1, 1) = SubSeq(r, 1, 1)
    <2>1. IsPrefix(<<x>>, r)
      BY <1>2, <1>4 DEF IsSuffix
    <2>2. Len(<<x>>) = 1
      OBVIOUS
    <2>3. QED
      BY <2>1, <2>2 DEF IsPrefix
  <1>6. SubSeq(<<x>>, 1, 1) = <<x>>
    <2>1. <<x>> \in Seq(S) /\ Len(<<x>>) >= 1 /\ <<x>>[1] = x
      OBVIOUS
    <2>2. QED
      BY <2>1, FirstOf, Zenon
  <1>7. SubSeq(r, 1, 1) = <<r[1]>>
    BY <1>1, <1>3, FirstOf
  <1>8. <<x>> = <<r[1]>>
    BY <1>5, <1>6, <1>7
  <1>9. x = r[1]
    BY <1>8
  <1>10. QED
    BY <1>1, <1>3, <1>9 DEF Last

(* A text with a piece in front is the rest once that is cut off. *)
LEMMA TrimPrefixOf ==
    ASSUME NEW S, NEW x \in S, NEW text \in Seq(S)
    PROVE  TrimPrefix(<<x>> \o text, x) = text
PROOF
  <1>1. PICK w : w = <<x>> \o text
    OBVIOUS
  <1>2. w \in Seq(S) /\ Len(w) = Len(text) + 1 /\ w[1] = x /\ Len(text) \in Nat
    BY <1>1, LenProperties
  <1>3. SubSeq(w, 1, 1) = <<x>>
    BY <1>2, FirstOf
  <1>4. <<x>> \in Seq(S) /\ Len(<<x>>) = 1 /\ <<x>>[1] = x
    OBVIOUS
  <1>5. SubSeq(<<x>>, 1, 1) = <<x>>
    <2>1. Len(<<x>>) >= 1
      BY <1>4
    <2>2. QED
      BY <1>4, <2>1, FirstOf, Zenon
  <1>6. IsPrefix(<<x>>, w)
    <2>1. Len(<<x>>) <= Len(w)
      BY <1>2, <1>4
    <2>2. QED
      BY <1>3, <1>4, <1>5, <2>1 DEF IsPrefix
  <1>7. Tail(w) = text
    BY <1>1
  <1>8. QED
    BY <1>1, <1>6, <1>7 DEF TrimPrefix

-----------------------------------------------------------------------------
(* URLs *)

(* The pieces of URLs and of policy paths. *)
URLPieces == {"http://", "https://", "host", "/", "p", "%", "q"}

(* The base URLs and the paths of the model are made of them. *)
LEMMA ClientsType ==
    ASSUME NEW client \in Clients
    PROVE  /\ client.kind \in ClientKinds
           /\ client.base \in Seq(URLPieces)
           /\ client.policyPath \in Seq(URLPieces)
           /\ client.policyPath = <<>> \/ client.policyPath = <<"q">>
           /\ client.options \in Seq(OptionCalls(client.kind))
           /\ client = [kind |-> client.kind, base |-> client.base,
                        policyPath |-> client.policyPath, options |-> client.options]
PROOF
  <1>1. PICK k \in ClientKinds :
            client \in [kind : {k}, base : BaseURLs \cup {<<>>, <<"host", "%">>},
                        policyPath : {<<>>, <<"q">>},
                        options : BoundedSeq(OptionCalls(k), MaxOptions)]
    BY DEF Clients
  <1>2. client.kind = k
    BY <1>1
  <1>3. client.options \in Seq(OptionCalls(k))
    <2>1. BoundedSeq(OptionCalls(k), MaxOptions) \subseteq Seq(OptionCalls(k))
      BY BoundsAssumption, BoundedIsSeq
    <2>2. QED
      BY <1>1, <2>1
  <1>4. client.policyPath \in {<<>>, <<"q">>}
    BY <1>1
  <1>5. <<>> \in Seq(URLPieces) /\ <<"q">> \in Seq(URLPieces) /\ <<"host", "%">> \in Seq(URLPieces)
    <2>1. "q" \in URLPieces /\ "host" \in URLPieces /\ "%" \in URLPieces
      BY DEF URLPieces
    <2>2. QED
      BY <2>1
  <1>6. BaseURLs \subseteq Seq(URLPieces)
    <2>1. Paths \subseteq Seq(URLPieces)
      <3>1. Paths \subseteq Seq({"/", "p"})
        BY BoundsAssumption, BoundedIsSeq DEF Paths
      <3>2. {"/", "p"} \subseteq URLPieces
        BY DEF URLPieces
      <3>3. QED
        BY <3>1, <3>2, SeqMonotonic
    <2>2. \A s \in {<<>>, <<"http://">>, <<"https://">>} : s \in Seq(URLPieces)
      <3>1. "http://" \in URLPieces /\ "https://" \in URLPieces
        BY DEF URLPieces
      <3>2. /\ <<>> \in Seq(URLPieces) /\ <<"http://">> \in Seq(URLPieces)
            /\ <<"https://">> \in Seq(URLPieces)
        BY <3>1
      <3>3. QED
        BY <3>2, Zenon
    <2>3. <<"host">> \in Seq(URLPieces)
      <3>1. "host" \in URLPieces
        BY DEF URLPieces
      <3>2. QED
        BY <3>1
    <2>4. ASSUME NEW s \in Seq(URLPieces), NEW p \in Seq(URLPieces)
          PROVE  s \o <<"host">> \o p \in Seq(URLPieces)
      BY <2>3
    <2>5. ASSUME NEW s \in {<<>>, <<"http://">>, <<"https://">>}, NEW p \in Paths,
                 NEW url, url = s \o <<"host">> \o p
          PROVE  url \in Seq(URLPieces)
      BY <2>1, <2>2, <2>4, <2>5, Zenon
    <2>6. \A url \in BaseURLs : url \in Seq(URLPieces)
      BY <2>5 DEF BaseURLs
    <2>7. QED
      BY <2>6
  <1>7. client.base \in Seq(URLPieces)
    <2>1. client.base \in BaseURLs \cup {<<>>, <<"host", "%">>}
      BY <1>1
    <2>2. QED
      BY <1>5, <1>6, <2>1
  <1>8. client = [kind |-> client.kind, base |-> client.base,
                  policyPath |-> client.policyPath, options |-> client.options]
    BY <1>1
  <1>9. QED
    BY <1>2, <1>3, <1>4, <1>5, <1>7, <1>8

(* None of them is white space. *)
LEMMA PiecesAreInk == URLPieces \cap WhiteSpace = {}
PROOF
  BY DEF URLPieces, WhiteSpace

(* The constructors accept a base and a policy path. *)
Accepts(kind, raw, path) ==
    /\ raw # <<>>
    /\ kind = "opa" => path # <<>>
    /\ kind # "rfc7662" => ~ Contains(raw, "%")

(* They build a client exactly then. *)
LEMMA BuiltIs ==
    ASSUME NEW kind, NEW base, NEW path, NEW options
    PROVE  NewEndpoint(kind, base, path, options) =
               IF Accepts(kind, TrimSpace(base), TrimSpace(path))
               THEN [ok |-> TRUE,
                     url |-> endpointURL(kind, WithScheme(kind, TrimSpace(base)), TrimSpace(path)),
                     cfg |-> applyOptions(kind, options)]
               ELSE [ok |-> FALSE]
PROOF
  BY Zenon DEF NewEndpoint, Accepts

(* One that is built was accepted ... *)
LEMMA BuiltIsAccepted ==
    ASSUME NEW kind, NEW base, NEW path, NEW options, NewEndpoint(kind, base, path, options).ok
    PROVE  Accepts(kind, TrimSpace(base), TrimSpace(path))
PROOF
  <1>1. SUFFICES ASSUME ~ Accepts(kind, TrimSpace(base), TrimSpace(path)) PROVE FALSE
    OBVIOUS
  <1>2. NewEndpoint(kind, base, path, options) = [ok |-> FALSE]
    BY <1>1, BuiltIs, Zenon
  <1>3. QED
    BY <1>2

(* ... and has the URL and the configuration that follow from the arguments. *)
LEMMA BuiltHas ==
    ASSUME NEW kind, NEW base, NEW path, NEW options,
           Accepts(kind, TrimSpace(base), TrimSpace(path))
    PROVE  /\ NewEndpoint(kind, base, path, options).url =
                  endpointURL(kind, WithScheme(kind, TrimSpace(base)), TrimSpace(path))
           /\ NewEndpoint(kind, base, path, options).cfg = applyOptions(kind, options)
PROOF
  <1>1. PICK u, a : /\ u = endpointURL(kind, WithScheme(kind, TrimSpace(base)), TrimSpace(path))
                    /\ a = applyOptions(kind, options)
    OBVIOUS
  <1>2. NewEndpoint(kind, base, path, options) = [ok |-> TRUE, url |-> u, cfg |-> a]
    BY <1>1, BuiltIs, Zenon
  <1>3. QED
    BY <1>1, <1>2

(* The scheme is put in front once. *)
LEMMA SchemeOnce ==
    ASSUME NEW kind, NEW raw \in Seq(URLPieces), raw # <<>>, NEW s, s = WithScheme(kind, raw)
    PROVE  /\ s \in Seq(URLPieces) /\ s # <<>>
           /\ WithScheme(kind, s) = s
           /\ Last(s) = Last(raw)
           /\ Contains(s, "%") => Contains(raw, "%")
           /\ WithScheme(kind, Append(raw, "/")) = Append(s, "/")
PROOF
  <1>1. PICK n \in Nat : n = Len(raw) /\ n >= 1
    BY EmptySeq, LenProperties
  <1>2. "/" \in URLPieces
    BY DEF URLPieces
  <1>3. PICK r : r = Append(raw, "/")
    OBVIOUS
  <1>4. r \in Seq(URLPieces) /\ Len(r) = n + 1 /\ r[1] = raw[1]
    <2>1. 1 \in 1..n
      BY <1>1
    <2>2. QED
      BY <1>1, <1>2, <1>3, <2>1, AppendProperties
  <1>5. Head(raw) = raw[1] /\ Head(r) = raw[1]
    BY <1>1, <1>4
  <1>6. CASE Head(raw) \in URLSchemes
    BY <1>3, <1>5, <1>6 DEF WithScheme
  <1>7. CASE Head(raw) \notin URLSchemes
    <2>1. PICK d : d = DefaultScheme(kind)
      OBVIOUS
    <2>2. d \in URLSchemes /\ d \in URLPieces /\ d # "%"
      BY <2>1 DEF DefaultScheme, URLSchemes, URLPieces
    <2>3. s = <<d>> \o raw /\ WithScheme(kind, r) = <<d>> \o r
      BY <1>5, <1>7, <2>1 DEF WithScheme
    <2>4. /\ s \in Seq(URLPieces) /\ Len(s) = n + 1 /\ s[1] = d
          /\ \A i \in 1..n : s[i + 1] = raw[i]
      <3>1. <<d>> \in Seq(URLPieces)
        BY <2>2
      <3>2. QED
        BY <1>1, <2>3, <3>1
    <2>5. s # <<>> /\ Head(s) = d
      BY <1>1, <2>4
    <2>6. WithScheme(kind, s) = s
      BY <2>2, <2>5 DEF WithScheme
    <2>7. Last(s) = Last(raw)
      <3>1. n \in 1..n
        BY <1>1
      <3>2. QED
        BY <1>1, <2>4, <3>1 DEF Last
    <2>8. ASSUME Contains(s, "%") PROVE Contains(raw, "%")
      <3>1. PICK i \in 1..(n + 1) : s[i] = "%"
        BY <2>4, <2>8 DEF Contains
      <3>2. i # 1
        BY <2>2, <2>4, <3>1
      <3>3. PICK j \in 1..n : i = j + 1
        <4>1. i - 1 \in 1..n /\ i = (i - 1) + 1
          BY <3>2
        <4>2. QED
          BY <4>1
      <3>4. raw[j] = "%"
        BY <2>4, <3>1, <3>3
      <3>5. QED
        BY <1>1, <3>4 DEF Contains
    <2>9. <<d>> \o r = Append(s, "/")
      <3>1. PICK a, b : a = <<d>> \o r /\ b = Append(s, "/")
        OBVIOUS
      <3>2. /\ a \in Seq(URLPieces) /\ Len(a) = n + 2 /\ a[1] = d
            /\ \A i \in 1..(n + 1) : a[i + 1] = r[i]
        <4>1. <<d>> \in Seq(URLPieces)
          BY <2>2
        <4>2. QED
          BY <1>1, <1>4, <3>1, <4>1
      <3>3. /\ b \in Seq(URLPieces) /\ Len(b) = n + 2 /\ b[n + 2] = "/"
            /\ \A i \in 1..(n + 1) : b[i] = s[i]
        BY <1>1, <1>2, <2>4, <3>1, AppendProperties
      <3>4. r[n + 1] = "/" /\ \A i \in 1..n : r[i] = raw[i]
        BY <1>1, <1>2, <1>3, AppendProperties
      <3>5. ASSUME NEW i \in 1..(n + 2) PROVE a[i] = b[i]
        <4>1. CASE i = 1
          <5>1. 1 \in 1..(n + 1)
            OBVIOUS
          <5>2. QED
            BY <2>4, <3>2, <3>3, <4>1, <5>1
        <4>2. CASE i = n + 2
          <5>1. n + 1 \in 1..(n + 1) /\ (n + 1) + 1 = n + 2
            OBVIOUS
          <5>2. a[(n + 1) + 1] = r[n + 1]
            BY <3>2, <5>1
          <5>3. QED
            BY <3>3, <3>4, <4>2, <5>1, <5>2
        <4>3. CASE i # 1 /\ i # n + 2
          <5>1. PICK j \in 1..n : i = j + 1
            <6>1. i - 1 \in 1..n /\ i = (i - 1) + 1
              BY <4>3
            <6>2. QED
              BY <6>1
          <5>2. j \in 1..(n + 1) /\ j + 1 \in 1..(n + 1)
            OBVIOUS
          <5>3. a[j + 1] = raw[j] /\ b[j + 1] = raw[j]
            BY <2>4, <3>2, <3>3, <3>4, <5>2
          <5>4. QED
            BY <5>1, <5>3
        <4>4. QED
          BY <4>1, <4>2, <4>3
      <3>6. a = b
        BY <3>2, <3>3, <3>5, SeqEqual
      <3>7. QED
        BY <3>1, <3>6
    <2>10. QED
      BY <1>3, <2>3, <2>4, <2>5, <2>6, <2>7, <2>8, <2>9
  <1>8. QED
    BY <1>6, <1>7

(* A slash at the end of a base is the same as none. *)
LEMMA SlashIsTrimmed ==
    ASSUME NEW S, "/" \in S, NEW s \in Seq(S), s # <<>>, Last(s) # "/"
    PROVE  TrimSuffix(Append(s, "/"), "/") = TrimSuffix(s, "/")
PROOF
  <1>1. IsSuffix(<<"/">>, Append(s, "/")) /\ Front(Append(s, "/")) = s
    BY TrimAppended, Zenon
  <1>2. ~ IsSuffix(<<"/">>, s)
    BY SuffixIsLast, Zenon
  <1>3. QED
    BY <1>1, <1>2, Zenon DEF TrimSuffix

(* A client with another base and policy path. *)
LEMMA SpelledIs ==
    ASSUME NEW client \in Clients, NEW base, NEW path
    PROVE  Built([client EXCEPT !.base = base, !.policyPath = path]) =
               NewEndpoint(client.kind, base, path, client.options)
PROOF
  <1>1. PICK k, b, p, o : client = [kind |-> k, base |-> b, policyPath |-> p, options |-> o]
    <2>1. client = [kind |-> client.kind, base |-> client.base,
                    policyPath |-> client.policyPath, options |-> client.options]
      BY ClientsType
    <2>2. QED
      BY <2>1
  <1>2. PICK c : c = [client EXCEPT !.base = base, !.policyPath = path]
    OBVIOUS
  <1>3. c.kind = k /\ c.base = base /\ c.policyPath = path /\ c.options = o
    BY <1>1, <1>2
  <1>4. client.kind = k /\ client.options = o
    BY <1>1
  <1>5. Built(c) = NewEndpoint(k, base, path, o)
    BY <1>3, Zenon DEF Built
  <1>6. QED
    BY <1>2, <1>4, <1>5, Zenon

(* A base URL may be written with or without white space around it, the    *)
(* default scheme and a slash at its end, and the policy path of OPA with  *)
(* or without a slash in front, for paths of any length: the client talks  *)
(* to the same URL.                                                        *)
THEOREM OneURLPerBaseAlways == Spec => []OneURLPerBase
PROOF
  <1>1. Inv => OneURLPerBase
    <2> DEFINE Spelled(b, p) == Built([subject EXCEPT !.base = b, !.policyPath = p]).url
    <2>1. SUFFICES ASSUME Inv, topic = "client", Built(subject).ok
                   PROVE  /\ Spelled(<<" ">> \o subject.base \o <<"\t">>, subject.policyPath) =
                                 Built(subject).url
                          /\ Spelled(WithScheme(subject.kind, subject.base), subject.policyPath) =
                                 Built(subject).url
                          /\ subject.kind # "rfc7662" /\ Last(subject.base) # "/" =>
                                 Spelled(Append(subject.base, "/"), subject.policyPath) =
                                     Built(subject).url
                          /\ \/ Spelled(subject.base, <<"/">> \o subject.policyPath) =
                                    Built(subject).url
                             \/ subject.policyPath = <<>>
      BY Zenon DEF OneURLPerBase
    <2>2. subject \in Clients
      BY <2>1 DEF Inv
    <2>3. PICK kind \in ClientKinds, base \in Seq(URLPieces), path \in Seq(URLPieces),
               options \in Seq(OptionCalls(subject.kind)) :
              /\ kind = subject.kind /\ base = subject.base /\ path = subject.policyPath
              /\ options = subject.options
              /\ path = <<>> \/ path = <<"q">>
      BY <2>2, ClientsType, Zenon
    <2> DEFINE URL(b, p) == NewEndpoint(kind, b, p, options).url
               url(raw, p) == endpointURL(kind, WithScheme(kind, raw), p)
    <2>4. Built(subject) = NewEndpoint(kind, base, path, options)
      BY <2>3, Zenon DEF Built
    <2>5. \A b, p : Spelled(b, p) = URL(b, p)
      BY <2>2, <2>3, SpelledIs, Zenon
    <2>6. TrimSpace(base) = base /\ TrimSpace(path) = path
      BY PiecesAreInk, TrimInk, Zenon
    <2>7. Accepts(kind, base, path)
      <3>1. Accepts(kind, TrimSpace(base), TrimSpace(path))
        BY <2>1, <2>4, BuiltIsAccepted, Zenon
      <3>2. QED
        BY <2>6, <3>1, Zenon
    <2>8. ASSUME NEW b, NEW p, Accepts(kind, TrimSpace(b), TrimSpace(p))
           PROVE  URL(b, p) = url(TrimSpace(b), TrimSpace(p))
      <3> HIDE DEF URL, url
      <3>1. NewEndpoint(kind, b, p, options).url =
                endpointURL(kind, WithScheme(kind, TrimSpace(b)), TrimSpace(p))
        BY <2>8, BuiltHas
      <3>2. QED
        BY <3>1, Zenon DEF URL, url
    <2> HIDE DEF Spelled, URL, url
    <2>9. URL(base, path) = url(base, path)
      BY <2>6, <2>7, <2>8
    <2>10. base # <<>>
      BY <2>7 DEF Accepts
    <2>11. URL(<<" ">> \o base \o <<"\t">>, path) = URL(base, path)
      <3>1. " " \in WhiteSpace /\ "\t" \in WhiteSpace
        BY Zenon DEF WhiteSpace
      <3>2. TrimSpace(<<" ">> \o base \o <<"\t">>) = base
        BY <2>10, <3>1, PiecesAreInk, TrimAround, Zenon
      <3>3. QED
        BY <2>6, <2>7, <2>8, <2>9, <3>2
    <2>12. PICK s : s = WithScheme(kind, base)
      OBVIOUS
    <2>13. /\ s \in Seq(URLPieces) /\ s # <<>> /\ WithScheme(kind, s) = s
           /\ Last(s) = Last(base)
           /\ Contains(s, "%") => Contains(base, "%")
           /\ WithScheme(kind, Append(base, "/")) = Append(s, "/")
      BY <2>10, <2>12, SchemeOnce
    <2>14. URL(s, path) = URL(base, path)
      <3>1. TrimSpace(s) = s
        BY <2>13, PiecesAreInk, TrimInk, Zenon
      <3>2. Accepts(kind, s, path)
        BY <2>7, <2>13, Zenon DEF Accepts
      <3>3. URL(s, path) = url(s, path)
        BY <2>6, <3>1, <3>2, <2>8
      <3>4. QED
        BY <2>12, <2>13, <2>9, <3>3, Zenon DEF url
    <2>15. ASSUME kind # "rfc7662", Last(base) # "/"
           PROVE  URL(Append(base, "/"), path) = URL(base, path)
      <3>1. PICK r : r = Append(base, "/")
        OBVIOUS
      <3>2. "/" \in URLPieces
        BY DEF URLPieces
      <3>3. /\ r \in Seq(URLPieces) /\ Len(r) = Len(base) + 1 /\ r[Len(base) + 1] = "/"
            /\ \A i \in 1..Len(base) : r[i] = base[i]
        BY <3>1, <3>2, AppendProperties
      <3>4. r # <<>> /\ (Contains(r, "%") => Contains(base, "%"))
        <4>1. PICK n \in Nat : n = Len(base)
          BY LenProperties
        <4>2. r # <<>>
          BY <3>3, <4>1
        <4>3. ASSUME Contains(r, "%") PROVE Contains(base, "%")
          <5>1. PICK i \in 1..(n + 1) : r[i] = "%"
            BY <3>3, <4>1, <4>3 DEF Contains
          <5>2. i # n + 1
            BY <3>3, <4>1, <5>1
          <5>3. i \in 1..n
            BY <5>2
          <5>4. base[i] = "%"
            BY <3>3, <4>1, <5>1, <5>3
          <5>5. QED
            BY <4>1, <5>3, <5>4 DEF Contains
        <4>4. QED
          BY <4>2, <4>3
      <3>5. TrimSpace(r) = r
        BY <3>3, PiecesAreInk, TrimInk, Zenon
      <3>6. Accepts(kind, r, path)
        BY <2>7, <3>4, Zenon DEF Accepts
      <3>7. URL(r, path) = url(r, path)
        BY <2>6, <2>8, <3>5, <3>6
      <3>8. WithScheme(kind, r) = Append(s, "/")
        BY <2>13, <3>1
      <3>9. TrimSuffix(Append(s, "/"), "/") = TrimSuffix(s, "/")
        <4>1. Last(s) # "/"
          BY <2>13, <2>15
        <4>2. QED
          BY <2>13, <3>2, <4>1, SlashIsTrimmed
      <3>10. endpointURL(kind, Append(s, "/"), path) = endpointURL(kind, s, path)
        <4>1. CASE kind = "rest"
          BY <3>9, <4>1, Zenon DEF endpointURL, restURL
        <4>2. CASE kind = "opa"
          BY <3>9, <4>2, Zenon DEF endpointURL, opaURL
        <4>3. CASE kind = "cedar"
          BY <3>9, <4>3, Zenon DEF endpointURL, cedarURL
        <4>4. QED
          BY <2>15, <4>1, <4>2, <4>3, Zenon DEF ClientKinds
      <3>11. QED
        BY <2>12, <2>9, <3>1, <3>7, <3>8, <3>10, Zenon DEF url
    <2>16. ASSUME path # <<>> PROVE URL(base, <<"/">> \o path) = URL(base, path)
      <3>1. PICK w : w = <<"/">> \o path
        OBVIOUS
      <3>2. "/" \in URLPieces
        BY DEF URLPieces
      <3>3. w \in Seq(URLPieces) /\ w # <<>>
        <4>1. <<"/">> \in Seq(URLPieces)
          BY <3>2
        <4>2. w \in Seq(URLPieces) /\ Len(w) = 1 + Len(path) /\ Len(path) \in Nat
          BY <3>1, <4>1, LenProperties
        <4>3. QED
          BY <4>2
      <3>4. TrimSpace(w) = w
        BY <3>3, PiecesAreInk, TrimInk, Zenon
      <3>5. Accepts(kind, base, w)
        BY <2>7, <3>3, Zenon DEF Accepts
      <3>6. URL(base, w) = url(base, w)
        BY <2>6, <2>8, <3>4, <3>5
      <3>7. TrimPrefix(w, "/") = path
        BY <3>1, <3>2, TrimPrefixOf, Zenon
      <3>8. TrimPrefix(path, "/") = path
        <4>1. path = <<"q">>
          BY <2>3, <2>16
        <4>2. ~ IsPrefix(<<"/">>, <<"q">>)
          <5>1. "q" \in URLPieces
            BY DEF URLPieces
          <5>2. /\ <<"q">> \in Seq(URLPieces) /\ Len(<<"q">>) = 1 /\ <<"q">>[1] = "q"
                /\ <<"/">> \in Seq(URLPieces) /\ Len(<<"/">>) = 1 /\ <<"/">>[1] = "/"
            BY <3>2, <5>1
          <5>3. Len(<<"q">>) >= 1 /\ Len(<<"/">>) >= 1
            BY <5>2
          <5>4. SubSeq(<<"q">>, 1, 1) = <<"q">> /\ SubSeq(<<"/">>, 1, 1) = <<"/">>
            BY <3>2, <5>1, <5>2, <5>3, FirstOf, Zenon
          <5>5. <<"q">> # <<"/">>
            OBVIOUS
          <5>6. QED
            BY <5>2, <5>4, <5>5, Zenon DEF IsPrefix
        <4>3. QED
          BY <4>1, <4>2, Zenon DEF TrimPrefix
      <3>9. endpointURL(kind, s, w) = endpointURL(kind, s, path)
        <4>1. CASE kind = "opa"
          BY <3>7, <3>8, <4>1, Zenon DEF endpointURL, opaURL
        <4>2. CASE kind = "rest"
          BY <4>2, Zenon DEF endpointURL
        <4>3. CASE kind = "cedar"
          BY <4>3, Zenon DEF endpointURL
        <4>4. CASE kind = "rfc7662"
          BY <4>4, Zenon DEF endpointURL
        <4>5. QED
          BY <4>1, <4>2, <4>3, <4>4, Zenon DEF ClientKinds
      <3>10. QED
        BY <2>12, <2>9, <3>1, <3>6, <3>9, Zenon DEF url
    <2>17. Built(subject).url = URL(base, path)
      BY <2>4 DEF URL
    <2>18. QED
      BY <2>3, <2>5, <2>11, <2>12, <2>14, <2>15, <2>16, <2>17, Zenon
  <1>2. QED
    BY <1>1, InvHolds, PTL

(* A client that is built has bounds on time and size, a principal         *)
(* resolver, and its own authentication unless WithSelfIntrospect was the  *)
(* last option for it, for any number of options.                          *)
THEOREM ClientIsAlwaysBounded == Spec => []ClientIsBounded
PROOF
  <1>1. Inv => ClientIsBounded
    <2>1. SUFFICES ASSUME Inv, topic = "client", Built(subject).ok,
                          \A o \in ToSet(subject.options) : ~ Panics(subject.kind, o),
                          NEW cfg, cfg = Built(subject).cfg,
                          NEW auths, auths = {i \in DOMAIN subject.options :
                                                  subject.options[i].field = "auth"}
                   PROVE  /\ cfg.timeout = "positive" /\ cfg.maxResponseBodySize = "positive"
                          /\ subject.kind = "cedar" => cfg.principalResolver # ""
                          /\ subject.kind = "rfc7662" =>
                              (cfg.auth = "self" <=>
                                  auths # {} /\ subject.options[Max(auths)].value = "self")
      BY Zenon DEF ClientIsBounded
    <2>2. PICK kind \in ClientKinds, options \in Seq(OptionCalls(subject.kind)) :
              kind = subject.kind /\ options = subject.options
      BY <2>1, ClientsType, Zenon DEF Inv
    <2>3. PICK base, path : base = subject.base /\ path = subject.policyPath
      OBVIOUS
    <2>4. cfg = applyOptions(kind, options)
      <3>1. Built(subject) = NewEndpoint(kind, base, path, options)
        BY <2>2, <2>3, Zenon DEF Built
      <3>2. Accepts(kind, TrimSpace(base), TrimSpace(path))
        BY <2>1, <3>1, BuiltIsAccepted, Zenon
      <3>3. NewEndpoint(kind, base, path, options).cfg = applyOptions(kind, options)
        BY <3>2, BuiltHas, Zenon
      <3>4. QED
        BY <2>1, <3>1, <3>3, Zenon
    <2>5. Len(options) \in Nat /\ DOMAIN options = 1..Len(options)
      BY LenProperties
    <2>6. \A i \in 1..Len(options) : ~ Panics(kind, options[i])
      BY <2>1, <2>2, <2>5 DEF ToSet
    <2>7. Bounded(kind, options, Len(options), cfg)
      BY <2>2, <2>4, <2>6, OptionsBound
    <2>8. auths \in SUBSET (1..Len(options))
      BY <2>1, <2>2, <2>5
    <2>9. \A i \in 1..Len(options) : i \in auths <=> options[i].field = "auth"
      BY <2>1, <2>2, <2>5
    <2>10. SelfIsLast(options, Len(options)) <=> auths # {} /\ options[Max(auths)].value = "self"
      <3>1. ASSUME auths # {}, options[Max(auths)].value = "self"
            PROVE  SelfIsLast(options, Len(options))
        <4>1. Max(auths) \in auths /\ \A x \in auths : x <= Max(auths)
          BY <2>5, <2>8, <3>1, MaxIsLargest
        <4>2. PICK m \in 1..Len(options) : m = Max(auths)
          BY <2>8, <4>1
        <4>3. options[m].field = "auth" /\ options[m].value = "self"
          BY <2>9, <3>1, <4>1, <4>2
        <4>4. ASSUME NEW j \in (m + 1)..Len(options) PROVE options[j].field # "auth"
          <5>1. j \in 1..Len(options) /\ ~ (j <= m)
            BY <2>5
          <5>2. j \notin auths
            BY <4>1, <4>2, <5>1
          <5>3. QED
            BY <2>9, <5>1, <5>2
        <4>5. QED
          BY <4>3, <4>4 DEF SelfIsLast
      <3>2. ASSUME SelfIsLast(options, Len(options))
            PROVE  auths # {} /\ options[Max(auths)].value = "self"
        <4>1. PICK i \in 1..Len(options) :
                  /\ options[i].field = "auth" /\ options[i].value = "self"
                  /\ \A j \in (i + 1)..Len(options) : options[j].field # "auth"
          BY <3>2 DEF SelfIsLast
        <4>2. i \in auths
          BY <2>9, <4>1
        <4>3. Max(auths) \in auths /\ \A x \in auths : x <= Max(auths)
          BY <2>5, <2>8, <4>2, MaxIsLargest
        <4>4. PICK m \in 1..Len(options) : m = Max(auths)
          BY <2>8, <4>3
        <4>5. m \notin (i + 1)..Len(options) /\ i <= m
          BY <2>9, <4>1, <4>2, <4>3, <4>4
        <4>6. m = i
          BY <2>5, <4>5
        <4>7. QED
          BY <4>1, <4>2, <4>4, <4>6
      <3>3. QED
        BY <3>1, <3>2
    <2>11. QED
      BY <2>2, <2>7, <2>10 DEF Bounded
  <1>2. QED
    BY <1>1, InvHolds, PTL

-----------------------------------------------------------------------------
(* Loggers *)

(* What a handler around another one and what a derivation do; the first   *)
(* argument does not matter.                                               *)
Wrap(x, h, key) == NewRequestIDHandler(h, key)
Derive(x, h, d) == IF d = "attrs" THEN WithAttrs(h) ELSE WithGroup(h, "g")

Wrapping == INSTANCE FoldProofs WITH Op <- Wrap
Deriving == INSTANCE FoldProofs WITH Op <- Derive

(* A logger is wrapped and derived one step after the other. *)
LEMMA LoggerTurns ==
    ASSUME NEW S, NEW T, NEW logger, logger.keys \in Seq(S), logger.derived \in Seq(T)
    PROVE  /\ \E acc : /\ Wrapping!IsRun(0, BaseHandler, logger.keys, acc)
                       /\ Wrapped(logger) = acc[Len(logger.keys)]
           /\ \E acc : /\ Deriving!IsRun(0, Wrapped(logger), logger.derived, acc)
                       /\ Derived(logger) = acc[Len(logger.derived)]
PROOF
  <1>1. Wrapped(logger) = Wrapping!Folded(0, BaseHandler, logger.keys)
    BY DEF Wrapped, FoldLeft, MapThenFoldSet, Max, Wrap,
           Wrapping!Folded, Wrapping!Fold, Wrapping!IsFold, Wrapping!Turn, Wrapping!Max
  <1>2. Derived(logger) = Deriving!Folded(0, Wrapped(logger), logger.derived)
    BY DEF Derived, FoldLeft, MapThenFoldSet, Max, Derive,
           Deriving!Folded, Deriving!Fold, Deriving!IsFold, Deriving!Turn, Deriving!Max
  <1>3. QED
    BY <1>1, <1>2, Wrapping!FoldTurns, Deriving!FoldTurns

(* A handler without groups whose keys are the first k of these, the last  *)
(* one first.                                                              *)
HasKeys(h, keys, k, S) ==
    \E s \in Seq(S) : /\ h = [keys |-> s, groups |-> <<>>]
                      /\ Len(s) = k /\ \A i \in 1..k : s[i] = keys[k + 1 - i]

(* Wrapping puts all keys into the handler, each once. *)
LEMMA WrappedHasKeys ==
    ASSUME NEW S, NEW keys \in Seq(S), NEW acc, Wrapping!IsRun(0, BaseHandler, keys, acc)
    PROVE  HasKeys(acc[Len(keys)], keys, Len(keys), S)
PROOF
  <1> DEFINE N == {k \in Nat : k <= Len(keys) => HasKeys(acc[k], keys, k, S)}
  <1>0. Len(keys) \in Nat
    BY LenProperties
  <1>1. 0 \in N
    <2>1. acc[0] = [keys |-> <<>>, groups |-> <<>>]
      BY DEF Wrapping!IsRun, BaseHandler
    <2>2. <<>> \in Seq(S) /\ Len(<<>>) = 0 /\ \A i \in 1..0 : <<>>[i] = keys[0 + 1 - i]
      BY EmptySeq
    <2>3. HasKeys(acc[0], keys, 0, S)
      BY <2>1, <2>2, Zenon DEF HasKeys
    <2>4. QED
      BY <2>3
  <1>2. ASSUME NEW k \in Nat, k \in N PROVE k + 1 \in N
    <2>1. SUFFICES ASSUME k + 1 <= Len(keys) PROVE HasKeys(acc[k + 1], keys, k + 1, S)
      OBVIOUS
    <2>2. k \in 0..(Len(keys) - 1) /\ k + 1 \in 1..Len(keys)
      BY <1>0, <2>1
    <2>3. HasKeys(acc[k], keys, k, S)
      BY <1>0, <1>2, <2>2
    <2>4. PICK s \in Seq(S) : /\ acc[k] = [keys |-> s, groups |-> <<>>]
                              /\ Len(s) = k /\ \A i \in 1..k : s[i] = keys[k + 1 - i]
      BY <2>3 DEF HasKeys
    <2>5. PICK e \in S : e = keys[k + 1]
      BY <2>2, ElementOfSeq
    <2>6. acc[k + 1] = NewRequestIDHandler(acc[k], e)
      BY <2>2, <2>5 DEF Wrapping!IsRun, Wrap
    <2>7. PICK t : t = <<e>> \o s
      OBVIOUS
    <2>8. acc[k + 1] = [keys |-> t, groups |-> <<>>]
      <3>1. PICK h, g : h = acc[k] /\ g = <<>>
        OBVIOUS
      <3>2. h = [keys |-> s, groups |-> g]
        BY <2>4, <3>1
      <3>3. acc[k + 1] = [h EXCEPT !.keys = <<e>> \o h.keys]
        BY <2>6, <3>1 DEF NewRequestIDHandler
      <3>4. acc[k + 1] = [h EXCEPT !.keys = t]
        BY <2>7, <3>2, <3>3
      <3>5. acc[k + 1] = [keys |-> t, groups |-> g]
        BY <3>2, <3>4
      <3>6. QED
        BY <3>1, <3>5
    <2>9. /\ t \in Seq(S) /\ Len(t) = Len(s) + 1 /\ t[1] = e /\ Len(s) \in Nat
          /\ \A i \in 1..Len(s) : t[i + 1] = s[i]
      <3>1. <<e>> \in Seq(S)
        OBVIOUS
      <3>2. QED
        BY <2>7, <3>1, LenProperties
    <2>10. ASSUME NEW i \in 1..(k + 1) PROVE t[i] = keys[(k + 1) + 1 - i]
      <3>1. CASE i = 1
        <4>1. (k + 1) + 1 - i = k + 1
          BY <3>1
        <4>2. QED
          BY <2>5, <2>9, <3>1, <4>1
      <3>2. CASE i # 1
        <4>1. PICK j \in 1..k : i = j + 1 /\ (k + 1) + 1 - i = k + 1 - j
          <5>1. i - 1 \in 1..k /\ i = (i - 1) + 1 /\ (k + 1) + 1 - i = k + 1 - (i - 1)
            BY <3>2
          <5>2. QED
            BY <5>1
        <4>2. QED
          BY <2>4, <2>9, <4>1
      <3>3. QED
        BY <3>1, <3>2
    <2>11. Len(t) = k + 1
      BY <2>4, <2>9
    <2>12. QED
      BY <2>8, <2>9, <2>10, <2>11, Zenon DEF HasKeys
  <1>3. Nat \subseteq N
    <2> HIDE DEF N
    <2>1. QED
      BY <1>1, <1>2, Induction
  <1>4. QED
    BY <1>0, <1>3

(* The groups opened by the first k derivations. *)
Opened(derived, k) == {i \in 1..k : derived[i] = "group"}
Nested(n) == [i \in 1..n |-> "g"]

(* One group more. *)
LEMMA NestedAppend ==
    ASSUME NEW n \in Nat
    PROVE  Append(Nested(n), "g") = Nested(n + 1)
PROOF
  <1>1. PICK s : s = Nested(n)
    OBVIOUS
  <1>2. PICK t : t = Nested(n + 1)
    OBVIOUS
  <1>3. s \in Seq({"g"}) /\ Len(s) = n /\ \A i \in 1..n : s[i] = "g"
    BY <1>1 DEF Nested
  <1>4. t \in Seq({"g"}) /\ Len(t) = n + 1 /\ \A i \in 1..(n + 1) : t[i] = "g"
    BY <1>2 DEF Nested
  <1>5. PICK a : a = Append(s, "g")
    OBVIOUS
  <1>6. a \in Seq({"g"}) /\ Len(a) = n + 1
    BY <1>3, <1>5
  <1>7. \A i \in 1..(n + 1) : a[i] = "g"
    BY <1>6, ElementOfSeq
  <1>8. a = t
    BY <1>4, <1>6, <1>7, SeqEqual
  <1>9. QED
    BY <1>1, <1>2, <1>5, <1>8

(* The number of groups grows with the groups. *)
LEMMA OpenedGrows ==
    ASSUME NEW derived, NEW k \in Nat
    PROVE  /\ Cardinality(Opened(derived, 0)) = 0
           /\ Cardinality(Opened(derived, k)) \in Nat
           /\ derived[k + 1] # "group" => Opened(derived, k + 1) = Opened(derived, k)
           /\ derived[k + 1] = "group" =>
                  Cardinality(Opened(derived, k + 1)) = Cardinality(Opened(derived, k)) + 1
PROOF
  <1>1. Opened(derived, 0) = {}
    BY DEF Opened
  <1>2. \A i : i \in 1..(k + 1) <=> i = k + 1 \/ i \in 1..k
    OBVIOUS
  <1>3. IsFiniteSet(Opened(derived, k))
    <2>1. IsFiniteSet(1..k)
      BY FS_Interval
    <2>2. Opened(derived, k) \subseteq 1..k
      BY DEF Opened
    <2>3. QED
      BY <2>1, <2>2, FS_Subset
  <1>4. derived[k + 1] # "group" => Opened(derived, k + 1) = Opened(derived, k)
    BY <1>2 DEF Opened
  <1>5. ASSUME derived[k + 1] = "group"
        PROVE  Cardinality(Opened(derived, k + 1)) = Cardinality(Opened(derived, k)) + 1
    <2>1. Opened(derived, k + 1) = Opened(derived, k) \cup {k + 1}
      BY <1>2, <1>5 DEF Opened
    <2>2. k + 1 \notin Opened(derived, k)
      <3>1. k + 1 \notin 1..k
        OBVIOUS
      <3>2. QED
        BY <3>1 DEF Opened
    <2>3. QED
      BY <1>3, <2>1, <2>2, FS_AddElement
  <1>6. QED
    BY <1>1, <1>3, <1>4, <1>5, FS_EmptySet, FS_CardinalityType

(* Deriving keeps the keys of a handler and nests the groups. *)
LEMMA DerivedKeepsKeys ==
    ASSUME NEW T, NEW derived \in Seq(T), T \subseteq {"attrs", "group"}, NEW base, NEW keys,
           base = [keys |-> keys, groups |-> Nested(0)],
           NEW acc, Deriving!IsRun(0, base, derived, acc)
    PROVE  acc[Len(derived)] =
               [keys |-> keys, groups |-> Nested(Cardinality(Opened(derived, Len(derived))))]
PROOF
  <1> DEFINE h(k) == [keys |-> keys, groups |-> Nested(Cardinality(Opened(derived, k)))]
             N == {k \in Nat : k <= Len(derived) => acc[k] = h(k)}
  <1>0. Len(derived) \in Nat
    BY LenProperties
  <1>1. 0 \in N
    <2>1. acc[0] = base /\ Cardinality(Opened(derived, 0)) = 0
      BY OpenedGrows DEF Deriving!IsRun
    <2>2. QED
      BY <2>1
  <1>2. ASSUME NEW k \in Nat, k \in N PROVE k + 1 \in N
    <2>1. SUFFICES ASSUME k + 1 <= Len(derived) PROVE acc[k + 1] = h(k + 1)
      OBVIOUS
    <2>2. k \in 0..(Len(derived) - 1) /\ k + 1 \in 1..Len(derived)
      BY <1>0, <2>1
    <2>3. acc[k] = h(k)
      BY <1>0, <1>2, <2>2
    <2>4. acc[k + 1] = Derive(0, acc[k], derived[k + 1])
      BY <2>2 DEF Deriving!IsRun
    <2>5. derived[k + 1] = "attrs" \/ derived[k + 1] = "group"
      BY <2>2, ElementOfSeq
    <2>6. CASE derived[k + 1] = "attrs"
      <3>1. acc[k + 1] = acc[k]
        BY <2>4, <2>6 DEF Derive, WithAttrs
      <3>2. Opened(derived, k + 1) = Opened(derived, k)
        BY <2>6, OpenedGrows
      <3>3. QED
        BY <2>3, <3>1, <3>2
    <2>7. CASE derived[k + 1] = "group"
      <3>1. PICK n \in Nat, m \in Nat : /\ n = Cardinality(Opened(derived, k))
                                        /\ m = Cardinality(Opened(derived, k + 1)) /\ m = n + 1
        BY <2>7, OpenedGrows
      <3>2. PICK g, e : g = Nested(n) /\ e = acc[k]
        OBVIOUS
      <3>3. e = [keys |-> keys, groups |-> g]
        BY <2>3, <3>1, <3>2
      <3>4. acc[k + 1] = [e EXCEPT !.groups = Append(e.groups, "g")]
        BY <2>4, <2>7, <3>2 DEF Derive, WithGroup
      <3>5. PICK t : t = Append(g, "g")
        OBVIOUS
      <3>6. acc[k + 1] = [e EXCEPT !.groups = t]
        BY <3>3, <3>4, <3>5
      <3>7. acc[k + 1] = [keys |-> keys, groups |-> t]
        BY <3>3, <3>6
      <3>8. t = Nested(m)
        BY <3>1, <3>2, <3>5, NestedAppend
      <3>9. QED
        BY <3>1, <3>7, <3>8
    <2>8. QED
      BY <2>5, <2>6, <2>7
  <1>3. Nat \subseteq N
    <2> HIDE DEF N
    <2>1. QED
      BY <1>1, <1>2, Induction
  <1>4. QED
    BY <1>0, <1>3

(* A logger derived by With and WithGroup still adds the ID of the request *)
(* exactly once for every handler, the outermost first, inside the groups  *)
(* opened, for any number of handlers and derivations.                     *)
THEOREM DerivedLoggersAlwaysKeepID == Spec => []DerivedLoggersKeepID
PROOF
  <1>1. Inv => DerivedLoggersKeepID
    <2>1. SUFFICES ASSUME Inv, topic = "logger",
                          NEW groups, groups = {i \in DOMAIN subject.derived :
                                                    subject.derived[i] = "group"},
                          NEW path, path = [i \in 1..Cardinality(groups) |-> "g"],
                          NEW outermostFirst, outermostFirst = Reverse(subject.keys)
                   PROVE  /\ Handle(Derived(subject), <<"id">>) =
                                 [i \in DOMAIN outermostFirst |->
                                     [path |-> Append(path, outermostFirst[i]),
                                      value |-> <<"id">>]]
                          /\ Handle(Derived(subject), NoID) = <<>>
      BY Zenon DEF DerivedLoggersKeepID
    <2>2. PICK K, D : K = {DefaultKey, "trace-id"} /\ D = {"attrs", "group"}
      OBVIOUS
    <2>3. subject.keys \in Seq(K) /\ subject.derived \in Seq(D)
      <3>1. subject \in [keys : BoundedSeq(K, MaxOptions), derived : BoundedSeq(D, MaxOptions)]
        BY <2>1, <2>2 DEF Inv, Loggers
      <3>2. /\ BoundedSeq(K, MaxOptions) \subseteq Seq(K)
            /\ BoundedSeq(D, MaxOptions) \subseteq Seq(D)
        BY BoundsAssumption, BoundedIsSeq
      <3>3. QED
        BY <3>1, <3>2
    <2>4. PICK keys \in Seq(K), derived \in Seq(D) : keys = subject.keys /\ derived = subject.derived
      BY <2>3
    <2>5. HasKeys(Wrapped(subject), keys, Len(keys), K)
      <3>1. PICK acc : /\ Wrapping!IsRun(0, BaseHandler, keys, acc)
                       /\ Wrapped(subject) = acc[Len(keys)]
        BY <2>3, <2>4, LoggerTurns
      <3>2. QED
        BY <3>1, WrappedHasKeys
    <2>6. PICK s \in Seq(K) : /\ Wrapped(subject) = [keys |-> s, groups |-> <<>>]
                              /\ Len(s) = Len(keys)
                              /\ \A i \in 1..Len(keys) : s[i] = keys[Len(keys) + 1 - i]
      BY <2>5 DEF HasKeys
    <2>7. <<>> = Nested(0)
      BY DEF Nested
    <2>8. path = Nested(Cardinality(Opened(derived, Len(derived))))
      <3>1. DOMAIN derived = 1..Len(derived)
        BY LenProperties
      <3>2. groups = Opened(derived, Len(derived))
        BY <2>1, <2>4, <3>1 DEF Opened
      <3>3. QED
        BY <2>1, <3>2 DEF Nested
    <2>9. Derived(subject) = [keys |-> s, groups |-> path]
      <3>1. PICK acc : /\ Deriving!IsRun(0, Wrapped(subject), derived, acc)
                       /\ Derived(subject) = acc[Len(derived)]
        BY <2>3, <2>4, LoggerTurns
      <3>2. PICK base : base = Wrapped(subject) /\ base = [keys |-> s, groups |-> Nested(0)]
        BY <2>6, <2>7
      <3>3. D \subseteq {"attrs", "group"} /\ Deriving!IsRun(0, base, derived, acc)
        BY <2>2, <3>1, <3>2
      <3>4. acc[Len(derived)] =
                [keys |-> s, groups |-> Nested(Cardinality(Opened(derived, Len(derived))))]
        BY <3>2, <3>3, DerivedKeepsKeys
      <3>5. QED
        BY <2>8, <3>1, <3>4
    <2>10. outermostFirst = s
      <3>1. PICK n \in Nat : n = Len(keys)
        BY LenProperties
      <3>2. outermostFirst = [i \in 1..n |-> keys[(n - i) + 1]]
        BY <2>1, <2>4, <3>1, Zenon DEF Reverse
      <3>3. \A i \in 1..n : (n - i) + 1 = n + 1 - i
        OBVIOUS
      <3>4. \A i \in 1..n : keys[(n - i) + 1] = s[i]
        BY <2>6, <3>1, <3>3
      <3>5. outermostFirst = [i \in 1..n |-> s[i]]
        BY <3>2, <3>4
      <3>6. s = [i \in 1..n |-> s[i]]
        <4>1. Len(s) = n
          BY <2>6, <3>1
        <4>2. QED
          BY <4>1
      <3>7. QED
        BY <3>5, <3>6, Zenon
    <2>11. PICK h, id : h = Derived(subject) /\ id = <<"id">>
      OBVIOUS
    <2>12. h.keys = s /\ h.groups = path
      BY <2>9, <2>11
    <2>13. Handle(h, NoID) = <<>>
      BY Zenon DEF Handle
    <2>14. Handle(h, id) = [i \in DOMAIN s |-> [path |-> Append(path, s[i]), value |-> id]]
      <3>1. id # NoID
        BY <2>11 DEF NoID
      <3>2. Handle(h, id) = [i \in DOMAIN h.keys |->
                                [path |-> Append(h.groups, h.keys[i]), value |-> id]]
        BY <3>1, Zenon DEF Handle
      <3>3. QED
        BY <2>12, <3>2, Zenon
    <2>15. QED
      BY <2>10, <2>11, <2>13, <2>14, Zenon
  <1>2. QED
    BY <1>1, InvHolds, PTL
=============================================================================
