--------------------------- MODULE PolicyTemplate ---------------------------
(***************************************************************************)
(* Resolution of a declared policy against a request, the pure part of     *)
(* src/protobuf_policy_option/interceptor.go.                              *)
(*                                                                         *)
(* Texts are sequences of characters; what a number or a truth value reads *)
(* as is one piece.  A policy is a record of the resource template, the    *)
(* action and the field mappings, as in the message Policy of the schema;  *)
(* the placeholder of a mapping is a text, too.  A request says whether it *)
(* is a proto message and gives, for each field its message type has, the  *)
(* field's kind, whether it is a list or a map, and its value.             *)
(***************************************************************************)
EXTENDS Integers, Sequences, SequencesExt

Failed == [ok |-> FALSE]
Resolved(text) == [ok |-> TRUE, text |-> text]

IntKinds == {"int32", "sint32", "sfixed32", "int64", "sint64", "sfixed64"}
UintKinds == {"uint32", "uint64", "fixed32", "fixed64"}

(* The message Policy of the schema, with texts of the characters in T and *)
(* the action and the names of fields in F.                                *)
PolicyMessages(T, F) ==
    [resource : Seq(T), action : F,
     field_mappings : Seq([placeholder : Seq(T), request_field : F])]

-----------------------------------------------------------------------------
(* The text of a field.  A bytes value is [utf8, text, hex]: whether it is *)
(* valid UTF-8, and what it reads as in either case.                       *)

Digits(n) == <<ToString(n)>>     \* fmt.Sprintf("%d", n)

fieldText(f) ==
    CASE f.kind = "string" -> Resolved(f.value)
      [] f.kind = "bytes" -> Resolved(IF f.value.utf8 THEN f.value.text ELSE f.value.hex)
      [] f.kind \in IntKinds \cup UintKinds -> Resolved(Digits(f.value))
      [] f.kind = "bool" -> Resolved(<<IF f.value THEN "true" ELSE "false">>)
      [] OTHER -> Failed

extractFieldFromRequest(req, field) ==
    IF req.proto /\ field \in DOMAIN req.fields /\ ~ req.fields[field].repeated
    THEN fieldText(req.fields[field])
    ELSE Failed

(* What the fields of a request read as are texts of the characters in T. *)
HasTexts(req, T) ==
    \A field \in DOMAIN req.fields :
        LET answer == fieldText(req.fields[field])
        IN  answer.ok => answer.text \in Seq(T)

-----------------------------------------------------------------------------
(* Replacing parts of a text *)

(* The positions at which old, a text that is not empty, begins in text. *)
Occurrences(text, old) ==
    {i \in DOMAIN text : /\ i + Len(old) - 1 <= Len(text)
                         /\ \A k \in DOMAIN old : text[i + k - 1] = old[k]}

(* strings.Contains *)
Occurs(text, old) == Occurrences(text, old) # {}

(* The text in which, at each position i of DOMAIN cut, the next           *)
(* cut[i].length characters are replaced by cut[i].new.                    *)
Splice(text, cut) ==
    LET within(i) == \E j \in DOMAIN cut : j < i /\ i < j + cut[j].length
    IN  FlattenSeq([i \in DOMAIN text |->
            IF i \in DOMAIN cut THEN cut[i].new
            ELSE IF within(i) THEN <<>>
            ELSE <<text[i]>>])

(* strings.ReplaceAll goes from left to right: an occurrence is replaced   *)
(* unless it begins within one that is.                                    *)
Replaced(text, old) ==
    CHOOSE S \in SUBSET Occurrences(text, old) :
        \A i \in Occurrences(text, old) :
            i \in S <=> \A j \in S : ~ (j < i /\ i < j + Len(old))

ReplaceText(text, old, new) ==
    Splice(text, [i \in Replaced(text, old) |-> [length |-> Len(old), new |-> new]])

-----------------------------------------------------------------------------
(* The loop over the field mappings *)

(* fmt.Sprintf("<%s>", name) *)
Pattern(name) == <<"<">> \o name \o <<">">>

(* Slip: only the first occurrence is replaced. *)
applyMappingFirstOnly(req, acc, mapping) ==
    LET value == extractFieldFromRequest(req, mapping.request_field)
        placeholder == Pattern(mapping.placeholder)
        first == {Min(Occurrences(acc.text, placeholder))}
    IN  IF ~ acc.ok THEN acc
        ELSE IF mapping.placeholder = <<>> \/ mapping.request_field = "" THEN Failed
        ELSE IF ~ Occurs(acc.text, placeholder) THEN acc
        ELSE IF ~ value.ok THEN Failed
        ELSE Resolved(Splice(acc.text,
                [i \in first |-> [length |-> Len(placeholder), new |-> value.text]]))

(* Slip: the field is read before it is known to be needed. *)
applyMappingEager(req, acc, mapping) ==
    LET value == extractFieldFromRequest(req, mapping.request_field)
    IN  IF ~ acc.ok THEN acc
        ELSE IF ~ value.ok THEN Failed
        ELSE Resolved(ReplaceText(acc.text, Pattern(mapping.placeholder), value.text))

(* One turn of the loop. *)
applyMapping(req, acc, mapping) ==
    LET value == extractFieldFromRequest(req, mapping.request_field)
        placeholder == Pattern(mapping.placeholder)
    IN  IF ~ acc.ok THEN acc
        ELSE IF mapping.placeholder = <<>> \/ mapping.request_field = "" THEN Failed
        ELSE IF ~ Occurs(acc.text, placeholder) THEN acc
        ELSE IF ~ value.ok THEN Failed
        ELSE Resolved(ReplaceText(acc.text, placeholder, value.text))

resolveResourceFromRequest(policy, req) ==
    LET apply(acc, mapping) == applyMapping(req, acc, mapping)
    IN  IF policy.resource = <<>> \/ policy.action = ""
        THEN Failed
        ELSE FoldLeft(apply, Resolved(policy.resource), policy.field_mappings)

hasFieldMappings(policy) == policy.field_mappings # <<>>

-----------------------------------------------------------------------------
(* What the resolution is meant to be: every placeholder of the template   *)
(* is replaced, all at the same time, by the field its mapping names; of   *)
(* two mappings for one placeholder the first counts, and a mapping for a  *)
(* placeholder the template does not have is not read at all.              *)

MappingOf(policy, name) ==
    SelectInSeq(policy.field_mappings, LAMBDA m : m.placeholder = name)

Mapped(policy) ==
    {p \in {m.placeholder : m \in ToSet(policy.field_mappings)} :
        Occurs(policy.resource, Pattern(p))}

ValueFor(policy, req, p) ==
    extractFieldFromRequest(req, policy.field_mappings[MappingOf(policy, p)].request_field)

(* The text in which every placeholder in DOMAIN subst is replaced. *)
ReplaceEach(text, subst) ==
    LET At(p) == Occurrences(text, Pattern(p))
        cut(p) == [length |-> Len(Pattern(p)), new |-> subst[p]]
    IN  Splice(text, [i \in UNION {At(p) : p \in DOMAIN subst} |->
                         cut(CHOOSE p \in DOMAIN subst : i \in At(p))])

SimultaneousSubstitution(policy, req) ==
    ReplaceEach(policy.resource, [p \in Mapped(policy) |-> ValueFor(policy, req, p).text])

(* A policy that can be resolved for no request. *)
BrokenPolicy(policy) ==
    \/ policy.resource = <<>>
    \/ policy.action = ""
    \/ \E m \in ToSet(policy.field_mappings) : m.placeholder = <<>> \/ m.request_field = ""

(* The request has no usable value for a placeholder of the template. *)
Unresolvable(policy, req) == \E p \in Mapped(policy) : ~ ValueFor(policy, req, p).ok

(* Replacing one placeholder after the other can come to something else    *)
(* when brackets get together that do not belong together: those of a      *)
(* name, of a value or ones that stand alone in the template.              *)
Brackets == {"<", ">"}
IsPlain(text) == \A i \in DOMAIN text : text[i] \notin Brackets

PlainNames(policy) == \A m \in ToSet(policy.field_mappings) : IsPlain(m.placeholder)

PlainValues(policy, req) ==
    \A p \in Mapped(policy) : ValueFor(policy, req, p).ok => IsPlain(ValueFor(policy, req, p).text)

(* Brackets i and j stand around plain text. *)
Pair(text, i, j) ==
    /\ i < j /\ text[i] = "<" /\ text[j] = ">"
    /\ \A k \in i + 1 .. j - 1 : text[k] \notin Brackets

(* Every bracket belongs to a pair. *)
WellBracketed(text) ==
    /\ \A i \in DOMAIN text : text[i] = "<" => \E j \in DOMAIN text : Pair(text, i, j)
    /\ \A j \in DOMAIN text : text[j] = ">" => \E i \in DOMAIN text : Pair(text, i, j)

Plain(policy, req) ==
    PlainNames(policy) /\ PlainValues(policy, req) /\ WellBracketed(policy.resource)
=============================================================================
