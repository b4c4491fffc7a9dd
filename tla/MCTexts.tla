------------------------------- MODULE MCTexts -------------------------------
(***************************************************************************)
(* Model checking of the pure parts, each over all inputs of its bounds:   *)
(* the resolution of policy templates with the static endpoint, the two    *)
(* readings of the authorization header, the construction of the HTTP      *)
(* clients and the log handler.                                            *)
(***************************************************************************)
EXTENDS PolicyTemplate, AuthorizationHeader, StaticEndpoint, EndpointConfig, RequestTracking

CONSTANTS
    MaxTemplate,    \* bound on the parts of a resource template
    MaxMappings,    \* bound on the field mappings of a policy
    MaxHeader,      \* bound on the characters of a header
    MaxPath,        \* bound on the pieces of the path of a base URL
    MaxOptions      \* bound on the options of a client, on the handlers around each other
                    \* and on the derivations of a logger

ASSUME BoundsAssumption ==
    /\ MaxTemplate \in Nat /\ MaxMappings \in Nat
    /\ MaxHeader \in Nat /\ MaxPath \in Nat /\ MaxOptions \in Nat

VARIABLES
    topic,      \* which part is checked
    subject,    \* its input ...
    request     \* ... and, for a policy, the request

-----------------------------------------------------------------------------
(* Policies and requests *)

(* A template is put together from placeholders, text and brackets that    *)
(* belong to none.                                                         *)
Parts == {Pattern(<<"a">>), Pattern(<<"b">>), <<"t">>, <<"<">>, <<">">>}
Templates == {FlattenSeq(parts) : parts \in BoundedSeq(Parts, MaxTemplate)}
FieldNames == {"f", "g"}

Policies ==
    [resource : Templates,
     action : {"read", ""},
     field_mappings : BoundedSeq(
        [placeholder : {<<"a">>, <<"b">>}, request_field : FieldNames]
        \cup {[placeholder |-> <<>>, request_field |-> "f"],
              [placeholder |-> <<"a">>, request_field |-> ""]}, MaxMappings)]

(* A field of each behaviour: texts (an empty one, a bracket, one that     *)
(* reads like a placeholder), binary and readable bytes, a number, a list  *)
(* and a float.                                                            *)
FieldOf(kind, value) == [kind |-> kind, repeated |-> FALSE, value |-> value]
ListOf(kind, value) == [kind |-> kind, repeated |-> TRUE, value |-> value]
FieldValues ==
    {FieldOf("string", t) : t \in {<<>>, <<"t">>, <<"<">>, Pattern(<<"b">>)}}
    \cup {FieldOf("bytes", [utf8 |-> u, text |-> <<"t">>, hex |-> <<"ff">>]) : u \in BOOLEAN}
    \cup {FieldOf("int32", -1), FieldOf("double", 1), FieldOf("bool", TRUE)}
    \cup {ListOf("string", <<"t">>)}
OtherValues == {FieldOf("string", <<"u">>), FieldOf("string", <<">">>), FieldOf("double", 1)}

NotProto == [proto |-> FALSE, fields |-> [n \in {} |-> n]]
Requests ==
    {[proto |-> TRUE, fields |-> [n \in F |-> IF n = "f" THEN v ELSE w]] :
        F \in SUBSET FieldNames, v \in FieldValues, w \in OtherValues}

Result == resolveResourceFromRequest(subject, request)

(* Headers *)

HeaderValues == BoundedSeq({" ", "\t", ":", "B", "b"}, MaxHeader)
KeyOf(h) == cacheKey(h.scheme, h.credential)

(* The headers with which introspect gets to the cache, as it reads them *)
Readings == {h \in {parseAuthorization(value) : value \in HeaderValues} : h.scheme # <<>>}

(* Clients *)

Paths == BoundedSeq({"/", "p"}, MaxPath)
BaseURLs == {s \o <<"host">> \o p : s \in {<<>>, <<"http://">>, <<"https://">>}, p \in Paths}

(* Calls of the options of a client of this kind, with proper and improper arguments *)
OptionCalls(kind) ==
    {o \in [field : {"timeout", "maxResponseBodySize"}, value : {"negative", "zero", "positive"}]
            \cup [field : {"auth"}, value : {"", "client", "self"}]
            \cup [field : {"principalResolver"}, value : {"", "custom"}] :
        o.field \in DOMAIN Defaults(kind)}

Clients ==
    UNION {[kind : {k}, base : BaseURLs \cup {<<>>, <<"host", "%">>},
            policyPath : {<<>>, <<"q">>}, options : BoundedSeq(OptionCalls(k), MaxOptions)] :
                k \in ClientKinds}

Built(client) ==
    NewEndpoint(client.kind, client.base, client.policyPath, client.options)

(* Loggers: some handlers around the base, and the derivations from them *)
Loggers ==
    [keys : BoundedSeq({DefaultKey, "trace-id"}, MaxOptions),
     derived : BoundedSeq({"attrs", "group"}, MaxOptions)]

Wrapped(logger) == FoldLeft(NewRequestIDHandler, BaseHandler, logger.keys)
Derived(logger) ==
    FoldLeft(LAMBDA h, d : IF d = "attrs" THEN WithAttrs(h) ELSE WithGroup(h, "g"),
             Wrapped(logger), logger.derived)

-----------------------------------------------------------------------------

Init ==
    /\ request = NotProto
    /\ \/ topic = "policy" /\ subject \in Policies
       \/ topic = "header" /\ subject \in HeaderValues
       \/ topic = "client" /\ subject \in Clients
       \/ topic = "logger" /\ subject \in Loggers

Resolve(r) ==
    /\ topic = "policy" /\ request = NotProto
    /\ request' = r
    /\ UNCHANGED <<topic, subject>>

Next == \E r \in Requests : Resolve(r)
Spec == Init /\ [][Next]_<<topic, subject, request>>

-----------------------------------------------------------------------------
(* Properties *)

(* resolveResourceFromRequest replaces one placeholder after the other; as *)
(* long as no bracket comes from a name or a value or stands alone in the  *)
(* template, the result is that of replacing them all at once, in whatever *)
(* order the mappings are declared, with duplicates and unused mappings    *)
(* among them.                                                             *)
SequentialIsSimultaneous ==
    topic = "policy" /\ Result.ok /\ Plain(subject, request) =>
        Result.text = SimultaneousSubstitution(subject, request)

(* It fails for every policy that is broken and every request without a    *)
(* usable field for a placeholder that the template has, whatever the      *)
(* other values do to the text in between; and for nothing else, as long   *)
(* as the values have no brackets and those of the template come in pairs: *)
(* then a mapping that the template does not need never fails a call.      *)
FailsExactlyWhenItMust ==
    topic = "policy" =>
        LET must == BrokenPolicy(subject) \/ Unresolvable(subject, request)
        IN  /\ PlainNames(subject) /\ must => ~ Result.ok
            /\ Plain(subject, request) /\ ~ Result.ok => must

(* A static rule written for a template covers what the template resolves  *)
(* to: the text before the first bracket with a star behind it allows the  *)
(* resource of every request, whatever the fields hold, as long as it has  *)
(* something behind that text.                                             *)
RuleCoversTemplate ==
    topic = "policy" /\ Result.ok =>
        LET at == SelectInSeq(subject.resource, LAMBDA ch : ch = "<")
            head == IF at = 0 THEN subject.resource ELSE SubSeq(subject.resource, 1, at - 1)
            rule == [Resource |-> Append(head, "*"), Action |-> <<subject.action>>]
        IN  Len(Result.text) > Len(head) => Allows(<<rule>>, Result.text, <<subject.action>>)

(* The token that is verified is the credential that was introspected: for *)
(* every header that the introspection interceptor can accept, getToken    *)
(* finds a token too, of the same scheme, and it is the credential, or its *)
(* first word if white space divides it.                                   *)
ReadingsAgree ==
    topic = "header" =>
        LET h == parseAuthorization(subject)
            token == getToken(subject)
        IN  IsToken(h.scheme) =>
                /\ token.ok
                /\ ToLower(token.TokenType) = h.scheme
                /\ token.Value = Head(Fields(h.credential))

(* Two headers share a cache entry only if the scheme of one goes on, with *)
(* a colon, where that of the other ends, and what is added comes first in *)
(* the credential of the other: colons of a credential alone confuse       *)
(* nothing, and two schemes without a colon never share an entry.          *)
KeyTellsApart ==
    topic = "header" =>
        LET h == parseAuthorization(subject)
            more(g) == SubSeq(g.scheme, Len(h.scheme) + 2, Len(g.scheme))
            Extends(g) == /\ g.scheme = h.scheme \o <<":">> \o more(g)
                          /\ h.credential = more(g) \o <<":">> \o g.credential
        IN  h.scheme # <<>> =>
                \A g \in Readings :
                    KeyOf(g) = KeyOf(h) /\ Len(g.scheme) >= Len(h.scheme) => g = h \/ Extends(g)

(* A base URL may be written with or without white space around it, the    *)
(* default scheme and a slash at its end, and the policy path of OPA with  *)
(* or without a slash in front: the client talks to the same URL.          *)
OneURLPerBase ==
    topic = "client" /\ Built(subject).ok =>
        LET Spelled(base, path) ==
                Built([subject EXCEPT !.base = base, !.policyPath = path]).url
            url == Built(subject).url
            base == subject.base
            path == subject.policyPath
        IN  /\ Spelled(<<" ">> \o base \o <<"\t">>, path) = url
            /\ Spelled(WithScheme(subject.kind, base), path) = url
            /\ subject.kind # "rfc7662" /\ Last(base) # "/" => Spelled(Append(base, "/"), path) = url
            /\ Spelled(base, <<"/">> \o path) = url \/ path = <<>>

(* Whatever the options and their order, a client that is built gives up   *)
(* on an answer that does not come and on one that does not end (for an    *)
(* http.Client a timeout of zero means none), has a function wherever it   *)
(* calls one unasked, and uses the token under inspection as its own       *)
(* authentication only if WithSelfIntrospect was the last of the           *)
(* authentication options.                                                 *)
ClientIsBounded ==
    topic = "client" /\ Built(subject).ok
    /\ (\A o \in ToSet(subject.options) : ~ Panics(subject.kind, o)) =>
        LET cfg == Built(subject).cfg
            auths == {i \in DOMAIN subject.options : subject.options[i].field = "auth"}
        IN  /\ cfg.timeout = "positive" /\ cfg.maxResponseBodySize = "positive"
            /\ subject.kind = "cedar" => cfg.principalResolver # ""
            /\ subject.kind = "rfc7662" =>
                (cfg.auth = "self" <=> auths # {} /\ subject.options[Max(auths)].value = "self")

(* A logger derived by With and WithGroup, in any order, still adds the ID *)
(* of the request, exactly once for every NewRequestIDHandler, inside the  *)
(* groups opened; without an ID it adds nothing.                           *)
DerivedLoggersKeepID ==
    topic = "logger" =>
        LET groups == {i \in DOMAIN subject.derived : subject.derived[i] = "group"}
            path == [i \in 1 .. Cardinality(groups) |-> "g"]
            attribute(key) == [path |-> Append(path, key), value |-> <<"id">>]
            outermostFirst == Reverse(subject.keys)
        IN  /\ Handle(Derived(subject), <<"id">>) =
                   [i \in DOMAIN outermostFirst |-> attribute(outermostFirst[i])]
            /\ Handle(Derived(subject), NoID) = <<>>
=============================================================================
