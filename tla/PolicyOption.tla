---------------------------- MODULE PolicyOption ----------------------------
(***************************************************************************)
(* The policy option interceptors, src/protobuf_policy_option/             *)
(* interceptor.go: a call finds the policy its method declares, at first   *)
(* in the proto registry and from then on in a cache that the concurrent   *)
(* calls of one interceptor share, and hands the handler a context with    *)
(* the policy resolved against the call's own request.                     *)
(*                                                                         *)
(* The unary and the stream interceptor have a cache each, as they are two *)
(* closures.  The Load and the Store of the sync.Map are atomic; the       *)
(* lookup between them is not synchronised, so several first calls of a    *)
(* method may scan the registry and store the result one after the other.  *)
(*                                                                         *)
(* Descriptors register in init(), before a server starts: the registry is *)
(* constant.  A full method name is a sequence of slashes and names, as in *)
(* <<"/", "Posts", "/", "Get">>.                                           *)
(***************************************************************************)
EXTENDS PolicyTemplate

CONSTANTS
    Calls,          \* slots of concurrent calls
    Names,          \* full method names the server is called with
    Streaming,      \* those of Names that the stream interceptor handles
    Requests,       \* request messages
    Registry,       \* Registry[service][method]: the policy option, or nil
    nil

ASSUME StreamingAreNames == Streaming \subseteq Names

(* Names, requests and policies are what gRPC and the proto registry hold; *)
(* no method of a proto service has a slash in its name.                   *)
ASSUME RegistryAssumption ==
    /\ Names \subseteq Seq(STRING)
    /\ \A r \in Requests : HasTexts(r, STRING)
    /\ \A s \in DOMAIN Registry :
        /\ s \in Seq(STRING)
        /\ \A m \in DOMAIN Registry[s] :
            /\ m \in Seq(STRING \ {"/"})
            /\ Registry[s][m] \in PolicyMessages(STRING, STRING) \cup {nil}

VARIABLES
    cache,      \* cache[k][n]: the cachedPolicy of name n in interceptor k, or nil
    pc,         \* where call c is
    name,       \* name[c]: info.FullMethod
    req,        \* req[c]: the request
    found,      \* found[c]: what getMethodPolicy returns, [policy, err]
    ctx         \* ctx[c]: what the handler finds in its context

vars == <<cache, pc, name, req, found, ctx>>

Kinds == {"unary", "stream"}
RequestsOf(n) == IF n \in Streaming THEN {nil} ELSE Requests    \* none when a stream opens
KindOf(n) == IF n \in Streaming THEN "stream" ELSE "unary"

cachedPolicy(policy, err) == [policy |-> policy, err |-> err]
NoContext == [ran |-> FALSE, policy |-> nil]
markInterceptorRan(x) == [x EXCEPT !.ran = TRUE]
withPolicy(x, resource, action) ==
    [x EXCEPT !.policy = [resource |-> resource, action |-> action]]

Goto(c, label) == pc' = [pc EXCEPT ![c] = label]

Init ==
    /\ cache = [k \in Kinds |-> [n \in Names |-> nil]]
    /\ pc = [c \in Calls |-> "idle"]
    /\ name = [c \in Calls |-> nil]
    /\ req = [c \in Calls |-> nil]
    /\ found = [c \in Calls |-> nil]
    /\ ctx = [c \in Calls |-> NoContext]

-----------------------------------------------------------------------------
(* The registry *)

IsSlash(t) == t = "/"

(* The part before the last slash and the part after it, without the       *)
(* leading slash; nil for a name in another form.                          *)
parseFullMethodName(n) ==
    IF n = <<>> \/ n[1] # "/" \/ ~ Contains(Tail(n), "/")
    THEN nil
    ELSE LET last == SelectLastInSeq(Tail(n), IsSlash)
         IN  [service |-> SubSeq(Tail(n), 1, last - 1),
              method |-> SubSeq(Tail(n), last + 1, Len(Tail(n)))]

(* An unknown service, an unknown method and a method without the option   *)
(* all have no policy; only the form of the name is an error.  (The error  *)
(* for options that are no MethodOptions cannot come from the registry.)   *)
lookupMethodPolicy(n) ==
    LET mm == parseFullMethodName(n)
        declared == /\ mm.service \in DOMAIN Registry
                    /\ mm.method \in DOMAIN Registry[mm.service]
    IN  IF mm = nil
        THEN cachedPolicy(nil, TRUE)
        ELSE cachedPolicy(IF declared THEN Registry[mm.service][mm.method] ELSE nil, FALSE)

-----------------------------------------------------------------------------
(* A call *)

Begin(c, n, r) ==
    /\ pc[c] = "idle"
    /\ name' = [name EXCEPT ![c] = n]
    /\ req' = [req EXCEPT ![c] = r]
    /\ Goto(c, "load")
    /\ UNCHANGED <<cache, found, ctx>>

(* Slip: a miss taken for a cached "no policy". *)
LoadNoOK(c) ==
    /\ pc[c] = "load"
    /\ found' = [found EXCEPT ![c] = cache[KindOf(name[c])][name[c]]]
    /\ Goto(c, "resolve")
    /\ UNCHANGED <<cache, name, req, ctx>>

(* getMethodPolicy: cache.Load *)
Load(c) ==
    LET hit == cache[KindOf(name[c])][name[c]]
    IN  /\ pc[c] = "load"
        /\ found' = [found EXCEPT ![c] = hit]
        /\ Goto(c, IF hit = nil THEN "lookup" ELSE "resolve")
        /\ UNCHANGED <<cache, name, req, ctx>>

Lookup(c) ==
    /\ pc[c] = "lookup"
    /\ found' = [found EXCEPT ![c] = lookupMethodPolicy(name[c])]
    /\ Goto(c, "store")
    /\ UNCHANGED <<cache, name, req, ctx>>

Store(c) ==
    /\ pc[c] = "store"
    /\ cache' = [cache EXCEPT ![KindOf(name[c])][name[c]] = found[c]]
    /\ Goto(c, "resolve")
    /\ UNCHANGED <<name, req, found, ctx>>

(* The error of getMethodPolicy becomes codes.Internal. *)
RefuseName(c) ==
    /\ pc[c] = "resolve"
    /\ found[c].err
    /\ Goto(c, "refused")
    /\ UNCHANGED <<cache, name, req, found, ctx>>

(* The context of a call whose method has no policy is only marked. *)
PassThrough(c) ==
    /\ pc[c] = "resolve"
    /\ ~ found[c].err
    /\ found[c].policy = nil
    /\ ctx' = [ctx EXCEPT ![c] = markInterceptorRan(@)]
    /\ Goto(c, "handler")
    /\ UNCHANGED <<cache, name, req, found>>

(* Slips: the resolution writes to the policy in the cache, which the      *)
(* calls share; or its error is remembered there.                          *)
ResolveUnaryInPlace(c) ==
    LET policy == found[c].policy
        resolved == resolveResourceFromRequest(policy, req[c])
    IN  /\ pc[c] = "resolve"
        /\ ~ found[c].err /\ policy # nil
        /\ name[c] \notin Streaming
        /\ IF resolved.ok
           THEN /\ ctx' = [ctx EXCEPT ![c] =
                               withPolicy(markInterceptorRan(@), resolved.text, policy.action)]
                /\ cache' = [cache EXCEPT !["unary"][name[c]].policy.resource = resolved.text]
                /\ Goto(c, "handler")
           ELSE Goto(c, "refused") /\ UNCHANGED <<ctx, cache>>
        /\ UNCHANGED <<name, req, found>>

ResolveUnaryCachesError(c) ==
    LET policy == found[c].policy
        resolved == resolveResourceFromRequest(policy, req[c])
    IN  /\ pc[c] = "resolve"
        /\ ~ found[c].err /\ policy # nil
        /\ name[c] \notin Streaming
        /\ IF resolved.ok
           THEN /\ ctx' = [ctx EXCEPT ![c] =
                               withPolicy(markInterceptorRan(@), resolved.text, policy.action)]
                /\ Goto(c, "handler")
                /\ UNCHANGED cache
           ELSE /\ cache' = [cache EXCEPT !["unary"][name[c]] = cachedPolicy(nil, TRUE)]
                /\ Goto(c, "refused")
                /\ UNCHANGED ctx
        /\ UNCHANGED <<name, req, found>>

(* The rest of Interceptor *)
ResolveUnary(c) ==
    LET policy == found[c].policy
        resolved == resolveResourceFromRequest(policy, req[c])
    IN  /\ pc[c] = "resolve"
        /\ ~ found[c].err /\ policy # nil
        /\ name[c] \notin Streaming
        /\ IF resolved.ok
           THEN /\ ctx' = [ctx EXCEPT ![c] =
                               withPolicy(markInterceptorRan(@), resolved.text, policy.action)]
                /\ Goto(c, "handler")
           ELSE Goto(c, "refused") /\ UNCHANGED ctx
        /\ UNCHANGED <<cache, name, req, found>>

(* The rest of StreamInterceptor *)
ResolveStream(c) ==
    LET policy == found[c].policy
    IN  /\ pc[c] = "resolve"
        /\ ~ found[c].err /\ policy # nil
        /\ name[c] \in Streaming
        /\ IF hasFieldMappings(policy)
           THEN Goto(c, "refused") /\ UNCHANGED ctx
           ELSE /\ ctx' = [ctx EXCEPT ![c] =
                               withPolicy(markInterceptorRan(@), policy.resource, policy.action)]
                /\ Goto(c, "handler")
        /\ UNCHANGED <<cache, name, req, found>>

(* The handler, or the interceptor with its error, returns. *)
Return(c) ==
    /\ pc[c] \in {"handler", "refused"}
    /\ name' = [name EXCEPT ![c] = nil]
    /\ req' = [req EXCEPT ![c] = nil]
    /\ found' = [found EXCEPT ![c] = nil]
    /\ ctx' = [ctx EXCEPT ![c] = NoContext]
    /\ Goto(c, "idle")
    /\ UNCHANGED cache

Next ==
    \E c \in Calls :
        \/ \E n \in Names : \E r \in RequestsOf(n) : Begin(c, n, r)
        \/ Load(c)
        \/ Lookup(c)
        \/ Store(c)
        \/ RefuseName(c)
        \/ PassThrough(c)
        \/ ResolveUnary(c)
        \/ ResolveStream(c)
        \/ Return(c)

Spec == Init /\ [][Next]_vars

-----------------------------------------------------------------------------
(* Properties *)

Outcomes ==
    {cachedPolicy(nil, TRUE)} \cup
    {cachedPolicy(p, FALSE) : p \in {nil} \cup UNION {Range(Registry[s]) : s \in DOMAIN Registry}}

(* Nothing else is nil. *)
ASSUME NilIsNothing ==
    nil \notin Names \cup Outcomes \cup PolicyMessages(STRING, STRING)
               \cup [service : Seq(STRING), method : Seq(STRING)]
               \cup [resource : Seq(STRING), action : STRING]

(* Every variable has its type, and a call that is past getMethodPolicy    *)
(* has a result of it: a cached "no policy" is not mistaken for a miss,    *)
(* nor a miss for a cached "no policy".                                    *)
TypeOK ==
    /\ cache \in [Kinds -> [Names -> Outcomes \cup {nil}]]
    /\ pc \in [Calls -> {"idle", "load", "lookup", "store", "resolve", "handler", "refused"}]
    /\ \A c \in Calls :
        /\ name[c] \in Names \cup {nil}
        /\ name[c] = nil <=> pc[c] = "idle"
        /\ name[c] # nil => req[c] \in RequestsOf(name[c])
        /\ found[c] \in Outcomes \cup {nil}
        /\ pc[c] \in {"store", "resolve", "handler", "refused"} => found[c] # nil
        /\ ctx[c].ran => pc[c] = "handler"

(* The option the method with the full name n carries in its file, nil for *)
(* none: "/", the service, "/", the method.                                *)
DeclaredPolicy(n) ==
    LET carries(s, m) == n = <<"/">> \o s \o <<"/">> \o m
    IN  IF \E s \in DOMAIN Registry : \E m \in DOMAIN Registry[s] : carries(s, m)
        THEN LET s == CHOOSE s \in DOMAIN Registry : \E m \in DOMAIN Registry[s] : carries(s, m)
                 m == CHOOSE m \in DOMAIN Registry[s] : carries(s, m)
             IN  Registry[s][m]
        ELSE nil

(* A handler runs with the policy that its own method declares, resolved   *)
(* against its own request, however the calls share the cache: no call     *)
(* sees the resource of another request or the policy of another method,   *)
(* and none goes without the policy its method declares.  A unary handler  *)
(* never runs under a policy that cannot be resolved.                      *)
HandlerSeesItsPolicy ==
    \A c \in Calls :
        LET p == DeclaredPolicy(name[c])
        IN  pc[c] = "handler" =>
                /\ ctx[c].ran
                /\ ctx[c].policy = nil <=> p = nil
                /\ p # nil => ctx[c].policy.action = p.action
                /\ p # nil /\ name[c] \in Streaming => ctx[c].policy.resource = p.resource
                /\ p # nil /\ name[c] \notin Streaming =>
                    /\ ~ BrokenPolicy(p)
                    /\ PlainNames(p) => ~ Unresolvable(p, req[c])
                    /\ Plain(p, req[c]) =>
                        ctx[c].policy.resource = SimultaneousSubstitution(p, req[c])

(* A call is refused only for a reason of its own: the form of its name, a *)
(* policy that no request resolves, field mappings on a stream, or a       *)
(* request without the field.  The failure of one request is not           *)
(* remembered against the next.                                            *)
RefusedForItsOwnFault ==
    \A c \in Calls :
        LET p == DeclaredPolicy(name[c])
        IN  pc[c] = "refused" =>
                \/ parseFullMethodName(name[c]) = nil
                \/ p # nil /\ name[c] \in Streaming /\ hasFieldMappings(p)
                \/ /\ p # nil /\ name[c] \notin Streaming
                   /\ BrokenPolicy(p) \/ Unresolvable(p, req[c]) \/ ~ Plain(p, req[c])

(* "The same policy lookup and context injection logic as Interceptor"     *)
(* (src/protobuf_policy_option/README.md:27): a stream handler runs under  *)
(* a policy only if the unary interceptor would have let a call of the     *)
(* same method through.  resolveResourceFromRequest refuses an empty       *)
(* resource and an empty action; StreamInterceptor injects them.           *)
StreamInjectsAsUnary ==
    \A c \in Calls :
        pc[c] = "handler" /\ name[c] \in Streaming /\ ctx[c].policy # nil =>
            resolveResourceFromRequest(found[c].policy, req[c]).ok
=============================================================================
