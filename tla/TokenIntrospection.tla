------------------------- MODULE TokenIntrospection -------------------------
(***************************************************************************)
(* The token introspection interceptor,                                    *)
(* src/token_introspection/interceptor.go: concurrent RPCs that look a     *)
(* credential up in the shared cache and otherwise ask the introspectors   *)
(* of its scheme, one after another, while credentials are being revoked.  *)
(*                                                                         *)
(* The cache is any LossyCache; the introspectors are RFC 7662 backends    *)
(* whose endpoints answer truthfully for the moment at which they decide,  *)
(* imprecisely, late, or not at all.  The decision and the arrival of the  *)
(* answer are two steps, and so are the clock reading of Set and its       *)
(* effect.  Schemes and credentials are texts, in which a colon is a piece *)
(* of its own.                                                             *)
(***************************************************************************)
EXTENDS Integers, Sequences, SequencesExt, RFC7662Introspector, AuthorizationHeader

CONSTANTS
    RPCs,                 \* slots of concurrent RPCs
    Schemes,              \* lower-cased schemes that headers may name
    Credentials,
    schemes,              \* cfg.schemes: scheme -> ordered list of introspectors
    Imprecise,            \* introspectors whose endpoint may answer about an active credential
                          \*   with a 401 that refuses the server itself (WithClientCredentials,
                          \*   WithBearerAuth), or with a 2xx that has no boolean "active"
    ttl,
    Horizon,              \* bound on the clock
    nil

Introspectors == UNION {ToSet(schemes[s]) : s \in DOMAIN schemes}

ASSUME SchemesAssumption ==
    /\ DOMAIN schemes \subseteq Schemes
    /\ \A s \in DOMAIN schemes : schemes[s] \in Seq(Introspectors)
    /\ Imprecise \subseteq Introspectors
ASSUME TextsAssumption == Schemes \subseteq Seq(STRING) /\ Credentials \subseteq Seq(STRING)
ASSUME CacheAssumption == ttl \in Nat /\ Horizon \in Nat

(* IntrospectionResult; the rest is history: the introspector that vouched *)
(* and the scheme and the credential of the header that it was asked for.  *)
Results ==
    [by : Introspectors, scheme : Schemes, credential : Credentials,
     ExpiresAt : {ExpiresAt(e) : e \in Claims}]

(* What an incoming call carries under cfg.metadataKey: no metadata or an  *)
(* empty value, a value that parseAuthorization cannot split, or a scheme  *)
(* and a credential.                                                       *)
Header(s, c) == [kind |-> "credential", scheme |-> s, credential |-> c]
NoHeader == [kind |-> "absent", scheme |-> nil, credential |-> nil]
Malformed == [kind |-> "malformed", scheme |-> nil, credential |-> nil]
Headers == {NoHeader, Malformed} \cup {Header(s, c) : s \in Schemes, c \in Credentials}

VARIABLES
    now, cell, got, phase,   \* the clock and the state of the cache
    useCache, \* cfg.cache != nil
    exp,      \* exp[c]: the claim exp of credential c
    live,     \* pairs of an introspector and a credential it holds to be active
    pc,       \* pc[r]: where RPC r is in introspect
    header,   \* header[r]
    idx,      \* idx[r]: position in the strategy chain
    reply,    \* reply[r]: the answer on its way: a code and, if OK, a result
    setAt,    \* setAt[r]: the clock reading of its Set
    result,   \* result[r]: the result in the context of the handler
    code      \* code[r]: the error returned to the client

cacheVars == <<cell, got, phase>>
rpcVars == <<pc, header, idx, reply, setAt, result, code>>
vars == <<now, cacheVars, useCache, exp, live, rpcVars>>

Keys == {cacheKey(s, c) : s \in Schemes, c \in Credentials}

Cache == INSTANCE LossyCache WITH Callers <- RPCs

(* cfg.schemes[scheme], empty for a scheme that is not registered *)
chain(s) == IF s \in DOMAIN schemes THEN schemes[s] ELSE <<>>

Credential(r) == header[r].credential
Chain(r) == chain(header[r].scheme)
Key(r) == cacheKey(header[r].scheme, header[r].credential)

Goto(r, label) == pc' = [pc EXCEPT ![r] = label]

Init ==
    /\ Cache!Init
    /\ useCache \in BOOLEAN
    /\ exp \in [Credentials -> Claims]
    /\ live \in SUBSET (Introspectors \X Credentials)
    /\ pc = [r \in RPCs |-> "idle"]
    /\ header = [r \in RPCs |-> NoHeader]
    /\ idx = [r \in RPCs |-> 0]
    /\ reply = [r \in RPCs |-> nil]
    /\ setAt = [r \in RPCs |-> 0]
    /\ result = [r \in RPCs |-> nil]
    /\ code = [r \in RPCs |-> nil]

-----------------------------------------------------------------------------
(* The surroundings *)

Tick ==
    /\ now < Horizon
    /\ Cache!Advance
    /\ UNCHANGED <<useCache, exp, live, rpcVars>>

(* A credential is revoked at one of the introspectors. *)
Revoke(i, c) ==
    /\ <<i, c>> \in live
    /\ live' = live \ {<<i, c>>}
    /\ UNCHANGED <<now, cacheVars, useCache, exp, rpcVars>>

(* The cache loses an entry: an eviction, a sweep. *)
CacheLoses(k) ==
    /\ k \in DOMAIN cell
    /\ Cache!Lose(k)
    /\ UNCHANGED <<useCache, exp, live, rpcVars>>

-----------------------------------------------------------------------------
(* introspect *)

Accept(r, res) ==
    /\ Goto(r, "accepted")
    /\ result' = [result EXCEPT ![r] = res]
    /\ UNCHANGED code

Reject(r, c) ==
    /\ Goto(r, "rejected")
    /\ code' = [code EXCEPT ![r] = c]
    /\ UNCHANGED result

(* No credential: the handler runs without a result.  A value that does    *)
(* not split is refused.  Otherwise the cache is asked, whatever the       *)
(* scheme.                                                                 *)
Begin(r, h) ==
    /\ pc[r] = "idle"
    /\ header' = [header EXCEPT ![r] = h]
    /\ \/ h = NoHeader /\ Goto(r, "passed") /\ UNCHANGED <<result, code>>
       \/ h = Malformed /\ Reject(r, "Unauthenticated")
       \/ /\ h \notin {NoHeader, Malformed}
          /\ Goto(r, IF useCache THEN "cache_get" ELSE "dispatch")
          /\ UNCHANGED <<result, code>>
    /\ UNCHANGED <<now, cacheVars, useCache, exp, live, idx, reply, setAt>>

(* cfg.cache.Get(key) *)
CacheGet(r) ==
    /\ pc[r] = "cache_get"
    /\ Cache!FetchNothing(r) \/ Cache!Fetch(r, Key(r)) \/ Cache!Hit(r) \/ Cache!Miss(r)
    /\ UNCHANGED <<useCache, exp, live, rpcVars>>

(* Get returns: a hit ends introspect. *)
CacheReturn(r) ==
    /\ pc[r] = "cache_get"
    /\ Cache!Return(r)
    /\ IF phase[r] = "hit"
       THEN Accept(r, got[r].result)
       ELSE Goto(r, "dispatch") /\ UNCHANGED <<result, code>>
    /\ UNCHANGED <<useCache, exp, live, header, idx, reply, setAt>>

(* cfg.schemes[scheme] *)
Dispatch(r) ==
    /\ pc[r] = "dispatch"
    /\ IF Chain(r) = <<>>
       THEN Reject(r, "Unauthenticated") /\ UNCHANGED idx
       ELSE Goto(r, "call") /\ idx' = [idx EXCEPT ![r] = 1] /\ UNCHANGED <<result, code>>
    /\ UNCHANGED <<now, cacheVars, useCache, exp, live, header, reply, setAt>>

(* What an endpoint can answer about a credential that is or is not active *)
(* at this moment.  A 2xx that says active or inactive tells the truth.  A *)
(* 401, and a 2xx whose "active" is absent or not a boolean, come for an   *)
(* active credential only from an imprecise endpoint.  Everything else can *)
(* happen at any time: no answer, an error, an answer that is too long or  *)
(* that does not parse.                                                    *)
Truthful(x, isLive, imprecise, claim) ==
    /\ x.exp = claim
    /\ Is2xx(x.status) /\ x.active = "true" => isLive
    /\ Is2xx(x.status) /\ x.active = "false" => ~ isLive
    /\ Is2xx(x.status) /\ x.active = "other" => ~ isLive \/ imprecise
    /\ x.status = 401 => ~ isLive \/ imprecise

(* What Introspect can make of the answers about a credential: the code    *)
(* and the claim exp.                                                      *)
Answers ==
    [isLive \in BOOLEAN |-> [imprecise \in BOOLEAN |-> [claim \in Claims |->
        {[code |-> Introspect(x), exp |-> x.exp] :
            x \in {y \in Exchanges : Truthful(y, isLive, imprecise, claim)}}]]]

(* The result that the claims of an answer are mapped to. *)
ResultOf(a, i, h) ==
    [by |-> i, scheme |-> h.scheme, credential |-> h.credential, ExpiresAt |-> ExpiresAt(a.exp)]

(* i.Introspect(ctx, credential): the endpoint decides. *)
Decide(r) ==
    LET i == Chain(r)[idx[r]]
        c == Credential(r)
        isLive == <<i, c>> \in live
        imprecise == i \in Imprecise
    IN  /\ pc[r] = "call"
        /\ \E a \in Answers[isLive][imprecise][exp[c]] :
                reply' = [reply EXCEPT ![r] = [code |-> a.code, result |-> ResultOf(a, i, header[r])]]
        /\ Goto(r, "reply")
        /\ UNCHANGED <<now, cacheVars, useCache, exp, live, header, idx, setAt, result, code>>

(* Slip: the end of the chain is not noticed. *)
ReceivePastEnd(r) ==
    /\ pc[r] = "reply"
    /\ reply' = [reply EXCEPT ![r] = nil]
    /\ IF reply[r].code = "OK"
       THEN Accept(r, reply[r].result) /\ UNCHANGED idx
       ELSE Goto(r, "call") /\ idx' = [idx EXCEPT ![r] = @ + 1] /\ UNCHANGED <<result, code>>
    /\ UNCHANGED <<now, cacheVars, useCache, exp, live, header, setAt>>

(* Slip: a failed call is repeated without limit. *)
ReceiveRetry(r) ==
    /\ pc[r] = "reply"
    /\ reply' = [reply EXCEPT ![r] = nil]
    /\ CASE reply[r].code = "OK" -> Accept(r, reply[r].result)
         [] reply[r].code = "Unauthenticated" -> Reject(r, "Unauthenticated")
         [] OTHER -> Goto(r, "call") /\ UNCHANGED <<result, code>>
    /\ UNCHANGED <<now, cacheVars, useCache, exp, live, header, idx, setAt>>

(* The answer arrives: success ends the chain, through Set if there is a   *)
(* cache; Unauthenticated moves on to the next strategy; anything else     *)
(* aborts.                                                                 *)
Receive(r) ==
    /\ pc[r] = "reply"
    /\ \/ /\ reply[r].code = "OK" /\ useCache
          /\ Goto(r, "set")
          /\ UNCHANGED <<idx, reply, result, code>>
       \/ /\ reply[r].code = "OK" /\ ~ useCache
          /\ Accept(r, reply[r].result)
          /\ reply' = [reply EXCEPT ![r] = nil]
          /\ UNCHANGED idx
       \/ /\ reply[r].code = "Unauthenticated" /\ idx[r] < Len(Chain(r))
          /\ Goto(r, "call")
          /\ idx' = [idx EXCEPT ![r] = @ + 1]
          /\ reply' = [reply EXCEPT ![r] = nil]
          /\ UNCHANGED <<result, code>>
       \/ /\ reply[r].code = "Unauthenticated" /\ idx[r] = Len(Chain(r))
          /\ Reject(r, "Unauthenticated")
          /\ reply' = [reply EXCEPT ![r] = nil]
          /\ UNCHANGED idx
       \/ /\ reply[r].code \notin {"OK", "Unauthenticated"}
          /\ Reject(r, reply[r].code)
          /\ reply' = [reply EXCEPT ![r] = nil]
          /\ UNCHANGED idx
    /\ UNCHANGED <<now, cacheVars, useCache, exp, live, header, setAt>>

(* cfg.cache.Set reads the clock ... *)
CacheSet(r) ==
    /\ pc[r] = "set"
    /\ setAt' = [setAt EXCEPT ![r] = now]
    /\ Goto(r, "put")
    /\ UNCHANGED <<now, cacheVars, useCache, exp, live, header, idx, reply, result, code>>

(* ... and stores; introspect returns the result. *)
CachePut(r) ==
    /\ pc[r] = "put"
    /\ Cache!Put(Key(r), reply[r].result, setAt[r])
    /\ Accept(r, reply[r].result)
    /\ reply' = [reply EXCEPT ![r] = nil]
    /\ setAt' = [setAt EXCEPT ![r] = 0]
    /\ UNCHANGED <<useCache, exp, live, header, idx>>

(* The handler, or the error, ends the RPC; its slot is free again. *)
Finish(r) ==
    /\ pc[r] \in {"accepted", "passed", "rejected"}
    /\ Goto(r, "idle")
    /\ header' = [header EXCEPT ![r] = NoHeader]
    /\ idx' = [idx EXCEPT ![r] = 0]
    /\ result' = [result EXCEPT ![r] = nil]
    /\ code' = [code EXCEPT ![r] = nil]
    /\ UNCHANGED <<now, cacheVars, useCache, exp, live, reply, setAt>>

-----------------------------------------------------------------------------

(* What the interceptor does by itself, once a call has come in. *)
Step(r) ==
    \/ CacheGet(r) \/ CacheReturn(r) \/ Dispatch(r) \/ Decide(r) \/ Receive(r)
    \/ CacheSet(r) \/ CachePut(r)

Next ==
    \/ Tick
    \/ \E i \in Introspectors, c \in Credentials : Revoke(i, c)
    \/ \E k \in Keys : CacheLoses(k)
    \/ \E r \in RPCs : Step(r) \/ Finish(r) \/ \E h \in Headers : Begin(r, h)

Spec == Init /\ [][Next]_vars

(* The goroutine of an RPC is scheduled, and the timeout of the HTTP       *)
(* client makes every Introspect end.  Nothing is assumed of the handler.  *)
FairSpec == Spec /\ \A r \in RPCs : WF_vars(Step(r))

-----------------------------------------------------------------------------
(* Properties *)

PCs == {"idle", "cache_get", "dispatch", "call", "reply", "set", "put",
        "accepted", "passed", "rejected"}

(* The state is well formed; while a strategy is being asked, or its       *)
(* answer stored, the position in the chain is within the chain.           *)
TypeOK ==
    /\ now \in Nat
    /\ DOMAIN cell \subseteq Keys
    /\ \A k \in DOMAIN cell : cell[k].result \in Results
    /\ useCache \in BOOLEAN
    /\ exp \in [Credentials -> Claims]
    /\ live \subseteq Introspectors \X Credentials
    /\ pc \in [RPCs -> PCs]
    /\ header \in [RPCs -> Headers]
    /\ \A r \in RPCs : pc[r] \in {"call", "reply", "set", "put"} => idx[r] \in DOMAIN Chain(r)
    /\ result \in [RPCs -> Results \cup {nil}]
    /\ code \in [RPCs -> {"Unauthenticated", "Internal", nil}]

(* The identity that a handler sees was vouched for by an introspector     *)
(* registered for the scheme it is about, and that scheme and credential   *)
(* are the ones of this very RPC, although all schemes share one cache.    *)
(* There is one exception, since introspect asks the cache before it looks *)
(* the scheme up: a header with a colon in its scheme, registered or not,  *)
(* also gets what was vouched for under a header that reads the same once  *)
(* scheme and credential are joined by a colon.                            *)
OwnIdentity ==
    \A r \in RPCs : pc[r] = "accepted" =>
        LET s == result[r].scheme
            c == result[r].credential
            h == header[r]
        IN  /\ result[r].by \in ToSet(chain(s))
            /\ \/ h = Header(s, c)
               \/ /\ s \o <<":">> \o c = h.scheme \o <<":">> \o h.credential
                  /\ ":" \in ToSet(s) \cup ToSet(h.scheme)

(* A 401, an inactive or a 2xx without a boolean "active" from introspector *)
(* i was about the credential: it is not active there.  Nothing can be said *)
(* of an imprecise endpoint.                                                *)
Declined(i, c) == <<i, c>> \notin live \/ i \in Imprecise

(* The chain is evaluated in registration order: whoever vouched, every    *)
(* strategy before it in the chain of the scheme it vouched under has      *)
(* declined the credential.  A backend that could not be reached, reported *)
(* an error or sent something that is no JSON object has not declined, so  *)
(* its failure never hands the decision to the next.                       *)
EarlierStrategiesDeclined ==
    \A r \in RPCs : pc[r] = "accepted" =>
        LET strategies == chain(result[r].scheme)
        IN  \E j \in DOMAIN strategies :
                /\ strategies[j] = result[r].by
                /\ \A n \in 1 .. j - 1 : Declined(strategies[n], result[r].credential)

(* Unauthenticated is a verdict on the credential: no strategy of the      *)
(* chain with a precise endpoint holds it to be active.  A backend that    *)
(* cannot be reached, reports an error or sends something that is no JSON  *)
(* object is never reported as one.  (A 401 about the server itself and a  *)
(* 2xx without a boolean "active" are: Imprecise.)                         *)
UnauthenticatedMeansInactive ==
    \A r \in RPCs :
        pc[r] = "rejected" /\ code[r] = "Unauthenticated" /\ header[r] # Malformed =>
            \A n \in DOMAIN Chain(r) : Declined(Chain(r)[n], Credential(r))

(* A result from the cache is not given to an RPC after the moment, to the *)
(* fraction of a second, that the token it is about names as its end.      *)
HitBeforeExp ==
    [][\A r \in RPCs : phase[r] # "hit" /\ phase'[r] = "hit" =>
        LET end == exp[got[r].result.credential]
        IN  end \in Nat => now <= end]_vars

(* A cache key is drained when every credential behind it is revoked       *)
(* everywhere, no positive answer about it is still on its way to the      *)
(* cache or to a handler, and the cache holds nothing under it that has    *)
(* not expired.                                                            *)
Drained(k) ==
    /\ \A s \in Schemes, c \in Credentials : cacheKey(s, c) = k =>
            \A n \in DOMAIN chain(s) : <<chain(s)[n], c>> \notin live
    /\ k \in DOMAIN cell => now > cell[k].expiresAt
    /\ \A r \in RPCs : header[r].kind = "credential" /\ Key(r) = k =>
        /\ pc[r] \notin {"set", "put", "accepted"}
        /\ pc[r] = "reply" => reply[r].code # "OK"
        /\ phase[r] # "hit"
        /\ phase[r] = "fetched" => now > got[r].expiresAt

(* Revocation is final: once the key of a credential is drained it stays   *)
(* so, and in particular no RPC that carries the credential is accepted    *)
(* any more, nor one that reads like it.                                   *)
RevocationIsFinal == [][\A k \in Keys : Drained(k) => Drained(k)']_vars

(* introspect returns: every call is accepted, passed on without a result  *)
(* or rejected, whatever the backends do.                                  *)
IntrospectReturns ==
    \A r \in RPCs : pc[r] # "idle" ~> pc[r] \in {"accepted", "passed", "rejected"}
=============================================================================
