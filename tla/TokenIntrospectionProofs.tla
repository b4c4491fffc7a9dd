---------------------- MODULE TokenIntrospectionProofs ----------------------
(***************************************************************************)
(* Proofs about TokenIntrospection for any set of RPCs, any registration   *)
(* of strategies under schemes, any credentials, claims and lifetimes.     *)
(***************************************************************************)
EXTENDS TokenIntrospection, SequenceTheorems, TLAPS

(* What is said of the code of an exchange with a truthful endpoint: OK    *)
(* means that the credential is active, Unauthenticated that it is not or  *)
(* that the endpoint is imprecise.                                         *)
LEMMA IntrospectSound ==
    ASSUME NEW x \in Exchanges, NEW isLive \in BOOLEAN, NEW imprecise \in BOOLEAN,
           NEW claim \in Claims, Truthful(x, isLive, imprecise, claim)
    PROVE  /\ Introspect(x) \in Codes
           /\ Introspect(x) = "OK" => isLive
           /\ Introspect(x) = "Unauthenticated" => ~ isLive \/ imprecise
  <1>1. x.size \in Nat /\ BytesRead(x) \in Nat /\ x.delivered \in BOOLEAN /\ x.complete \in BOOLEAN
    BY SizeIsPositive DEF Exchanges, BytesRead
  <1>2. x.active \in {"true", "false", "other"}
    BY DEF Exchanges
  <1> QED
    BY <1>1, <1>2, SizeIsPositive DEF Truthful, Introspect, Codes

(* Answers holds nothing but what Introspect makes of a truthful exchange. *)
LEMMA AnswersExchange ==
    ASSUME NEW isLive \in BOOLEAN, NEW imprecise \in BOOLEAN, NEW claim \in Claims,
           NEW a \in Answers[isLive][imprecise][claim]
    PROVE  /\ a.code \in Codes
           /\ a.exp = claim
           /\ a.code = "OK" => isLive
           /\ a.code = "Unauthenticated" => ~ isLive \/ imprecise
  <1>1. Answers[isLive][imprecise][claim] =
            {[code |-> Introspect(x), exp |-> x.exp] :
                x \in {y \in Exchanges : Truthful(y, isLive, imprecise, claim)}}
    BY Zenon DEF Answers
  <1>2. PICK x \in Exchanges :
            Truthful(x, isLive, imprecise, claim) /\ a = [code |-> Introspect(x), exp |-> x.exp]
    BY <1>1, Zenon
  <1>3. a.code = Introspect(x) /\ a.exp = claim
    BY <1>2 DEF Truthful
  <1> QED
    BY <1>2, <1>3, IntrospectSound

(* The moment that a result names as its end is the zero time or a number, *)
(* and no number lies behind the claim that it was cut from.               *)
LEMMA ExpiresAtBound ==
    ASSUME NEW claim \in Claims
    PROVE  /\ ExpiresAt(claim) \in Int \cup {NoExpiry}
           /\ claim \in Nat => ExpiresAt(claim) \in Int /\ ExpiresAt(claim) <= claim
  BY ClaimsAreTimes DEF ExpiresAt

-----------------------------------------------------------------------------
(* The inductive invariant *)

(* Strategy i has declined credential c when the active pairs are L. *)
DeclinedAt(L, i, c) == <<i, c>> \notin L \/ i \in Imprecise

(* res is a result that the chain of a scheme can give for a header with   *)
(* cache key k, when the claims are exps: the strategies before the one    *)
(* that vouched have declined.                                             *)
Vouched(L, exps, k, res) ==
    /\ res \in Results
    /\ cacheKey(res.scheme, res.credential) = k
    /\ res.ExpiresAt = ExpiresAt(exps[res.credential])
    /\ \E j \in DOMAIN chain(res.scheme) :
        /\ chain(res.scheme)[j] = res.by
        /\ \A n \in 1 .. j - 1 : DeclinedAt(L, chain(res.scheme)[n], res.credential)

(* e is an entry for k that some Set has made by time t. *)
EntryFor(L, exps, t, k, e) ==
    /\ e.setAt \in 0 .. t
    /\ Vouched(L, exps, k, e.result)
    /\ e = Cache!MakeEntry(k, e.result, e.setAt)

(* Whatever the cache can be found to hold under a key was vouched for     *)
(* under a header with this key.                                           *)
CacheInv == \A k \in DOMAIN cell : EntryFor(live, exp, now, k, cell[k])

Entries == [key : Keys, result : Results, expiresAt : Int, setAt : Nat]
Replies == [code : Codes, result : Results]
Phases == {"idle", "fetched", "hit", "miss"}

(* The variables that TypeOK leaves open. *)
LocalsOK ==
    /\ got \in [RPCs -> Entries \cup {nil}]
    /\ phase \in [RPCs -> Phases]
    /\ idx \in [RPCs -> Nat]
    /\ reply \in [RPCs -> Replies \cup {nil}]
    /\ setAt \in [RPCs -> Nat]

(* The n-1 first strategies of scheme s have declined c. *)
PassedBy(L, s, c, n) == \A m \in 1 .. n - 1 : DeclinedAt(L, chain(s)[m], c)

(* What the answer a of strategy i of scheme s to a question about c says. *)
ReplyFor(L, exps, i, s, c, a) ==
    /\ a.code \in Codes
    /\ a.result = [by |-> i, scheme |-> s, credential |-> c, ExpiresAt |-> ExpiresAt(exps[c])]
    /\ a.code = "Unauthenticated" => DeclinedAt(L, i, c)

(* The introspection of credential c under scheme s by RPC r. *)
Working(r, s, c) ==
    /\ phase[r] \in {"fetched", "hit"} => EntryFor(live, exp, now, cacheKey(s, c), got[r])
    /\ pc[r] \in {"call", "reply", "set", "put"} => PassedBy(live, s, c, idx[r])
    /\ pc[r] \in {"reply", "set", "put"} => ReplyFor(live, exp, chain(s)[idx[r]], s, c, reply[r])
    /\ pc[r] \in {"set", "put"} => reply[r].code = "OK"
    /\ pc[r] = "put" => setAt[r] <= now
    /\ pc[r] = "accepted" => Vouched(live, exp, cacheKey(s, c), result[r])
    /\ pc[r] = "rejected" /\ code[r] = "Unauthenticated" => PassedBy(live, s, c, Len(chain(s)) + 1)

(* An RPC at each of its steps. *)
RPCInv(r) ==
    /\ header[r] \in {NoHeader, Malformed} => pc[r] \in {"idle", "passed", "rejected"}
    /\ phase[r] # "idle" => pc[r] = "cache_get"
    /\ header[r] = NoHeader => pc[r] # "rejected"
    /\ \A s \in Schemes, c \in Credentials : header[r] = Header(s, c) => Working(r, s, c)

Inv == TypeOK /\ LocalsOK /\ CacheInv /\ \A r \in RPCs : RPCInv(r)

-----------------------------------------------------------------------------
(* Lemmas about its parts *)

(* The chain of a scheme is a sequence of introspectors. *)
LEMMA ChainType ==
    ASSUME NEW s
    PROVE  /\ chain(s) \in Seq(Introspectors)
           /\ Len(chain(s)) \in Nat /\ DOMAIN chain(s) = 1 .. Len(chain(s))
           /\ \A j \in DOMAIN chain(s) : chain(s)[j] \in Introspectors
  <1>1. chain(s) \in Seq(Introspectors)
    BY SchemesAssumption DEF chain
  <1> QED
    BY <1>1

(* A header with a credential is not one without. *)
LEMMA HeaderFields ==
    ASSUME NEW s, NEW c
    PROVE  /\ Header(s, c).scheme = s /\ Header(s, c).credential = c
           /\ Header(s, c) \notin {NoHeader, Malformed}
  BY DEF Header, NoHeader, Malformed

(* Headers tell scheme and credential apart. *)
LEMMA HeaderInjective ==
    ASSUME NEW s, NEW c, NEW t, NEW d, Header(s, c) = Header(t, d)
    PROVE  s = t /\ c = d
  BY HeaderFields

(* A header is one without a credential or one with. *)
LEMMA HeaderCases ==
    ASSUME NEW h \in Headers, h \notin {NoHeader, Malformed}
    PROVE  \E s \in Schemes, c \in Credentials : h = Header(s, c)
  BY DEF Headers

(* Credentials are only ever revoked: a result stays one that the chain    *)
(* can give, ...                                                           *)
LEMMA VouchedStable ==
    ASSUME NEW L, NEW M, M \subseteq L, NEW x, NEW k, NEW res, Vouched(L, x, k, res)
    PROVE  Vouched(M, x, k, res)
  BY DEF Vouched, DeclinedAt

(* ... an entry stays an entry, ... *)
LEMMA EntryStable ==
    ASSUME NEW L, NEW M, M \subseteq L, NEW x, NEW t \in Nat, NEW u \in Nat, t <= u,
           NEW k, NEW e, EntryFor(L, x, t, k, e)
    PROVE  EntryFor(M, x, u, k, e)
  BY VouchedStable DEF EntryFor

(* ... the strategies that have declined stay so, ... *)
LEMMA PassedStable ==
    ASSUME NEW L, NEW M, M \subseteq L, NEW s, NEW c, NEW n, PassedBy(L, s, c, n)
    PROVE  PassedBy(M, s, c, n)
  BY DEF PassedBy, DeclinedAt

(* ... and an answer on its way stays right in what it denies. *)
LEMMA ReplyStable ==
    ASSUME NEW L, NEW M, M \subseteq L, NEW x, NEW i, NEW s, NEW c, NEW a, ReplyFor(L, x, i, s, c, a)
    PROVE  ReplyFor(M, x, i, s, c, a)
  BY DEF ReplyFor, DeclinedAt

(* The next strategy declines, too. *)
LEMMA PassedOneMore ==
    ASSUME NEW L, NEW s, NEW c, NEW n \in Nat, PassedBy(L, s, c, n), DeclinedAt(L, chain(s)[n], c)
    PROVE  PassedBy(L, s, c, n + 1)
  BY DEF PassedBy

(* The lifetime of an entry is a number, and does not exceed that of the   *)
(* token.                                                                  *)
LEMMA EntryType ==
    ASSUME NEW L, NEW x \in [Credentials -> Claims], NEW t \in Nat, NEW k \in Keys,
           NEW e, EntryFor(L, x, t, k, e)
    PROVE  /\ e \in Entries
           /\ x[e.result.credential] \in Nat => e.expiresAt <= x[e.result.credential]
  <1> DEFINE claim == x[e.result.credential]
  <1>1. e.setAt \in Nat /\ e.result \in Results /\ e.result.ExpiresAt = ExpiresAt(claim)
    BY DEF EntryFor, Vouched
  <1>2. e = [key |-> k, result |-> e.result,
             expiresAt |-> Cache!Expiry(e.setAt, e.result), setAt |-> e.setAt]
    BY DEF EntryFor, Cache!MakeEntry
  <1>3. claim \in Claims
    BY <1>1 DEF Results
  <1> HIDE DEF claim
  <1>4. Cache!Expiry(e.setAt, e.result) \in Int
    BY <1>1, <1>3, ExpiresAtBound, CacheAssumption DEF Cache!Expiry
  <1>5. claim \in Nat => Cache!Expiry(e.setAt, e.result) <= claim
    BY <1>1, <1>3, ExpiresAtBound, CacheAssumption, ClaimsAreTimes DEF Cache!Expiry
  <1>6. e \in Entries
    BY <1>1, <1>2, <1>4 DEF Entries
  <1> QED
    BY <1>2, <1>5, <1>6 DEF claim

(* A positive answer of strategy j of the chain, after the ones before it  *)
(* have declined, is a result that the chain can give.                     *)
LEMMA ReplyVouched ==
    ASSUME NEW L, NEW x \in [Credentials -> Claims], NEW s \in Schemes, NEW c \in Credentials,
           NEW j \in DOMAIN chain(s), PassedBy(L, s, c, j), NEW a,
           ReplyFor(L, x, chain(s)[j], s, c, a)
    PROVE  Vouched(L, x, cacheKey(s, c), a.result)
  <1>1. chain(s)[j] \in Introspectors /\ x[c] \in Claims
    BY ChainType
  <1>2. a.result \in Results
    BY <1>1 DEF ReplyFor, Results
  <1> QED
    BY <1>2 DEF ReplyFor, Vouched, PassedBy

(* An RPC whose own variables do not change stays as it is while time      *)
(* passes and credentials are revoked.                                     *)
LEMMA RPCFrame ==
    ASSUME Inv, NEW r \in RPCs,
           live' \subseteq live, exp' = exp, now' \in Nat, now <= now',
           header'[r] = header[r], pc'[r] = pc[r], phase'[r] = phase[r], got'[r] = got[r],
           idx'[r] = idx[r], reply'[r] = reply[r], setAt'[r] = setAt[r],
           result'[r] = result[r], code'[r] = code[r]
    PROVE  RPCInv(r)'
  <1>1. RPCInv(r) /\ now \in Nat /\ setAt[r] \in Nat
    BY DEF Inv, TypeOK, LocalsOK
  <1>2. ASSUME NEW s \in Schemes, NEW c \in Credentials, header[r] = Header(s, c)
        PROVE  Working(r, s, c)'
    <2>1. Working(r, s, c)
      BY <1>1, <1>2 DEF RPCInv
    <2> QED
      BY <1>1, <2>1, VouchedStable, EntryStable, PassedStable, ReplyStable DEF Working
  <1> QED
    BY <1>1, <1>2 DEF RPCInv

-----------------------------------------------------------------------------
(* The invariant holds initially and is preserved *)

(* A server that has just started satisfies it. *)
LEMMA InvInit == Init => Inv
  <1> SUFFICES ASSUME Init PROVE Inv
    OBVIOUS
  <1> USE DEF Init, Cache!Init
  <1>1. TypeOK
    BY DEF TypeOK, PCs, Headers
  <1>2. LocalsOK
    BY DEF LocalsOK, Phases
  <1>3. CacheInv
    BY DEF CacheInv
  <1>4. ASSUME NEW r \in RPCs PROVE RPCInv(r)
    BY HeaderFields DEF RPCInv
  <1> QED
    BY <1>1, <1>2, <1>3, <1>4 DEF Inv

(* Entries outlive revocations and the passing of time. *)
LEMMA CacheFrame ==
    ASSUME Inv, live' \subseteq live, exp' = exp, now' \in Nat, now <= now',
           DOMAIN cell' \subseteq DOMAIN cell, \A k \in DOMAIN cell' : cell'[k] = cell[k]
    PROVE  CacheInv' /\ DOMAIN cell' \subseteq Keys /\ \A k \in DOMAIN cell' : cell'[k].result \in Results
  <1>1. now \in Nat /\ CacheInv
    BY DEF Inv, TypeOK
  <1>2. CacheInv'
    BY <1>1, EntryStable DEF CacheInv
  <1> QED
    BY <1>2 DEF Inv, TypeOK

(* Tick *)
LEMMA TickInv == Inv /\ Tick => Inv'
  <1> SUFFICES ASSUME Inv, Tick PROVE Inv'
    OBVIOUS
  <1> USE DEF Tick, Cache!Advance, rpcVars
  <1>1. now' \in Nat /\ now <= now'
    BY DEF Inv, TypeOK
  <1>2. CacheInv' /\ DOMAIN cell' \subseteq Keys /\ \A k \in DOMAIN cell' : cell'[k].result \in Results
    BY <1>1, CacheFrame
  <1>3. TypeOK' /\ LocalsOK'
    BY <1>1 DEF Inv, TypeOK, LocalsOK, Chain
  <1>4. ASSUME NEW r \in RPCs PROVE RPCInv(r)'
    BY <1>1, RPCFrame
  <1> QED
    BY <1>2, <1>3, <1>4 DEF Inv

(* Revoke *)
LEMMA RevokeInv == ASSUME NEW i, NEW c, Inv, Revoke(i, c) PROVE Inv'
  <1> USE DEF Revoke, cacheVars, rpcVars
  <1>1. now' \in Nat /\ now <= now' /\ live' \subseteq live
    BY DEF Inv, TypeOK
  <1>2. CacheInv' /\ DOMAIN cell' \subseteq Keys /\ \A k \in DOMAIN cell' : cell'[k].result \in Results
    BY <1>1, CacheFrame
  <1>3. TypeOK' /\ LocalsOK'
    BY <1>1 DEF Inv, TypeOK, LocalsOK, Chain
  <1>4. ASSUME NEW r \in RPCs PROVE RPCInv(r)'
    BY <1>1, RPCFrame
  <1> QED
    BY <1>2, <1>3, <1>4 DEF Inv

(* CacheLoses *)
LEMMA CacheLosesInv == ASSUME NEW k, Inv, CacheLoses(k) PROVE Inv'
  <1> USE DEF CacheLoses, Cache!Lose, rpcVars
  <1>1. now' \in Nat /\ now <= now' /\ live' \subseteq live
    BY DEF Inv, TypeOK
  <1>2. DOMAIN cell' \subseteq DOMAIN cell /\ \A l \in DOMAIN cell' : cell'[l] = cell[l]
    BY DEF Cache!Without
  <1>3. CacheInv' /\ DOMAIN cell' \subseteq Keys /\ \A l \in DOMAIN cell' : cell'[l].result \in Results
    BY <1>1, <1>2, CacheFrame
  <1>4. TypeOK' /\ LocalsOK'
    BY <1>1, <1>3 DEF Inv, TypeOK, LocalsOK, Chain
  <1>5. ASSUME NEW r \in RPCs PROVE RPCInv(r)'
    BY <1>1, RPCFrame
  <1> QED
    BY <1>3, <1>4, <1>5 DEF Inv

(* Begin *)
LEMMA BeginInv == ASSUME NEW r \in RPCs, NEW h \in Headers, Inv, Begin(r, h) PROVE Inv'
  <1> USE DEF Begin, Goto, Reject, cacheVars
  <1>1. now' \in Nat /\ now <= now' /\ live' \subseteq live
    BY DEF Inv, TypeOK
  <1>2. CacheInv'
    BY <1>1, CacheFrame
  <1>3. TypeOK'
    BY DEF Inv, TypeOK, LocalsOK, Chain, PCs
  <1>4. LocalsOK'
    BY DEF Inv, LocalsOK
  <1>5. ASSUME NEW q \in RPCs, q # r PROVE RPCInv(q)'
    BY <1>1, <1>5, RPCFrame DEF Inv, TypeOK, LocalsOK
  <1>6. /\ header'[r] = h /\ phase'[r] = "idle"
        /\ pc'[r] \in {"passed", "rejected", "cache_get", "dispatch"}
        /\ h = NoHeader => pc'[r] = "passed"
        /\ pc'[r] = "rejected" => h = Malformed
        /\ h \in {NoHeader, Malformed} => pc'[r] \in {"passed", "rejected"}
    <2>1. NoHeader # Malformed
      BY DEF NoHeader, Malformed
    <2> QED
      BY <2>1 DEF Inv, TypeOK, LocalsOK, RPCInv, Phases
  <1>7. RPCInv(r)'
    BY <1>6, HeaderFields DEF RPCInv, Working
  <1> QED
    BY <1>2, <1>3, <1>4, <1>5, <1>7 DEF Inv

(* CacheGet: the entry that is fetched is one for the key of this RPC. *)
LEMMA CacheGetInv == ASSUME NEW r \in RPCs, Inv, CacheGet(r) PROVE Inv'
  <1>0. UNCHANGED <<now, cell, useCache, exp, live, pc, header, idx, reply, setAt, result, code>>
    BY DEF CacheGet, rpcVars, Cache!FetchNothing, Cache!Fetch, Cache!Hit, Cache!Miss
  <1>1. now' \in Nat /\ now <= now' /\ live' \subseteq live
    BY <1>0 DEF Inv, TypeOK
  <1>2. CacheInv'
    BY <1>0, <1>1, CacheFrame
  <1>3. TypeOK'
    BY <1>0 DEF Inv, TypeOK, Chain
  <1>4. PICK s \in Schemes, c \in Credentials : header[r] = Header(s, c)
    BY HeaderCases DEF CacheGet, Inv, TypeOK, RPCInv
  <1>5. Key(r) = cacheKey(s, c)
    BY <1>4, HeaderFields DEF Key
  <1>6. /\ got' \in [RPCs -> Entries \cup {nil}]
        /\ phase' \in [RPCs -> Phases]
        /\ \A q \in RPCs \ {r} : got'[q] = got[q] /\ phase'[q] = phase[q]
        /\ phase'[r] \in {"fetched", "hit"} => EntryFor(live, exp, now, cacheKey(s, c), got'[r])
    <2>1. /\ got \in [RPCs -> Entries \cup {nil}] /\ phase \in [RPCs -> Phases]
          /\ now \in Nat /\ exp \in [Credentials -> Claims] /\ cacheKey(s, c) \in Keys
      BY DEF Inv, LocalsOK, TypeOK, Keys
    <2>2. CASE Cache!FetchNothing(r)
      BY <2>1, <2>2 DEF Cache!FetchNothing, Phases
    <2>3. CASE Cache!Fetch(r, Key(r))
      <3>1. cacheKey(s, c) \in DOMAIN cell /\ got' = [got EXCEPT ![r] = cell[cacheKey(s, c)]]
        BY <1>5, <2>3 DEF Cache!Fetch
      <3>2. EntryFor(live, exp, now, cacheKey(s, c), cell[cacheKey(s, c)])
        BY <3>1 DEF Inv, CacheInv
      <3>3. cell[cacheKey(s, c)] \in Entries
        BY <2>1, <3>2, EntryType
      <3> QED
        BY <2>1, <2>3, <3>1, <3>2, <3>3 DEF Cache!Fetch, Phases
    <2>4. CASE Cache!Hit(r)
      <3>1. EntryFor(live, exp, now, cacheKey(s, c), got[r])
        BY <1>4, <2>4 DEF Cache!Hit, Inv, RPCInv, Working
      <3> QED
        BY <2>1, <2>4, <3>1 DEF Cache!Hit, Phases
    <2>5. CASE Cache!Miss(r)
      BY <2>1, <2>5 DEF Cache!Miss, Phases
    <2> QED
      BY <2>2, <2>3, <2>4, <2>5 DEF CacheGet
  <1>7. LocalsOK'
    BY <1>0, <1>6 DEF Inv, LocalsOK
  <1>8. ASSUME NEW q \in RPCs, q # r PROVE RPCInv(q)'
    BY <1>0, <1>1, <1>6, <1>8, RPCFrame
  <1>9. RPCInv(r)'
    <2>1. pc[r] = "cache_get"
      BY DEF CacheGet
    <2>2. Working(r, s, c)'
      BY <1>0, <1>6, <2>1 DEF Working
    <2> QED
      BY <1>0, <1>4, <2>1, <2>2, HeaderFields, HeaderInjective DEF RPCInv
  <1> QED
    BY <1>2, <1>3, <1>7, <1>8, <1>9 DEF Inv

(* CacheReturn: what is accepted is the result of the entry. *)
LEMMA CacheReturnInv == ASSUME NEW r \in RPCs, Inv, CacheReturn(r) PROVE Inv'
  <1>0. UNCHANGED <<now, cell, useCache, exp, live, header, idx, reply, setAt, code>>
    BY DEF CacheReturn, Cache!Return, Accept, Goto
  <1>1. now' \in Nat /\ now <= now' /\ live' \subseteq live
    BY <1>0 DEF Inv, TypeOK
  <1>2. CacheInv'
    BY <1>0, <1>1, CacheFrame
  <1>3. PICK s \in Schemes, c \in Credentials : header[r] = Header(s, c)
    BY HeaderCases DEF CacheReturn, Inv, TypeOK, RPCInv
  <1>4. Working(r, s, c)
    BY <1>3 DEF Inv, RPCInv
  <1>5. phase[r] = "hit" => Vouched(live, exp, cacheKey(s, c), got[r].result)
    BY <1>4 DEF Working, EntryFor
  <1>6. /\ phase[r] = "hit" => pc' = [pc EXCEPT ![r] = "accepted"] /\
                                result' = [result EXCEPT ![r] = got[r].result]
        /\ phase[r] # "hit" => pc' = [pc EXCEPT ![r] = "dispatch"] /\ result' = result
        /\ got' = [got EXCEPT ![r] = nil] /\ phase' = [phase EXCEPT ![r] = "idle"]
    BY DEF CacheReturn, Cache!Return, Accept, Goto
  <1>7. TypeOK'
    <2>1. phase[r] = "hit" => got[r].result \in Results
      BY <1>5 DEF Vouched
    <2>2. pc' \in [RPCs -> PCs] /\ result' \in [RPCs -> Results \cup {nil}]
      BY <1>6, <2>1 DEF Inv, TypeOK, PCs
    <2>3. pc'[r] \in {"accepted", "dispatch"} /\ \A q \in RPCs : q # r => pc'[q] = pc[q]
      BY <1>6 DEF Inv, TypeOK
    <2> QED
      BY <1>0, <2>2, <2>3 DEF Inv, TypeOK, Chain
  <1>8. LocalsOK'
    BY <1>0, <1>6 DEF Inv, LocalsOK, Phases
  <1>9. ASSUME NEW q \in RPCs, q # r PROVE RPCInv(q)'
    BY <1>0, <1>1, <1>6, <1>9, RPCFrame DEF Inv, TypeOK, LocalsOK
  <1>10. RPCInv(r)'
    <2>1. /\ phase'[r] = "idle" /\ pc'[r] \in {"accepted", "dispatch"}
          /\ pc'[r] = "accepted" => phase[r] = "hit" /\ result'[r] = got[r].result
      BY <1>6 DEF Inv, TypeOK, LocalsOK
    <2>2. Working(r, s, c)'
      BY <1>0, <1>5, <2>1 DEF Working
    <2> QED
      BY <1>0, <1>3, <2>1, <2>2, HeaderFields, HeaderInjective DEF RPCInv
  <1> QED
    BY <1>2, <1>7, <1>8, <1>9, <1>10 DEF Inv

(* Dispatch: a scheme without strategies is refused, nothing else is. *)
LEMMA DispatchInv == ASSUME NEW r \in RPCs, Inv, Dispatch(r) PROVE Inv'
  <1>0. /\ UNCHANGED <<now, cell, got, phase, useCache, exp, live, header, reply, setAt, result>>
        /\ pc[r] = "dispatch"
    BY DEF Dispatch, cacheVars, Reject
  <1>1. now' \in Nat /\ now <= now' /\ live' \subseteq live
    BY <1>0 DEF Inv, TypeOK
  <1>2. CacheInv'
    BY <1>0, <1>1, CacheFrame
  <1>3. PICK s \in Schemes, c \in Credentials : header[r] = Header(s, c)
    BY <1>0, HeaderCases DEF Inv, TypeOK, RPCInv
  <1>4. Chain(r) = chain(s)
    BY <1>3, HeaderFields DEF Chain
  <1>5. chain(s) \in Seq(Introspectors) /\ (chain(s) # <<>> => 1 \in DOMAIN chain(s))
    BY ChainType
  <1>6. \/ /\ chain(s) = <<>> /\ pc' = [pc EXCEPT ![r] = "rejected"]
           /\ code' = [code EXCEPT ![r] = "Unauthenticated"] /\ idx' = idx
        \/ /\ chain(s) # <<>> /\ pc' = [pc EXCEPT ![r] = "call"]
           /\ code' = code /\ idx' = [idx EXCEPT ![r] = 1]
    BY <1>4 DEF Dispatch, Reject, Goto
  <1>7. /\ pc' \in [RPCs -> PCs] /\ code' \in [RPCs -> {"Unauthenticated", "Internal", nil}]
        /\ idx' \in [RPCs -> Nat]
        /\ \A q \in RPCs : q # r => pc'[q] = pc[q] /\ code'[q] = code[q] /\ idx'[q] = idx[q]
        /\ \/ chain(s) = <<>> /\ pc'[r] = "rejected"
           \/ chain(s) # <<>> /\ pc'[r] = "call" /\ idx'[r] = 1
    <2>1. /\ pc \in [RPCs -> PCs] /\ code \in [RPCs -> {"Unauthenticated", "Internal", nil}]
          /\ idx \in [RPCs -> Nat] /\ "rejected" \in PCs /\ "call" \in PCs
      BY DEF Inv, TypeOK, LocalsOK, PCs
    <2>2. CASE chain(s) = <<>>
      BY <1>6, <2>1, <2>2
    <2>3. CASE chain(s) # <<>>
      BY <1>6, <2>1, <2>3
    <2> QED
      BY <2>2, <2>3
  <1>8. TypeOK'
    BY <1>0, <1>4, <1>5, <1>7 DEF Inv, TypeOK, Chain
  <1>9. LocalsOK'
    BY <1>0, <1>7 DEF Inv, LocalsOK
  <1>10. ASSUME NEW q \in RPCs, q # r PROVE RPCInv(q)'
    BY <1>0, <1>1, <1>7, <1>10, RPCFrame
  <1>11. RPCInv(r)'
    <2>1. phase[r] = "idle"
      BY <1>0 DEF Inv, RPCInv
    <2>2. PassedBy(live, s, c, 1) /\ (chain(s) = <<>> => PassedBy(live, s, c, Len(chain(s)) + 1))
      BY DEF PassedBy
    <2>3. Working(r, s, c)'
      BY <1>0, <1>7, <2>1, <2>2 DEF Working
    <2> QED
      BY <1>0, <1>3, <1>7, <2>1, <2>3, HeaderFields, HeaderInjective DEF RPCInv
  <1> QED
    BY <1>2, <1>8, <1>9, <1>10, <1>11 DEF Inv

(* Decide: the answer is about the strategy and the credential that were   *)
(* asked, as they stand.                                                   *)
LEMMA DecideAnswer ==
    ASSUME NEW r \in RPCs, Inv, Decide(r), NEW s \in Schemes, NEW c \in Credentials,
           header[r] = Header(s, c)
    PROVE  /\ idx[r] \in DOMAIN chain(s)
           /\ \E a \in Replies :
                /\ reply' = [reply EXCEPT ![r] = a]
                /\ ReplyFor(live, exp, chain(s)[idx[r]], s, c, a)
                /\ a.code = "OK" => <<chain(s)[idx[r]], c>> \in live
  <1>1. Chain(r) = chain(s) /\ Credential(r) = c
    BY HeaderFields DEF Chain, Credential
  <1>2. idx[r] \in DOMAIN chain(s) /\ exp[c] \in Claims
    BY <1>1 DEF Decide, Inv, TypeOK
  <1>3. chain(s)[idx[r]] \in Introspectors
    BY <1>2, ChainType
  <1> DEFINE i == chain(s)[idx[r]]
             isLive == <<i, c>> \in live
             imprecise == i \in Imprecise
  <1>4. PICK a \in Answers[isLive][imprecise][exp[c]] :
            reply' = [reply EXCEPT ![r] = [code |-> a.code, result |-> ResultOf(a, i, header[r])]]
    BY <1>1 DEF Decide
  <1>5. isLive \in BOOLEAN /\ imprecise \in BOOLEAN
    OBVIOUS
  <1> HIDE DEF isLive, imprecise
  <1>6. /\ a.code \in Codes /\ a.exp = exp[c]
        /\ a.code = "OK" => isLive
        /\ a.code = "Unauthenticated" => ~ isLive \/ imprecise
    BY <1>2, <1>4, <1>5, AnswersExchange
  <1>7. [code |-> a.code, result |-> ResultOf(a, i, header[r])] \in Replies
    BY <1>2, <1>3, <1>6, HeaderFields DEF Replies, Results, ResultOf
  <1>8. ReplyFor(live, exp, i, s, c, [code |-> a.code, result |-> ResultOf(a, i, header[r])])
    BY <1>6, HeaderFields DEF ReplyFor, DeclinedAt, ResultOf, isLive, imprecise
  <1> QED
    BY <1>2, <1>4, <1>6, <1>7, <1>8 DEF isLive

(* Decide *)
LEMMA DecideInv == ASSUME NEW r \in RPCs, Inv, Decide(r) PROVE Inv'
  <1>0. /\ UNCHANGED <<now, cell, got, phase, useCache, exp, live, header, idx, setAt, result, code>>
        /\ pc[r] = "call" /\ pc' = [pc EXCEPT ![r] = "reply"]
    BY DEF Decide, cacheVars, Goto
  <1>1. now' \in Nat /\ now <= now' /\ live' \subseteq live
    BY <1>0 DEF Inv, TypeOK
  <1>2. CacheInv'
    BY <1>0, <1>1, CacheFrame
  <1>3. PICK s \in Schemes, c \in Credentials : header[r] = Header(s, c)
    BY <1>0, HeaderCases DEF Inv, TypeOK, RPCInv
  <1>4. PICK a \in Replies :
            /\ reply' = [reply EXCEPT ![r] = a]
            /\ ReplyFor(live, exp, chain(s)[idx[r]], s, c, a)
    BY <1>3, DecideAnswer
  <1>5. /\ pc' \in [RPCs -> PCs] /\ reply' \in [RPCs -> Replies \cup {nil}]
        /\ pc'[r] = "reply" /\ reply'[r] = a
        /\ \A q \in RPCs : q # r => pc'[q] = pc[q] /\ reply'[q] = reply[q]
    BY <1>0, <1>4 DEF Inv, TypeOK, LocalsOK, PCs
  <1>6. TypeOK'
    BY <1>0, <1>5 DEF Inv, TypeOK, Chain
  <1>7. LocalsOK'
    BY <1>0, <1>5 DEF Inv, LocalsOK
  <1>8. ASSUME NEW q \in RPCs, q # r PROVE RPCInv(q)'
    BY <1>0, <1>1, <1>5, <1>8, RPCFrame
  <1>9. RPCInv(r)'
    <2>1. phase[r] = "idle" /\ Working(r, s, c)
      BY <1>0, <1>3 DEF Inv, RPCInv
    <2>2. Working(r, s, c)'
      BY <1>0, <1>4, <1>5, <2>1 DEF Working
    <2> QED
      BY <1>0, <1>3, <1>5, <2>1, <2>2, HeaderFields, HeaderInjective DEF RPCInv
  <1> QED
    BY <1>2, <1>6, <1>7, <1>8, <1>9 DEF Inv

(* Receive: a positive answer is a result that the chain can give; a       *)
(* negative one counts its strategy among those that have declined.        *)
LEMMA ReceiveInv == ASSUME NEW r \in RPCs, Inv, Receive(r) PROVE Inv'
  <1>0. /\ UNCHANGED <<now, cell, got, phase, useCache, exp, live, header, setAt>>
        /\ pc[r] = "reply"
    BY DEF Receive, cacheVars
  <1>1. now' \in Nat /\ now <= now' /\ live' \subseteq live
    BY <1>0 DEF Inv, TypeOK
  <1>2. CacheInv'
    BY <1>0, <1>1, CacheFrame
  <1>3. PICK s \in Schemes, c \in Credentials : header[r] = Header(s, c)
    BY <1>0, HeaderCases DEF Inv, TypeOK, RPCInv
  <1>4. /\ Chain(r) = chain(s) /\ idx[r] \in DOMAIN chain(s) /\ exp \in [Credentials -> Claims]
        /\ Len(chain(s)) \in Nat /\ DOMAIN chain(s) = 1 .. Len(chain(s))
    BY <1>0, <1>3, HeaderFields, ChainType DEF Chain, Inv, TypeOK
  <1>5. phase[r] = "idle" /\ Working(r, s, c)
    BY <1>0, <1>3 DEF Inv, RPCInv
  <1>6. /\ PassedBy(live, s, c, idx[r])
        /\ ReplyFor(live, exp, chain(s)[idx[r]], s, c, reply[r])
        /\ Vouched(live, exp, cacheKey(s, c), reply[r].result)
    BY <1>0, <1>4, <1>5, ReplyVouched DEF Working
  <1>7. /\ pc \in [RPCs -> PCs] /\ code \in [RPCs -> {"Unauthenticated", "Internal", nil}]
        /\ idx \in [RPCs -> Nat] /\ reply \in [RPCs -> Replies \cup {nil}]
        /\ result \in [RPCs -> Results \cup {nil}]
        /\ reply[r].result \in Results /\ reply[r].code \in {"OK", "Unauthenticated", "Internal"}
    BY <1>6 DEF Inv, TypeOK, LocalsOK, Vouched, ReplyFor, Codes
  <1>8. \A q \in RPCs : q # r => /\ pc'[q] = pc[q] /\ code'[q] = code[q] /\ idx'[q] = idx[q]
                                 /\ reply'[q] = reply[q] /\ result'[q] = result[q]
    BY <1>7 DEF Receive, Goto, Accept, Reject
  <1>9. ASSUME NEW q \in RPCs, q # r PROVE RPCInv(q)'
    BY <1>0, <1>1, <1>8, <1>9, RPCFrame
  <1>10. SUFFICES /\ pc' \in [RPCs -> PCs] /\ code' \in [RPCs -> {"Unauthenticated", "Internal", nil}]
                  /\ idx' \in [RPCs -> Nat] /\ reply' \in [RPCs -> Replies \cup {nil}]
                  /\ result' \in [RPCs -> Results \cup {nil}]
                  /\ pc'[r] \in {"set", "accepted", "call", "rejected"}
                  /\ pc'[r] \in {"set", "call"} => idx'[r] \in DOMAIN chain(s)
                  /\ Working(r, s, c)'
    <2>1. TypeOK'
      BY <1>0, <1>4, <1>8, <1>10 DEF Inv, TypeOK, Chain
    <2>2. LocalsOK'
      BY <1>0, <1>10 DEF Inv, LocalsOK
    <2>3. RPCInv(r)'
      BY <1>0, <1>3, <1>5, <1>10, HeaderFields, HeaderInjective DEF RPCInv
    <2> QED
      BY <1>2, <1>9, <2>1, <2>2, <2>3 DEF Inv
  <1> USE <1>0, <1>4, <1>5, <1>6, <1>7 DEF Working, Goto, Accept, Reject, PCs
  <1>11. CASE /\ reply[r].code = "OK" /\ Goto(r, "set") /\ UNCHANGED <<idx, reply, result, code>>
    BY <1>11
  <1>12. CASE /\ reply[r].code = "OK" /\ Accept(r, reply[r].result)
              /\ reply' = [reply EXCEPT ![r] = nil] /\ UNCHANGED idx
    BY <1>12
  <1>13. CASE /\ reply[r].code = "Unauthenticated" /\ idx[r] < Len(Chain(r))
              /\ Goto(r, "call") /\ idx' = [idx EXCEPT ![r] = @ + 1]
              /\ reply' = [reply EXCEPT ![r] = nil] /\ UNCHANGED <<result, code>>
    <2>1. PassedBy(live, s, c, idx[r] + 1)
      BY <1>13, PassedOneMore DEF ReplyFor
    <2> QED
      BY <1>13, <2>1
  <1>14. CASE /\ reply[r].code = "Unauthenticated" /\ idx[r] = Len(Chain(r))
              /\ Reject(r, "Unauthenticated")
              /\ reply' = [reply EXCEPT ![r] = nil] /\ UNCHANGED idx
    <2>1. PassedBy(live, s, c, Len(chain(s)) + 1)
      BY <1>14, PassedOneMore DEF ReplyFor
    <2> QED
      BY <1>14, <2>1
  <1>15. CASE /\ reply[r].code \notin {"OK", "Unauthenticated"} /\ Reject(r, reply[r].code)
              /\ reply' = [reply EXCEPT ![r] = nil] /\ UNCHANGED idx
    BY <1>15
  <1> QED
    BY <1>11, <1>12, <1>13, <1>14, <1>15 DEF Receive

(* CacheSet *)
LEMMA CacheSetInv == ASSUME NEW r \in RPCs, Inv, CacheSet(r) PROVE Inv'
  <1>0. /\ UNCHANGED <<now, cell, got, phase, useCache, exp, live, header, idx, reply, result, code>>
        /\ pc[r] = "set" /\ pc' = [pc EXCEPT ![r] = "put"] /\ setAt' = [setAt EXCEPT ![r] = now]
    BY DEF CacheSet, cacheVars, Goto
  <1>1. now' \in Nat /\ now <= now' /\ live' \subseteq live
    BY <1>0 DEF Inv, TypeOK
  <1>2. CacheInv'
    BY <1>0, <1>1, CacheFrame
  <1>3. PICK s \in Schemes, c \in Credentials : header[r] = Header(s, c)
    BY <1>0, HeaderCases DEF Inv, TypeOK, RPCInv
  <1>4. /\ pc' \in [RPCs -> PCs] /\ setAt' \in [RPCs -> Nat]
        /\ pc'[r] = "put" /\ setAt'[r] = now
        /\ \A q \in RPCs : q # r => pc'[q] = pc[q] /\ setAt'[q] = setAt[q]
    BY <1>0 DEF Inv, TypeOK, LocalsOK, PCs
  <1>5. TypeOK'
    BY <1>0, <1>4 DEF Inv, TypeOK, Chain
  <1>6. LocalsOK'
    BY <1>0, <1>4 DEF Inv, LocalsOK
  <1>7. ASSUME NEW q \in RPCs, q # r PROVE RPCInv(q)'
    BY <1>0, <1>1, <1>4, <1>7, RPCFrame
  <1>8. RPCInv(r)'
    <2>1. phase[r] = "idle" /\ Working(r, s, c)
      BY <1>0, <1>3 DEF Inv, RPCInv
    <2>2. Working(r, s, c)'
      BY <1>0, <1>1, <1>4, <2>1 DEF Working
    <2> QED
      BY <1>0, <1>3, <1>4, <2>1, <2>2, HeaderFields, HeaderInjective DEF RPCInv
  <1> QED
    BY <1>2, <1>5, <1>6, <1>7, <1>8 DEF Inv

(* CachePut: what is stored is what the chain gave for this very key, with *)
(* the clock reading of this Set.                                          *)
LEMMA CachePutInv == ASSUME NEW r \in RPCs, Inv, CachePut(r) PROVE Inv'
  <1>0. /\ UNCHANGED <<now, got, phase, useCache, exp, live, header, idx, code>>
        /\ pc[r] = "put" /\ pc' = [pc EXCEPT ![r] = "accepted"]
        /\ result' = [result EXCEPT ![r] = reply[r].result]
        /\ reply' = [reply EXCEPT ![r] = nil] /\ setAt' = [setAt EXCEPT ![r] = 0]
        /\ cell' = Cache!With(cell, Key(r), Cache!MakeEntry(Key(r), reply[r].result, setAt[r]))
    BY DEF CachePut, Cache!Put, Accept, Goto
  <1>1. now' \in Nat /\ now <= now' /\ live' \subseteq live
    BY <1>0 DEF Inv, TypeOK
  <1>2. PICK s \in Schemes, c \in Credentials : header[r] = Header(s, c)
    BY <1>0, HeaderCases DEF Inv, TypeOK, RPCInv
  <1>3. /\ Chain(r) = chain(s) /\ idx[r] \in DOMAIN chain(s) /\ exp \in [Credentials -> Claims]
        /\ Key(r) = cacheKey(s, c) /\ setAt[r] \in Nat
    BY <1>0, <1>2, HeaderFields DEF Chain, Key, Inv, TypeOK, LocalsOK
  <1>4. phase[r] = "idle" /\ Working(r, s, c)
    BY <1>0, <1>2 DEF Inv, RPCInv
  <1>5. Vouched(live, exp, cacheKey(s, c), reply[r].result) /\ setAt[r] <= now
    BY <1>0, <1>3, <1>4, ReplyVouched DEF Working
  <1> DEFINE e == Cache!MakeEntry(Key(r), reply[r].result, setAt[r])
  <1>6. e.result = reply[r].result /\ e.setAt = setAt[r]
    BY DEF Cache!MakeEntry
  <1>7. EntryFor(live, exp, now, cacheKey(s, c), e)
    BY <1>1, <1>0, <1>3, <1>5, <1>6 DEF EntryFor
  <1> HIDE DEF e
  <1>8. /\ DOMAIN cell' = DOMAIN cell \cup {Key(r)}
        /\ cell'[Key(r)] = e
        /\ \A k \in DOMAIN cell : k # Key(r) => cell'[k] = cell[k]
    BY <1>0 DEF Cache!With, e
  <1>9. CacheInv'
    BY <1>0, <1>3, <1>7, <1>8 DEF Inv, CacheInv
  <1>10. /\ pc' \in [RPCs -> PCs] /\ setAt' \in [RPCs -> Nat]
         /\ result' \in [RPCs -> Results \cup {nil}] /\ reply' \in [RPCs -> Replies \cup {nil}]
         /\ pc'[r] = "accepted" /\ result'[r] = reply[r].result
         /\ \A q \in RPCs : q # r => /\ pc'[q] = pc[q] /\ setAt'[q] = setAt[q]
                                     /\ reply'[q] = reply[q] /\ result'[q] = result[q]
    BY <1>0, <1>5 DEF Inv, TypeOK, LocalsOK, PCs, Vouched
  <1>11. DOMAIN cell' \subseteq Keys /\ \A k \in DOMAIN cell' : cell'[k].result \in Results
    <2>1. Key(r) \in Keys /\ e.result \in Results
      BY <1>3, <1>5, <1>6 DEF Keys, Vouched
    <2> QED
      BY <1>8, <2>1 DEF Inv, TypeOK
  <1>12. TypeOK'
    BY <1>0, <1>10, <1>11 DEF Inv, TypeOK, Chain
  <1>13. LocalsOK'
    BY <1>0, <1>10 DEF Inv, LocalsOK
  <1>14. ASSUME NEW q \in RPCs, q # r PROVE RPCInv(q)'
    BY <1>0, <1>1, <1>10, <1>14, RPCFrame
  <1>15. RPCInv(r)'
    <2>1. Working(r, s, c)'
      BY <1>0, <1>4, <1>5, <1>10 DEF Working
    <2> QED
      BY <1>0, <1>2, <1>4, <1>10, <2>1, HeaderFields, HeaderInjective DEF RPCInv
  <1> QED
    BY <1>9, <1>12, <1>13, <1>14, <1>15 DEF Inv

(* Finish *)
LEMMA FinishInv == ASSUME NEW r \in RPCs, Inv, Finish(r) PROVE Inv'
  <1>0. /\ UNCHANGED <<now, cell, got, phase, useCache, exp, live, reply, setAt>>
        /\ pc[r] \in {"accepted", "passed", "rejected"} /\ pc' = [pc EXCEPT ![r] = "idle"]
        /\ header' = [header EXCEPT ![r] = NoHeader] /\ idx' = [idx EXCEPT ![r] = 0]
        /\ result' = [result EXCEPT ![r] = nil] /\ code' = [code EXCEPT ![r] = nil]
    BY DEF Finish, cacheVars, Goto
  <1>1. now' \in Nat /\ now <= now' /\ live' \subseteq live
    BY <1>0 DEF Inv, TypeOK
  <1>2. CacheInv'
    BY <1>0, <1>1, CacheFrame
  <1>3. /\ pc' \in [RPCs -> PCs] /\ header' \in [RPCs -> Headers] /\ idx' \in [RPCs -> Nat]
        /\ result' \in [RPCs -> Results \cup {nil}]
        /\ code' \in [RPCs -> {"Unauthenticated", "Internal", nil}]
        /\ pc'[r] = "idle" /\ header'[r] = NoHeader
        /\ \A q \in RPCs : q # r => /\ pc'[q] = pc[q] /\ header'[q] = header[q] /\ idx'[q] = idx[q]
                                    /\ result'[q] = result[q] /\ code'[q] = code[q]
    BY <1>0 DEF Inv, TypeOK, LocalsOK, PCs, Headers
  <1>4. TypeOK'
    BY <1>0, <1>3 DEF Inv, TypeOK, Chain
  <1>5. LocalsOK'
    BY <1>0, <1>3 DEF Inv, LocalsOK
  <1>6. ASSUME NEW q \in RPCs, q # r PROVE RPCInv(q)'
    BY <1>0, <1>1, <1>3, <1>6, RPCFrame
  <1>7. RPCInv(r)'
    <2>1. phase[r] = "idle"
      BY <1>0 DEF Inv, RPCInv
    <2> QED
      BY <1>0, <1>3, <2>1, HeaderFields DEF RPCInv
  <1> QED
    BY <1>2, <1>4, <1>5, <1>6, <1>7 DEF Inv

(* A step that changes nothing keeps everything. *)
LEMMA StutterInv == Inv /\ UNCHANGED vars => Inv'
  <1> SUFFICES ASSUME Inv, UNCHANGED vars PROVE Inv'
    OBVIOUS
  <1> USE DEF vars, cacheVars, rpcVars
  <1>1. now' \in Nat /\ now <= now' /\ live' \subseteq live
    BY DEF Inv, TypeOK
  <1>2. CacheInv'
    BY <1>1, CacheFrame
  <1>3. TypeOK' /\ LocalsOK'
    BY DEF Inv, TypeOK, LocalsOK, Chain
  <1>4. ASSUME NEW r \in RPCs PROVE RPCInv(r)'
    BY <1>1, RPCFrame
  <1> QED
    BY <1>2, <1>3, <1>4 DEF Inv

(* Every step keeps the invariant. *)
LEMMA InvNext == Inv /\ [Next]_vars => Inv'
  <1> SUFFICES ASSUME Inv, [Next]_vars PROVE Inv'
    OBVIOUS
  <1>1. ASSUME NEW r \in RPCs, Step(r) PROVE Inv'
    BY <1>1, CacheGetInv, CacheReturnInv, DispatchInv, DecideInv, ReceiveInv, CacheSetInv,
       CachePutInv DEF Step
  <1> QED
    BY <1>1, StutterInv, TickInv, RevokeInv, CacheLosesInv, BeginInv, FinishInv DEF Next

-----------------------------------------------------------------------------
(* What follows for every behaviour of the interceptor *)

(* The invariant holds in every state that the interceptor reaches. *)
THEOREM Invariance == Spec => []Inv
  BY InvInit, InvNext, PTL DEF Spec

(* The state is always well formed, and a strategy that is being asked is  *)
(* one of the chain: introspect never runs past its end.                   *)
THEOREM TypeCorrect == Spec => []TypeOK
  <1>1. Inv => TypeOK
    BY DEF Inv
  <1> QED
    BY <1>1, Invariance, PTL

(* An accepted RPC has a result for the key of its own header. *)
LEMMA AcceptedVouched ==
    ASSUME Inv, NEW r \in RPCs, pc[r] = "accepted"
    PROVE  /\ \E s \in Schemes, c \in Credentials : header[r] = Header(s, c)
           /\ Vouched(live, exp, Key(r), result[r])
  <1>1. PICK s \in Schemes, c \in Credentials : header[r] = Header(s, c)
    BY HeaderCases DEF Inv, TypeOK, RPCInv
  <1>2. Working(r, s, c)
    BY <1>1 DEF Inv, RPCInv
  <1> QED
    BY <1>1, <1>2, HeaderFields DEF Working, Key

(* Only a colon within a scheme lets two headers read the same: the first  *)
(* colon of the joined text ends a scheme that has none.                   *)
LEMMA KeySplits ==
    ASSUME NEW s \in Seq(STRING), NEW c \in Seq(STRING), NEW t \in Seq(STRING),
           NEW d \in Seq(STRING), ":" \notin ToSet(s), ":" \notin ToSet(t),
           s \o <<":">> \o c = t \o <<":">> \o d
    PROVE  s = t /\ c = d
  <1> DEFINE u == s \o <<":">> \o c
             v == t \o <<":">> \o d
  <1>1. /\ \A i \in 1 .. Len(s) : u[i] = s[i] /\ s[i] # ":"
        /\ u[Len(s) + 1] = ":" /\ Len(u) = Len(s) + 1 + Len(c)
        /\ \A i \in 1 .. Len(c) : u[Len(s) + 1 + i] = c[i]
    BY DEF ToSet
  <1>2. /\ \A i \in 1 .. Len(t) : v[i] = t[i] /\ t[i] # ":"
        /\ v[Len(t) + 1] = ":" /\ Len(v) = Len(t) + 1 + Len(d)
        /\ \A i \in 1 .. Len(d) : v[Len(t) + 1 + i] = d[i]
    BY DEF ToSet
  <1>3. u = v
    OBVIOUS
  <1>0. Len(s) \in Nat /\ Len(t) \in Nat /\ Len(c) \in Nat /\ Len(d) \in Nat
    BY LenProperties
  <1> HIDE DEF u, v
  <1>4. Len(s) = Len(t)
    <2>1. CASE Len(s) < Len(t)
      <3>1. Len(s) + 1 \in 1 .. Len(t)
        BY <1>0, <2>1
      <3> QED
        BY <1>1, <1>2, <1>3, <3>1
    <2>2. CASE Len(t) < Len(s)
      <3>1. Len(t) + 1 \in 1 .. Len(s)
        BY <1>0, <2>2
      <3> QED
        BY <1>1, <1>2, <1>3, <3>1
    <2> QED
      BY <1>0, <2>1, <2>2
  <1>5. Len(c) = Len(d)
    BY <1>1, <1>2, <1>3, <1>4
  <1>6. \A i \in 1 .. Len(s) : s[i] = t[i]
    BY <1>1, <1>2, <1>3, <1>4
  <1>7. \A i \in 1 .. Len(c) : c[i] = d[i]
    BY <1>1, <1>2, <1>3, <1>4, <1>5
  <1> QED
    BY <1>4, <1>5, <1>6, <1>7, SeqEqual

(* No handler ever sees the identity of another credential or one that a   *)
(* strategy of another scheme vouched for, in spite of the shared cache,   *)
(* unless a scheme with a colon makes the two headers read the same.       *)
THEOREM IdentityIsOwn == Spec => []OwnIdentity
  <1>1. Inv => OwnIdentity
    <2> SUFFICES ASSUME Inv, NEW r \in RPCs, pc[r] = "accepted"
                 PROVE  LET s == result[r].scheme
                            c == result[r].credential
                            h == header[r]
                        IN  /\ result[r].by \in ToSet(chain(s))
                            /\ \/ h = Header(s, c)
                               \/ /\ s \o <<":">> \o c = h.scheme \o <<":">> \o h.credential
                                  /\ ":" \in ToSet(s) \cup ToSet(h.scheme)
      BY DEF OwnIdentity
    <2> DEFINE s == result[r].scheme
               c == result[r].credential
    <2>1. PICK t \in Schemes, d \in Credentials : header[r] = Header(t, d)
      BY AcceptedVouched
    <2>2. header[r].scheme = t /\ header[r].credential = d
      BY <2>1, HeaderFields
    <2>3. /\ s \in Schemes /\ c \in Credentials /\ result[r].by \in ToSet(chain(s))
          /\ cacheKey(s, c) = cacheKey(t, d)
      BY <2>2, AcceptedVouched DEF Vouched, Results, Key, ToSet
    <2>4. s \in Seq(STRING) /\ c \in Seq(STRING) /\ t \in Seq(STRING) /\ d \in Seq(STRING)
      BY <2>3, TextsAssumption
    <2>5. s \o <<":">> \o c = t \o <<":">> \o d
      BY <2>3 DEF cacheKey
    <2> HIDE DEF s, c
    <2>6. ":" \in ToSet(s) \cup ToSet(t) \/ (s = t /\ c = d)
      BY <2>4, <2>5, KeySplits
    <2> QED
      BY <2>1, <2>2, <2>3, <2>5, <2>6 DEF s, c
  <1> QED
    BY <1>1, Invariance, PTL

(* Whoever vouches for a credential, through the cache or not: every       *)
(* strategy registered before it has declined.                             *)
THEOREM ChainInOrder == Spec => []EarlierStrategiesDeclined
  <1>1. Inv => EarlierStrategiesDeclined
    BY AcceptedVouched DEF EarlierStrategiesDeclined, Vouched, Chain, Declined, DeclinedAt
  <1> QED
    BY <1>1, Invariance, PTL

(* Unauthenticated is only ever said of a credential that no strategy of   *)
(* the chain holds to be active, imprecise endpoints apart.                *)
THEOREM RefusalIsAboutTheCredential == Spec => []UnauthenticatedMeansInactive
  <1>1. Inv => UnauthenticatedMeansInactive
    <2> SUFFICES ASSUME Inv, NEW r \in RPCs, pc[r] = "rejected", code[r] = "Unauthenticated",
                        header[r] # Malformed, NEW n \in DOMAIN Chain(r)
                 PROVE  Declined(Chain(r)[n], Credential(r))
      BY DEF UnauthenticatedMeansInactive
    <2>1. PICK s \in Schemes, c \in Credentials : header[r] = Header(s, c)
      BY HeaderCases DEF Inv, TypeOK, RPCInv
    <2>2. Working(r, s, c) /\ Chain(r) = chain(s) /\ Credential(r) = c
      BY <2>1, HeaderFields DEF Inv, RPCInv, Chain, Credential
    <2> QED
      BY <2>2, ChainType DEF Working, PassedBy, Declined, DeclinedAt
  <1> QED
    BY <1>1, Invariance, PTL

-----------------------------------------------------------------------------
(* Action properties *)

(* Get answers with an entry only while its lifetime lasts, and that ends  *)
(* with the token.                                                         *)
LEMMA HitStep ==
    ASSUME Inv, Next, NEW r \in RPCs, phase[r] # "hit", phase'[r] = "hit",
           exp[got[r].result.credential] \in Nat
    PROVE  now <= exp[got[r].result.credential]
  <1>0. phase \in [RPCs -> Phases] /\ now \in Nat
    BY DEF Inv, LocalsOK, TypeOK
  <1>1. phase' # phase
    OBVIOUS
  <1>2. \E q \in RPCs : CacheGet(q) \/ CacheReturn(q)
    BY <1>1 DEF Next, Step, Tick, Cache!Advance, Revoke, CacheLoses, Cache!Lose, Begin, Dispatch,
                Decide, Receive, CacheSet, CachePut, Cache!Put, Finish, cacheVars
  <1>3. CacheGet(r) /\ Cache!Hit(r)
    BY <1>0, <1>2 DEF CacheGet, CacheReturn, Cache!Return, Cache!FetchNothing, Cache!Fetch,
                      Cache!Hit, Cache!Miss
  <1>4. PICK s \in Schemes, c \in Credentials : header[r] = Header(s, c)
    BY <1>3, HeaderCases DEF CacheGet, Inv, TypeOK, RPCInv
  <1>5. cacheKey(s, c) \in Keys /\ exp \in [Credentials -> Claims]
    BY <1>4 DEF Keys, Inv, TypeOK
  <1>6. EntryFor(live, exp, now, cacheKey(s, c), got[r])
    BY <1>3, <1>4 DEF Cache!Hit, Inv, RPCInv, Working
  <1>7. got[r].expiresAt \in Int /\ got[r].expiresAt <= exp[got[r].result.credential]
    BY <1>0, <1>5, <1>6, EntryType DEF Entries
  <1>8. now <= got[r].expiresAt
    BY <1>3 DEF Cache!Hit, Cache!Fresh
  <1>9. exp[got[r].result.credential] \in Int
    OBVIOUS
  <1> QED
    BY <1>0, <1>7, <1>8, <1>9

(* No RPC is given a result from the cache after the end of its token. *)
THEOREM NoHitAfterExp == Spec => HitBeforeExp
  <1>1. Inv /\ [Next]_vars =>
            [\A r \in RPCs : phase[r] # "hit" /\ phase'[r] = "hit" =>
                LET end == exp[got[r].result.credential]
                IN  end \in Nat => now <= end]_vars
    BY HitStep
  <1> QED
    BY <1>1, Invariance, PTL DEF Spec, HitBeforeExp

(* The entries and answers under key k, as far as a drained key is         *)
(* concerned: r carries none of them to the cache or to a handler.         *)
Quiet(r, k) ==
    header[r].kind = "credential" /\ Key(r) = k =>
        /\ pc[r] \notin {"set", "put", "accepted"}
        /\ pc[r] = "reply" => reply[r].code # "OK"
        /\ phase[r] # "hit"
        /\ phase[r] = "fetched" => now > got[r].expiresAt

CellDead(k) == k \in DOMAIN cell => now > cell[k].expiresAt

(* Every credential behind k is revoked at every strategy of its scheme. *)
AllRevoked(k) ==
    \A s \in Schemes, c \in Credentials : cacheKey(s, c) = k =>
        \A n \in DOMAIN chain(s) : <<chain(s)[n], c>> \notin live

(* A header with a credential, by its kind. *)
LEMMA HeaderKind ==
    ASSUME NEW h \in Headers
    PROVE  h.kind = "credential" <=> h \notin {NoHeader, Malformed}
  BY DEF Headers, Header, NoHeader, Malformed

(* What a Get has fetched has a number for its end. *)
LEMMA FetchedEntry ==
    ASSUME Inv, NEW r \in RPCs, phase[r] = "fetched"
    PROVE  got[r].expiresAt \in Int
  <1>1. PICK s \in Schemes, c \in Credentials : header[r] = Header(s, c)
    BY HeaderCases DEF Inv, TypeOK, RPCInv
  <1>2. EntryFor(live, exp, now, cacheKey(s, c), got[r])
    BY <1>1 DEF Inv, RPCInv, Working
  <1>3. cacheKey(s, c) \in Keys /\ now \in Nat /\ exp \in [Credentials -> Claims]
    BY DEF Keys, Inv, TypeOK
  <1> QED
    BY <1>2, <1>3, EntryType DEF Entries

(* A key that is drained stays so in every step. *)
LEMMA DrainedStep ==
    ASSUME Inv, Next, NEW k \in Keys, Drained(k)
    PROVE  Drained(k)'
  <1>1. now \in Nat /\ \A r \in RPCs : Quiet(r, k)
    BY DEF Inv, TypeOK, Drained, Quiet
  <1>2. CellDead(k) /\ AllRevoked(k)
    BY DEF Drained, CellDead, AllRevoked
  <1>3. /\ phase \in [RPCs -> Phases] /\ pc \in [RPCs -> PCs] /\ header \in [RPCs -> Headers]
        /\ got \in [RPCs -> Entries \cup {nil}] /\ reply \in [RPCs -> Replies \cup {nil}]
    BY DEF Inv, LocalsOK, TypeOK
  <1>4. SUFFICES live' \subseteq live /\ CellDead(k)' /\ \A r \in RPCs : Quiet(r, k)'
    BY <1>2, <1>4 DEF Drained, Quiet, CellDead, AllRevoked
  <1>5. CASE Tick
    <2>1. k \in DOMAIN cell => cell[k].expiresAt \in Int
      BY <1>1, EntryType DEF Inv, CacheInv, TypeOK, Entries
    <2>2. \A r \in RPCs : phase[r] = "fetched" => got[r].expiresAt \in Int
      BY FetchedEntry
    <2> QED
      BY <1>1, <1>2, <1>5, <2>1, <2>2 DEF Tick, Cache!Advance, rpcVars, Quiet, CellDead, Key
  <1>6. ASSUME NEW i, NEW d, Revoke(i, d)
        PROVE  live' \subseteq live /\ CellDead(k)' /\ \A r \in RPCs : Quiet(r, k)'
    BY <1>1, <1>2, <1>6 DEF Revoke, cacheVars, rpcVars, Quiet, CellDead, Key
  <1>7. ASSUME NEW l, CacheLoses(l)
        PROVE  live' \subseteq live /\ CellDead(k)' /\ \A r \in RPCs : Quiet(r, k)'
    BY <1>1, <1>2, <1>7 DEF CacheLoses, Cache!Lose, Cache!Without, rpcVars, Quiet, CellDead, Key
  <1>8. ASSUME NEW r \in RPCs, NEW h \in Headers, Begin(r, h)
        PROVE  live' \subseteq live /\ CellDead(k)' /\ \A q \in RPCs : Quiet(q, k)'
    <2>1. phase[r] = "idle" /\ pc'[r] \in {"passed", "rejected", "cache_get", "dispatch"}
      BY <1>3, <1>8 DEF Begin, Goto, Reject, Inv, RPCInv
    <2> QED
      BY <1>1, <1>2, <1>3, <1>8, <2>1 DEF Begin, Goto, Reject, cacheVars, Quiet, CellDead, Key
  <1>9. ASSUME NEW r \in RPCs, CacheGet(r)
        PROVE  live' \subseteq live /\ CellDead(k)' /\ \A q \in RPCs : Quiet(q, k)'
    <2>1. UNCHANGED <<now, cell, live, pc, header, reply>>
      BY <1>9 DEF CacheGet, rpcVars, Cache!FetchNothing, Cache!Fetch, Cache!Hit, Cache!Miss
    <2>2. ASSUME NEW q \in RPCs, q # r PROVE got'[q] = got[q] /\ phase'[q] = phase[q]
      BY <1>3, <1>9, <2>2 DEF CacheGet, Cache!FetchNothing, Cache!Fetch, Cache!Hit, Cache!Miss
    <2>3. Quiet(r, k)'
      <3>1. SUFFICES ASSUME header[r].kind = "credential", Key(r) = k
                     PROVE  /\ phase'[r] # "hit"
                            /\ phase'[r] = "fetched" => now > got'[r].expiresAt
        BY <1>1, <2>1 DEF Quiet, Key
      <3>3. CASE Cache!FetchNothing(r)
        BY <1>3, <3>3 DEF Cache!FetchNothing
      <3>4. CASE Cache!Fetch(r, Key(r))
        BY <1>2, <1>3, <3>1, <3>4 DEF Cache!Fetch, CellDead
      <3>5. CASE Cache!Hit(r)
        <4>2. got[r].expiresAt \in Int
          BY <3>5, FetchedEntry DEF Cache!Hit
        <4> QED
          BY <1>1, <3>1, <3>5, <4>2 DEF Cache!Hit, Cache!Fresh, Quiet
      <3>6. CASE Cache!Miss(r)
        BY <1>3, <3>6 DEF Cache!Miss
      <3> QED
        BY <1>9, <3>3, <3>4, <3>5, <3>6 DEF CacheGet
    <2> QED
      BY <1>1, <1>2, <2>1, <2>2, <2>3 DEF Quiet, CellDead, Key
  <1>10. ASSUME NEW r \in RPCs, CacheReturn(r)
         PROVE  live' \subseteq live /\ CellDead(k)' /\ \A q \in RPCs : Quiet(q, k)'
    <2>1. UNCHANGED <<now, cell, live, header, reply>>
      BY <1>10 DEF CacheReturn, Cache!Return
    <2>2. /\ phase' = [phase EXCEPT ![r] = "idle"] /\ got' = [got EXCEPT ![r] = nil]
          /\ pc' = [pc EXCEPT ![r] = IF phase[r] = "hit" THEN "accepted" ELSE "dispatch"]
      BY <1>10 DEF CacheReturn, Cache!Return, Accept, Goto
    <2>3. ASSUME NEW q \in RPCs PROVE Quiet(q, k)'
      BY <1>1, <1>3, <2>1, <2>2 DEF Quiet, Key
    <2> QED
      BY <1>2, <2>1, <2>3 DEF CellDead
  <1>11. ASSUME NEW r \in RPCs, Dispatch(r) \/ CacheSet(r) \/ Finish(r)
         PROVE  live' \subseteq live /\ CellDead(k)' /\ \A q \in RPCs : Quiet(q, k)'
    <2>1. UNCHANGED <<now, cell, live, got, phase, reply>>
      BY <1>11 DEF Dispatch, CacheSet, Finish, cacheVars
    <2>2. /\ \A q \in RPCs : q # r => pc'[q] = pc[q] /\ header'[q] = header[q]
          /\ header'[r] = header[r] \/ header'[r] = NoHeader
          /\ pc'[r] \in {"rejected", "call", "idle"} \/ pc[r] = "set"
      BY <1>3, <1>11 DEF Dispatch, CacheSet, Finish, Goto, Reject
    <2>3. ASSUME NEW q \in RPCs PROVE Quiet(q, k)'
      BY <1>1, <2>1, <2>2 DEF Quiet, Key, NoHeader
    <2> QED
      BY <1>2, <2>1, <2>3 DEF CellDead
  <1>12. ASSUME NEW r \in RPCs, Decide(r)
         PROVE  live' \subseteq live /\ CellDead(k)' /\ \A q \in RPCs : Quiet(q, k)'
    <2>1. /\ UNCHANGED <<now, cell, live, got, phase, header>>
          /\ pc' = [pc EXCEPT ![r] = "reply"] /\ pc[r] = "call"
      BY <1>12 DEF Decide, cacheVars, Goto
    <2>2. Key(r) = k => reply'[r].code # "OK"
      <3>1. SUFFICES ASSUME Key(r) = k PROVE reply'[r].code # "OK"
        OBVIOUS
      <3>2. PICK s \in Schemes, c \in Credentials : header[r] = Header(s, c)
        BY <2>1, HeaderCases DEF Inv, TypeOK, RPCInv
      <3>3. cacheKey(s, c) = k
        BY <3>1, <3>2, HeaderFields DEF Key
      <3>4. PICK a \in Replies :
                reply' = [reply EXCEPT ![r] = a] /\ (a.code = "OK" => <<chain(s)[idx[r]], c>> \in live)
        BY <1>12, <3>2, DecideAnswer
      <3>5. idx[r] \in DOMAIN chain(s)
        BY <1>12, <3>2, DecideAnswer
      <3> QED
        BY <1>2, <1>3, <3>3, <3>4, <3>5 DEF AllRevoked
    <2>3. \A q \in RPCs : q # r => pc'[q] = pc[q] /\ reply'[q] = reply[q]
      BY <1>3, <1>12 DEF Decide, Goto
    <2>4. ASSUME NEW q \in RPCs PROVE Quiet(q, k)'
      BY <1>1, <1>3, <2>1, <2>2, <2>3 DEF Quiet, Key
    <2> QED
      BY <1>2, <2>1, <2>4 DEF CellDead
  <1>13. ASSUME NEW r \in RPCs, Receive(r)
         PROVE  live' \subseteq live /\ CellDead(k)' /\ \A q \in RPCs : Quiet(q, k)'
    <2>1. UNCHANGED <<now, cell, live, got, phase, header>> /\ pc[r] = "reply"
      BY <1>13 DEF Receive, cacheVars
    <2>2. /\ \A q \in RPCs : q # r => pc'[q] = pc[q] /\ reply'[q] = reply[q]
          /\ reply[r].code = "OK" \/ pc'[r] \in {"call", "rejected"}
      BY <1>3, <1>13 DEF Receive, Goto, Accept, Reject
    <2>3. ASSUME NEW q \in RPCs PROVE Quiet(q, k)'
      BY <1>1, <2>1, <2>2 DEF Quiet, Key
    <2> QED
      BY <1>2, <2>1, <2>3 DEF CellDead
  <1>14. ASSUME NEW r \in RPCs, CachePut(r)
         PROVE  live' \subseteq live /\ CellDead(k)' /\ \A q \in RPCs : Quiet(q, k)'
    <2>1. UNCHANGED <<now, live, got, phase, header>> /\ pc[r] = "put"
      BY <1>14 DEF CachePut, Cache!Put
    <2>2. header[r].kind = "credential"
      BY <2>1, HeaderKind DEF Inv, TypeOK, RPCInv
    <2>3. Key(r) # k
      BY <1>1, <2>1, <2>2 DEF Quiet
    <2>4. \A q \in RPCs : q # r => pc'[q] = pc[q] /\ reply'[q] = reply[q]
      BY <1>3, <1>14 DEF CachePut, Accept, Goto
    <2>5. CellDead(k)'
      BY <1>2, <1>14, <2>1, <2>3 DEF CachePut, Cache!Put, Cache!With, CellDead
    <2>6. ASSUME NEW q \in RPCs PROVE Quiet(q, k)'
      BY <1>1, <2>1, <2>3, <2>4 DEF Quiet, Key
    <2> QED
      BY <2>1, <2>5, <2>6
  <1> QED
    BY <1>5, <1>6, <1>7, <1>8, <1>9, <1>10, <1>11, <1>12, <1>13, <1>14 DEF Next, Step

(* Revocation is final for every key. *)
THEOREM RevocationFinal == Spec => RevocationIsFinal
  <1>1. Inv /\ [Next]_vars =>
            [\A k \in Keys : Drained(k) => Drained(k)']_vars
    BY DrainedStep
  <1> QED
    BY <1>1, Invariance, PTL DEF Spec, RevocationIsFinal

-----------------------------------------------------------------------------
(* The interceptor as a user of the cache *)

(* What the interceptor does with the cache is what the interface allows:  *)
(* every Set stores a result, with a clock reading that is not in the      *)
(* future, and every RPC makes one Get at a time.                          *)
THEOREM UsesTheCache == Spec => Cache!Spec
  <1>1. Init => Cache!Init
    BY DEF Init
  <1>2. ASSUME Inv, [Next]_vars PROVE [Cache!Next]_(Cache!vars)
    <2> USE DEF Cache!vars, cacheVars
    <2>1. CASE UNCHANGED vars
      BY <2>1 DEF vars
    <2>2. CASE Tick
      BY <2>2 DEF Tick, Cache!Next
    <2>3. ASSUME NEW i, NEW c, Revoke(i, c) PROVE UNCHANGED Cache!vars
      BY <2>3 DEF Revoke
    <2>4. ASSUME NEW k \in Keys, CacheLoses(k) PROVE Cache!Next
      BY <2>4 DEF CacheLoses, Cache!Next
    <2>5. ASSUME NEW r \in RPCs, NEW h, Begin(r, h) PROVE UNCHANGED Cache!vars
      BY <2>5 DEF Begin
    <2>6. ASSUME NEW r \in RPCs, CacheGet(r) PROVE Cache!Next
      <3>1. PICK s \in Schemes, c \in Credentials : header[r] = Header(s, c)
        BY <1>2, <2>6, HeaderCases DEF CacheGet, Inv, TypeOK, RPCInv
      <3>2. Key(r) \in Keys
        BY <3>1, HeaderFields DEF Key, Keys
      <3> QED
        BY <2>6, <3>2 DEF CacheGet, Cache!Next
    <2>7. ASSUME NEW r \in RPCs, CacheReturn(r) PROVE Cache!Next
      BY <2>7 DEF CacheReturn, Cache!Next
    <2>8. ASSUME NEW r \in RPCs, CachePut(r) PROVE Cache!Next
      <3>1. PICK s \in Schemes, c \in Credentials : header[r] = Header(s, c)
        BY <1>2, <2>8, HeaderCases DEF CachePut, Inv, TypeOK, RPCInv
      <3>2. Key(r) \in Keys
        BY <3>1, HeaderFields DEF Key, Keys
      <3>3. /\ Chain(r) = chain(s) /\ idx[r] \in DOMAIN chain(s) /\ exp \in [Credentials -> Claims]
            /\ setAt[r] \in Nat /\ now \in Nat /\ Working(r, s, c)
        BY <1>2, <2>8, <3>1, HeaderFields DEF CachePut, Chain, Inv, TypeOK, LocalsOK, RPCInv
      <3>4. setAt[r] \in 0 .. now /\ reply[r].result \in Results
        BY <2>8, <3>3, ReplyVouched DEF CachePut, Working, Vouched
      <3> QED
        BY <2>8, <3>2, <3>4 DEF CachePut, Cache!Next
    <2>9. ASSUME NEW r \in RPCs, Dispatch(r) \/ Decide(r) \/ Receive(r) \/ CacheSet(r) \/ Finish(r)
          PROVE  UNCHANGED Cache!vars
      BY <2>9 DEF Dispatch, Decide, Receive, CacheSet, Finish
    <2> QED
      BY <1>2, <2>1, <2>2, <2>3, <2>4, <2>5, <2>6, <2>7, <2>8, <2>9 DEF Next, Step
  <1> QED
    BY <1>1, <1>2, Invariance, PTL DEF Spec, Cache!Spec
=============================================================================
