# Verification of authorization.go

TLA+ specifications of the gRPC authorization interceptors in this repository,
model-checked with TLC on small instances and, where it matters most, proved
with TLAPS for every value of the constants. Paths are relative to the
repository; in `PROJECT.json` they carry the prefix `src/`.

## The system

A server chains up to four interceptors; each exists for unary calls and for
streams. They share no state but the call's context, and each keeps its own.

| Component | State it keeps | Operations | Interaction |
| --- | --- | --- | --- |
| `request_tracking` | none | take or generate the request ID, log handler | puts the ID into the context |
| `token_introspection` interceptor | configuration; the cache given to it | `introspect`: header, cache, scheme, strategy chain | calls `Cache` and the `Introspector`s; puts the result into the context |
| `token_introspection` cache | `sync.Map` of entries, eviction mutex, sweeper goroutine | `Get`, `Set`, `evictIfNeeded`, `sweepLoop` | shared by all RPCs of all schemes |
| RFC 7662 introspector | HTTP client | `Introspect` | asks a remote endpoint, with a timeout |
| `protobuf_policy_option` | `sync.Map` of looked-up policies per interceptor | look up, resolve the template | reads the proto registry; puts marker and policy into the context |
| `policy_verification` interceptor | none | check a unary call; check every `RecvMsg` of a stream | reads marker and policy from the context, calls a `VerifierEndpoint` |
| verifier endpoints | HTTP client, or fixed rules (`static.go`) | `Verify` | ask a REST server, OPA or a Cedar agent |

What is hard about it, and hard to test:

* the cache is read, filled, evicted and swept by many goroutines and only part
  of eviction is under a mutex; counts and choices are stale when they are used;
* a decision (of an endpoint, of `Verify`) is taken before its answer arrives,
  and permissions and credentials are revoked in between;
* one cache is shared by all authentication schemes, one policy cache by all
  calls of a method;
* remote parties fail in many ways, and a failure must neither let a call
  through nor be mistaken for a verdict;
* the interceptors depend on each other through values in the context, but a
  server may register them in any order and leave some out; two of them read the
  same header by different rules, and two assign request IDs.

`PROJECT.json` lists these hazards line by line with the properties for each.

## Modules

| Module | Models |
| --- | --- |
| `LossyCache` | what the `Cache` interface promises: a cell per key that may be lost at any time, answers only within the lifetime of an entry |
| `InMemoryCache` | `token_introspection/cache.go`, one action per access to the shared map |
| `InMemoryCacheProofs` | its type, capacity and freshness theorems, and that it implements `LossyCache` |
| `RFC7662Introspector` | `rfc7662.go`: the error code an HTTP exchange is turned into, and the expiration that the claim `exp` is turned into |
| `TokenIntrospection` | `token_introspection/interceptor.go`, composed of `LossyCache` and `RFC7662Introspector`, with concurrent RPCs and revocation |
| `TokenIntrospectionProofs` | its type, identity, order, expiration and revocation theorems, and that it keeps to `LossyCache` |
| `VerifierEndpoint` | `Verify` of the REST, OPA and Cedar agent endpoints as functions of the exchange, and of the static endpoint |
| `PolicyVerification` | `policy_verification/interceptor.go` over `VerifierEndpoint`, with permissions that change |
| `PolicyVerificationProofs` | its type, gate and exposure theorems |
| `PolicyTemplate` | template resolution of `protobuf_policy_option`, on characters, and simultaneous substitution as the reference |
| `PolicyTemplateProofs` | theorems: the loop over the mappings against that reference, for any policy and request |
| `PolicyOption` | the policy option interceptors: lookup, shared cache, context |
| `PolicyOptionProofs` | its type theorem, and that calls get, or are refused for, their own policy |
| `AuthorizationChain` | the four interceptors in one chain, around an instance of `PolicyVerification` |
| `AuthorizationChainProofs` | theorems: any chain implements `PolicyVerification`, authorizes and identifies what it serves, and keeps one request ID |
| `RequestTracking` | `request_tracking`: which ID a call gets, and the log handler |
| `AuthorizationHeader` | `parseAuthorization`, `getToken` and `cacheKey`, on characters |
| `StaticEndpoint` | `endpoint/static.go`: patterns and rules |
| `EndpointConfig` | the constructors of the four HTTP clients: URLs and options |
| `Texts` | the functions of Go's `strings` that these use |
| `MC*` | constants for TLC; `MCTexts` enumerates the inputs of the pure modules |
| `FoldProofs` | theorem: what `FoldLeft` computes, for any operator; instantiated for each fold that is reasoned about |
| `MCTextsProofs` | theorems: all that `MCTexts` checks (templates and static rules, headers, clients, loggers), for any bounds |

### How state and actions correspond to the code

**InMemoryCache.** `entries` is the `sync.Map`, `evictMu` the mutex, `pc[c]` the
position of goroutine `c` in `Get` or `Set`. `Get` is `GetMiss`, or `GetLoad`
then `GetCheck` (which reads the clock) then `GetDelete`, then `GetReturn`.
`Set` is `SetStart` (clock reading and entry), `SetStore`, and if there is a
bound `EvictLock`, `EvictCount` per key, then per turn of the loop `EvictAgain`,
`EvictScan` per key and `EvictDelete`, and `EvictUnlock`. The sweeper is
`SweepTick`, `SweepVisit` per key with `SweepDelete`, `SweepEnd`, `SweepExit`.
`sync.Map.Range` is documented to visit each key at most once and to reflect any
mapping a key had during the call; it is a set of keys yet to visit, each
visited at a moment of its own. `entry.key` and `entry.setAt` are history.

**TokenIntrospection.** `Begin` reads the header, `CacheGet`/`CacheReturn` are
`cache.Get`, `Dispatch` finds the chain, `Decide` is the moment at which the
endpoint decides, `Receive` the return of `Introspect`, `CacheSet`/`CachePut`
are `cache.Set`. Decision and arrival are separate steps, and so are the clock
reading of `Set` and its effect. `Decide` chooses any exchange that is truthful
at that moment, or any failure, and `Introspect` turns it into a code.
Schemes and credentials are texts, and the cache key is the text
`scheme:credential`, of which SHA-256 is taken not to collide. The cache is asked
before the scheme is looked up, so a client may send a scheme with a colon that is
registered nowhere and reads, joined with its credential, like another header; the
model does what the code does with it, and `OwnIdentity` states the exception.
`exp[c]` is the claim of credential `c` in ticks of the clock, `Second` of which
make a second. A result carries, as history, the introspector, scheme and
credential it is about. The endpoint of an introspector in `Imprecise` may answer
about an active credential with a 401 that refuses the server's own credentials, or
with a 2xx whose `active` is absent or not a boolean; `Introspect` reports both like
a rejection. Only `Cache!` actions touch the cache, so what holds here holds for
every cache that implements `LossyCache`. Credentials are live or not from the
start and can be revoked; issuing new ones is not modelled.

**PolicyVerification.** `OpenUnary` and `OpenStream` are the interceptors up to
`Verify` or the handler, `CallRecv` is `authServerStream.RecvMsg` up to
`Verify`, `Decide` the decision, `VerifyReturn` its arrival, `Deliver` and
`RecvFails` the return of the underlying `RecvMsg`. `held` (the permission was
granted at some moment of this check) and `exposed` (messages delivered since
the revocation) are history. Handlers are arbitrary. The rules of the static
endpoint are copied when it is built, so its permissions do not change. A body
that the size limit cuts inside the JSON object does not parse; one that is cut in
what lies behind the object does. The request ID has no influence here; it is part
of the chain.

**AuthorizationChain.** `chain` is what the server registered, `at[c]` the
position of call `c` in it, `cx[c]` the values in its context there. `Track`,
`Introspect`, `LookUp` and `Verification` are the four interceptors; the latter
opens `Gate`, the instance of `PolicyVerification`, whose `Decide`,
`VerifyReturn` and `RecvMsg` steps appear as `Decide`, `Return` and `Receive`.
Introspection and lookup are reduced to their outcomes: a result or an error, a
policy, no policy or an error. A header is what the two parsers make of it: one
that introspection cannot split, or whose scheme it does not know, may or may not
hold a token for verification; one it can ask about does (`ReadingsAgree`).
`kept[c]` is the request ID in the context that the stream wrapper of
verification holds, `seen[c]` (history) every ID that was logged, sent to an
endpoint or read by the handler. Endpoints are assumed to be built with
`WithRequestIDFunc(RequestIDFromContext)`; without it they forward nothing.

**PolicyOption.** `Load`, `Lookup` and `Store` are `getMethodPolicy`;
`RefuseName`, `PassThrough`, `ResolveUnary` and `ResolveStream` the rest of the
two interceptors, which have a cache each. Texts are sequences of characters:
`ReplaceText` is `strings.ReplaceAll`, and brackets of values and of the template can
get together and form a placeholder. The text of a field follows its kind as in
`extractFieldFromRequest`, where what a number or a truth value reads as is one piece. The registry is constant, as descriptors register in
`init()`.

A definition marked "Slip" in a comment is a plausible bug; it is used only to
see that a property fails when the definition after it is replaced by it.

## Runs

| Run | Properties | What it shows |
| --- | --- | --- |
| `cache_safety` | `TypeOK`, `CapacityBound`, `HitIsFresh`, `ImplementsLossyCache` | racing callers and the sweeper: the bound of `WithMaxEntries` holds up to the Sets in progress; no answer from another key, older than the ttl or past the token's end |
| `cache_live` | `SetCompletes` | eviction ends and nobody waits for ever |
| `cache_sweeper` | `ExpiredIsSwept`, `SweeperStops` | the sweeper does its work and ends |
| `cache_evict_race` (violation) | `EvictsAsDocumented` | with two callers eviction does not always do what its documentation says |
| `ti_schemes` | `TypeOK`, `OwnIdentity`, `EarlierStrategiesDeclined`, `UnauthenticatedMeansInactive`, `RevocationIsFinal`, `HitBeforeExp` | one credential under two schemes and an unregistered one, shared strategy with an imprecise endpoint, shared cache; `exp` absent, fractional or out of range |
| `ti_creds` | `OwnIdentity`, `IntrospectReturns` | two credentials and a scheme with a colon, so that two headers share a cache key, and an imprecise endpoint; introspection always returns |
| `pv_gate` | `TypeOK`, `GateHolds`, `BoundedExposure` | the gate fails closed for every endpoint and exchange |
| `pv_next_message` (violation) | `RejectedOnNextMessage` | that one message may have been sent after the revocation |
| `texts` | `SequentialIsSimultaneous`, `FailsExactlyWhenItMust` | the loop over the field mappings, on characters, against a reference |
| | `RuleCoversTemplate` | a static rule with the prefix of a template allows whatever the template resolves to behind it |
| | `ReadingsAgree`, `KeyTellsApart` | the credential introspected is the token verified; which headers share a cache entry: only those of which one scheme extends the other with a colon |
| | `OneURLPerBase`, `ClientIsBounded` | spellings of a base URL; no options lead to a client without timeout or size limit, or one that sends the caller's token as its own credential unasked |
| | `DerivedLoggersKeepID` | `With` and `WithGroup` keep the request ID, exactly once per handler |
| `po_calls` | `TypeOK`, `HandlerSeesItsPolicy`, `RefusedForItsOwnFault` | shared policy cache under concurrent first calls |
| `po_stream_parity` (violation) | `StreamInjectsAsUnary` | an empty action is refused for unary calls only |
| `chain` | `TypeOK`, `ServedIsAuthorized`, `ServedHasIdentity` | no selection or order of the interceptors serves a call that its policy forbids, or under a policy without its identity |
| | `OneRequestID` | one request ID per call, whoever assigns, logs, forwards or reads it |
| | `ImplementsGate` | refinement: verification in a chain is a `PolicyVerification` |
| | `InterceptorsReturn` | the interceptors always give the call back |

The sweeper runs in `cache_safety` and `cache_sweeper`; the other cache runs set `sweepInterval` to 0 to keep eviction small. The
`TokenIntrospection` runs choose at the start whether the interceptor has a
cache (`useCache`). Only `texts` turns deadlock checking off: its behaviours are
single evaluations.

### Bounds

* Cache: two callers and two keys give every race of a pair of operations on one
  key and on two; room for one entry makes eviction necessary, and in
  `cache_sweeper` `NoBound` (-1) tests the option. The clock runs to `Horizon` 1
  or 2, enough to pass the lifetime of an entry and the expiration of a token.
  Keys and callers are symmetric in the safety run.
* Interceptor: two RPCs (one fills the cache while the other reads or is
  rejected), two strategies; in `ti_schemes` two registered schemes and one that is
  not, in `ti_creds` a registered scheme and one that extends it with a colon, with two
  credentials of which one extends the other: two of the four headers have the same
  key. The clock passes the ttl in
  `ti_schemes`, where a second has two ticks and `exp` may fall between two
  seconds, and stands still in `ti_creds`. Sizes around the limit are
  `0 .. maxResponseBodySize + 2` with limit 1; statuses 200, 401 and 500 stand
  for the three classes the code tells apart.
* Verification: two calls, three messages on each stream, two changes of a
  permission. Statuses 200, 401, 403 and 500.
* Policy option: two calls, six method names (template, no option, static
  stream, template on a stream, unknown method, malformed name), requests with
  two different values and one without the field.
* Templates of up to three parts (two placeholders, text, and brackets that belong to
  none), up to two mappings over two placeholders and two fields, incomplete and
  duplicate ones included, ten values of one field and three of the other, brackets and
  a placeholder among them: 619,175 states with the other pure parts.
* Other pure parts: all headers of up to five characters over space, tab, colon and a
  letter in both cases (a scheme, a separator and a credential with white space or
  a colon inside need four); base URLs with each scheme or none and every path of
  up to two pieces (`MaxPath`), and up to two options (the second overrides the
  first); up to two log handlers around each other and two derivations. For the
  properties these bounds only keep the run short: the theorems of `MCTextsProofs`
  hold for any.
* Chain: all 65 selections and orders of the four interceptors, one call at a
  time (calls share nothing but the permissions, and `pv_gate` has two), one
  message and one change of the permission, an ID from the client under either
  key, both or none, a REST and a static endpoint.

### Fairness

* Goroutines inside an operation are scheduled (weak fairness of their steps).
* `evictMu` and the sweeper's `select` get strong fairness: `sync.Mutex` hands
  the lock over to a waiter that has starved for a millisecond, and `select`
  chooses at random among its ready cases. Without the former `SetCompletes`
  would not hold, without the latter `SweeperStops` would not.
* `Introspect` and `Verify` end, because their HTTP clients have a timeout; that
  no option can take it away is `ClientIsBounded`. In `TokenIntrospection` and in
  the chain this is weak fairness of the interceptors' own steps, and nothing is
  assumed of handlers, clients or the message that the underlying `RecvMsg` waits for:
  `IntrospectReturns` and `InterceptorsReturn` are about giving the call on or back.
* Nobody has to call `Get` or `Set`, send a message, cancel a context or move
  the clock.

## Theorems

Each is stated for all constants that satisfy the named assumptions, which TLC
evaluates in the runs: finite sets of callers and keys, integer options, `nil`
distinct from everything; HTTP statuses between 100 and 599; an absent `exp` is
not a number (`ClaimsAreTimes`); schemes and credentials are texts
(`TextsAssumption`); a chain names an interceptor at most once
(`ChainsAssumption`); names, requests and policies are texts, and no method of a
proto service has a slash in its name (`RegistryAssumption`); the bounds of
`MCTexts` are naturals.

**`InMemoryCacheProofs`.**
`TypeCorrect` proves `TypeOK` by the invariant `TypeInv`, which adds `LocalsInv`
(which locals are set at which position) and `MutexInv` (exactly the caller in
the eviction loop holds the mutex), without which the locals of `evictIfNeeded`
could be overwritten by another caller.
`CapacityCorrect` proves `CapacityBound`. It is not inductive: the loop decides
on a stale count. `CountInv` says that while the entries are counted, those
outside the keys still to be counted are at most the running count plus the
other callers that are evicting; `ScanInv` that during a scan the entries
present are at most the count plus those others (also when the chosen key has
been deleted meanwhile), and that a scan which has found nothing yet has seen at
most as many present entries as there are other evicting callers. Together they
show that the last Set to leave leaves at most `maxEntries` behind.
`HitCorrect` proves `HitIsFresh` from `HonestInv`: every entry in the map or in
a goroutine's hand was made by `MakeEntry` for the key it is under.

`RefinementCorrect` is the refinement, `Spec => Promise!Spec`, with `entries` for
`cell` and the position of a `Get` for its phase. Each action maps to a
`LossyCache` action or a stutter; `PendingInv` says that what a Set will store was
made at a clock reading not after now.

**`PolicyVerificationProofs`.** `TypeCorrect`, `GateCorrect` and
`ExposureCorrect`. The gate rests on the lemma `OKMeansGranted`: for a truthful
decision point `Verify` returns nil only while the permission is granted, for
each kind of endpoint. `GateInv` adds that a positive verdict on its way
was given while `held`; `ExposureInv` that the exposure is 0 while the policy is
granted, while a positive verdict is on its way, and while the underlying
`RecvMsg` waits.

**`TokenIntrospectionProofs`.** The safety properties of the interceptor say
what an RPC ends with; the invariant says where that comes from. `Vouched` is a
result that a strategy of the chain of its scheme gave about its credential, after
all earlier ones had declined it. `CacheInv`: every entry is vouched for and is about
a scheme and a credential whose text is the key it is under, and was made by
`MakeEntry` at some time up to now. `Working`: the same of the entry a
`Get` has in its hand and of the result of an accepted RPC; while a strategy is
asked, those before it have declined; an answer on its way is about the
strategy, the credential and the claim it was asked for. All of it stays true
when credentials are revoked, because declining is final. From it follow
`IdentityIsOwn` (two headers with one key are the same, or one of the schemes has a
colon), `ChainInOrder`, `RefusalIsAboutTheCredential` (with
`IntrospectSound`, on what the code of an exchange with a truthful endpoint
means) and the action properties `NoHitAfterExp` (with a lemma on the truncation
of `exp` to seconds) and `RevocationFinal` (each action keeps a drained
credential drained). `UsesTheCache` closes the composition: `Spec => Cache!Spec`,
so the interceptor asks nothing of the cache that `LossyCache`, and by
`RefinementCorrect` the in-memory cache, does not offer.

**`AuthorizationChainProofs`.** `ChainImplementsGate` is the refinement: every
step of a chain is a step of `PolicyVerification` or leaves its variables alone.
What `PolicyVerificationProofs` shows of the gate is then used through
`INSTANCE` and not proved again; in particular `GateInv` is part of the
invariant. The rest of it is about order: `GateInStep` relates the position in
the chain to the state of the gate (a unary call leaves verification only
through it), `IdentityInv` and `ValuesInv` say what a call that has an
interceptor behind it has in its context, `IDInv` that an ID in the context is
never replaced. `NoOrderOpensTheGate`, `ServedAreIdentified` and `OneIDPerCall`
follow for every selection and order.

**`PolicyTemplateProofs`.** `FailsWhenItMust`, `ResolvesSimultaneously` and
`ResolvesBehindItsHead`, on the pure resolution of any policy of the schema
against any request. The loop is an instance of `FoldProofs`; `FlattenSeq`, under
the replacement, is also a recursion on functions and is treated in the same way.

`strings.ReplaceAll` works on characters, and what one turn of the loop puts into
the text the next one reads: the template `<a><b><c>` with the values `<c` for `a`
and `>` for `b` has a placeholder `<c>` after two turns that nobody wrote. Hence
the hypothesis `Plain` of `ResolvesSimultaneously`: no brackets in names and values,
and those of the template in pairs. Such a text is a sequence of items, plain texts
and placeholders (`WellBracketedItems`); an occurrence of a placeholder in the
characters is one of the items (`ItemsOccur`), so replacing it in the text swaps
items (`ItemsReplaceText`, `ItemsReplaceEach`), and plain values leave a sequence of
items again. The loop has one invariant per theorem: `Open` (either the loop has
failed, or the first `i` mappings were complete and had values where the template
needs them, and the placeholders still to come are still in the text, whatever the
other values have put there, so that their mappings are not skipped: a placeholder
whose name has no bracket cannot overlap another one), `SoFar` (the text is that of
the items with exactly the placeholders of the first `i` mappings swapped), and that
the text still starts with what precedes the first opening bracket (`LoopKeepsHead`).

**`FoldProofs`.** `FoldTurns`: a `FoldLeft` is the last of a sequence of results,
each made by the operator of the one before and the next element. A fact with an
operator as a parameter cannot be cited by the provers; here the operator is a
constant of the module, and each fold has an `INSTANCE` of it. `FoldLeft` is a
recursion on functions, chosen by `CHOOSE`: the module first shows that the
recursion has a solution, by a least counterexample (`Minimum`, from the
well-founded order of the naturals), since an induction rule cannot be
instantiated either; `Induction` is that rule for a set in place of a predicate.

**`MCTextsProofs`.** All properties of the run `texts`, for any bounds. `SequentialIsSimultaneousAlways` and
`FailsExactlyWhenItMustAlways` follow from the theorems on templates, and
`RulesCoverTemplates` adds what `matchPattern` does with a pattern that ends in a
star. The others:

* `ReadingsAlwaysAgree`. `strings.Fields` is a fold over the characters, and three
  lemmas say what a stretch of the text does to the words so far: white space
  nothing (`SplitBlank`), a run of other characters behind white space one word
  more (`SplitWord`), and what follows the end of a word leaves the words before
  alone (`SplitStays`). `parseAuthorization` splits at the first space and trims
  (`ParseIs`, `TrimIs`). A scheme without white space is the run up to that space,
  so both readings find it, and the first word of the trimmed credential is the
  second word of the header, also if tabs are around or inside it.
* `KeyAlwaysTellsApart`. In a key with two readings (`KeySplits`), either both
  schemes have the same length and the readings are the same, or the longer scheme
  has the colon of the other reading at the position where the shorter one ends, and
  what follows up to its own end is also the beginning of the other credential.
* `OneURLPerBaseAlways`. The constructors build a client exactly for accepted
  arguments (`BuiltIs`), trimming undoes white space around a text that has none
  (`TrimAround`), a scheme is put in front once (`SchemeOnce`) and a slash at the
  end is the same as none (`SlashIsTrimmed`).
* `ClientIsAlwaysBounded`. `Bounded` is the invariant of the fold over the options:
  the fields stay, timeout and size positive, the resolver there, and
  authentication is that of the last option for it so far (`SelfIsLast`).
* `DerivedLoggersAlwaysKeepID`. Wrapping collects the keys, the last one first
  (`HasKeys`), deriving keeps them and nests one group per `WithGroup`
  (`DerivedKeepsKeys`). Attributes are a sequence, so one that is added twice shows.

**`PolicyOptionProofs`.** First the names: a full method name is split at its
last slash, and the parts joined again are the name (`ParseJoins`); the split of
`/service/method` is that service and method (`ParseSplits`, which needs that no
method has a slash in its name); hence the lookup finds what the method declares
(`LookupDeclared`). Then the invariant: `CacheOK`, a cache holds nothing but
results of the lookup, whichever of several first calls stored them, and
`CallsOK`, a call has the result for its own name, its context is the resolution
against its own request, and a refused call has a fault of its own. It follows
that `HandlersSeeTheirPolicy` and `RefusedForTheirOwnFault`.

Only model-checked is all liveness (`SetCompletes`, `ExpiredIsSwept`,
`SweeperStops`, `IntrospectReturns`, `InterceptorsReturn`): fairness is out of the
prover's reach. The violations are counterexamples and need no proof.

## Where documentation and code differ

1. Eviction may delete when the bound is not exceeded, or an entry that does not
   expire first (`cache_evict_race`; `token_introspection/cache.go:45`).
2. A message may still be delivered after a revocation (`pv_next_message`;
   `README.md:193`); never two, which is what `BoundedExposure` says.
3. The stream interceptor accepts a declared policy with an empty resource or
   action (`po_stream_parity`; `protobuf_policy_option/README.md:27`).

Met while modelling, without a run of their own:

* The sweeper and `Get` delete by key what they saw expired, and may hit a fresh
  entry stored in between (`token_introspection/cache.go:107` and `:122`). This
  and the eviction race cost an extra introspection and no more, which is what
  `ImplementsLossyCache` says.
* `README.md:262` says that the authorization header is forwarded verbatim; the
  REST endpoint sends the first two words of it, with one space between them.
* `README.md:263` says that `x-request-id` is forwarded; the endpoints do so only
  when they are built with `WithRequestIDFunc`.
* `token_introspection/introspector.go:30-32` keeps `Unauthenticated` for a verdict
  on the credential and `Internal` for a failure of the backend. An endpoint that
  answers 401 because of the server's own credentials (`rfc7662.go:259`) and a 2xx
  whose `active` is absent or not a boolean, such as `{}` or `{"active":"true"}`
  (`rfc7662.go:273-275`), lead to `Unauthenticated` as well, and the chain moves on.
  The properties say what is left of the promise (`Imprecise`, `Declined`).
* The cache key joins scheme and credential with a colon, and the cache is asked
  before the scheme is looked up (`token_introspection/interceptor.go:91` and
  `:127-137`). `Bearer:a b` and `Bearer a:b` share an entry: while the result of the
  second is cached, the first is accepted with it, although its scheme is registered
  nowhere. `KeyTellsApart` and `OwnIdentity` say that nothing else is shared.
* `policy_verification/endpoint/rest_static_test.go:120` says of the pattern
  `posts/*` that "the wildcard requires something after "posts/""; `matchPattern`
  accepts the resource `posts/` (`static.go:58-60`), which a template `posts/<id>`
  resolves to for an empty field. `RuleCoversTemplate` is about resources with
  something behind the prefix and takes no side.
* A resolved resource may depend on the order of the mappings, and a mapping that
  the template does not need may fail a call, when values or the template have
  brackets of their own (`protobuf_policy_option/interceptor.go:275-284`). No document
  says otherwise; `SequentialIsSimultaneous` and `FailsExactlyWhenItMust` say when it
  cannot happen.
* Introspection reads the key of `WithMetadataKey`, the endpoints always
  `authorization`; with another key the two may speak of different credentials.

## Not modelled

* Generated code (`policy.pb.go`, the end-to-end service), loggers, the test
  double: they hold no logic of the library.
* The bodies of requests and the Cedar entity UIDs (formatting), the claims other
  than `active` and `exp` (copied).
* Registration of descriptors at run time: generated packages register in
  `init()`. What handlers do with a shared `*IntrospectionResult`, and messages
  they send (`SendMsg` is not verified): outside of the library.
* The overflow of limit + 1 for a maximal size of `math.MaxInt64`.
* The error for method options of an unexpected type
  (`protobuf_policy_option/interceptor.go:236-239`): every method descriptor of the
  registry has `MethodOptions`.
* Collisions of SHA-256 (`token_introspection/interceptor.go:89-93`).

## State of the project

Modelled: the cache and its promise, the token introspection interceptor, the
verification gate, the policy option interceptors, the static endpoint, request
tracking, the HTTP clients' construction, and the chain of all interceptors.
Proved: every safety invariant and every action property that a passing run
checks, and both refinements. What is left to TLC is liveness, and what is left
out is listed above; the model should follow when the code of those parts grows,
in particular if the policy cache ever gets an invalidation or `SendMsg` a check.
