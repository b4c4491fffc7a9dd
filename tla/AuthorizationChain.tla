------------------------- MODULE AuthorizationChain -------------------------
(***************************************************************************)
(* The interceptors of the four modules in one chain, in whatever order a  *)
(* server registers them: request_tracking, token_introspection,           *)
(* protobuf_policy_option and policy_verification.  Each passes the call   *)
(* on with an enriched context, or answers it with an error.               *)
(*                                                                         *)
(* Verification is an instance of PolicyVerification.  Introspection and   *)
(* the policy option are reduced to what TokenIntrospection and            *)
(* PolicyOption make of a call; request IDs are those of RequestTracking,  *)
(* forwarded by the endpoints (WithRequestIDFunc(rt.RequestIDFromContext)).*)
(***************************************************************************)
EXTENDS Integers, Sequences, SequencesExt, RequestTracking

CONSTANTS
    Calls, Policies, MaxMessages, MaxChanges, Statuses, nil,   \* as in PolicyVerification
    Chains,         \* the orders in which a server may register interceptors
    Endpoints,      \* the kinds of endpoint that verification may be built with
    Refused,        \* a declaration that the policy option interceptors refuse
    metadataKey,    \* WithMetadataKey of the tracking interceptor
    ClientIDs       \* request IDs that clients send

Stages == {"tracking", "introspection", "option", "verification"}

ASSUME ChainsAssumption ==
    \A s \in Chains : s \in Seq(Stages) /\ \A i, j \in DOMAIN s : s[i] = s[j] => i = j
ASSUME RefusedIsNoPolicy == Refused \notin Policies \cup {nil}
ASSUME GateAssumption ==   \* as in PolicyVerification and VerifierEndpoint
    /\ MaxMessages \in Nat /\ MaxChanges \in Nat /\ Statuses \subseteq 100 .. 599
    /\ nil \notin Policies

(* A header as the two readers see it: introspection finds none, cannot    *)
(* split it, does not know its scheme or can ask about its credential;     *)
(* verification finds a token or not.  Where there is none neither finds   *)
(* one, and about a credential the two agree (MCTexts, ReadingsAgree; both *)
(* read the key "authorization", the default of introspection).            *)
Headers ==
    {h \in [reading : {"absent", "malformed", "unsupported", "credential"}, token : BOOLEAN] :
        /\ h.reading = "absent" => ~ h.token
        /\ h.reading = "credential" => h.token}

(* What a client sends.  policy is what the policy option interceptors     *)
(* find for the call: the resolved policy, nil for a method without one.   *)
Incoming ==
    [stream : BOOLEAN, policy : Policies \cup {nil, Refused}, header : Headers,
     md : [{DefaultKey, metadataKey} -> {NoID} \cup ClientIDs]]
ASSUME NilIsNoCall == nil \notin Incoming

(* The values that the interceptors leave in the context. *)
NoValues == [id |-> NoID, identity |-> FALSE, ran |-> FALSE, policy |-> nil]

VARIABLES
    endpoint, granted, changes,                              \* as in PolicyVerification
    ctx, pc, verdict, code, queue, sent, held, exposed,
    chain,      \* the interceptors of this server, outermost first
    in,         \* in[c]: what the client sent
    at,         \* at[c]: position in the chain; 0 without a call, past its end in the handler
    cx,         \* cx[c]: the values in the context at this position
    kept,       \* kept[c]: the request ID in the context that verification works with
    answer,     \* answer[c]: the error that an interceptor has returned
    seen        \* seen[c], history: the request IDs logged, forwarded and handed over

gateVars == <<endpoint, granted, changes, ctx, pc, verdict, code, queue, sent, held, exposed>>
chainVars == <<chain, in, at, cx, kept, answer, seen>>
vars == <<gateVars, chainVars>>

Gate == INSTANCE PolicyVerification

Has(stage) == Contains(chain, stage)
InHandler(c) == at[c] = Len(chain) + 1
Declared(c) == in[c].policy

(* The interceptor at this position has the call. *)
Runs(c, stage) == at[c] \in DOMAIN chain /\ chain[at[c]] = stage /\ answer[c] = nil

Proceed(c) == at' = [at EXCEPT ![c] = @ + 1] /\ UNCHANGED answer
Fail(c, err) == answer' = [answer EXCEPT ![c] = err] /\ UNCHANGED at

(* A request ID becomes visible: in a log, a request or the handler. *)
Show(c, id) == seen' = [seen EXCEPT ![c] = @ \cup ({id} \ {NoID})]

Init ==
    /\ Gate!Init
    /\ endpoint \in Endpoints
    /\ chain \in Chains
    /\ in = [c \in Calls |-> nil]
    /\ at = [c \in Calls |-> 0]
    /\ cx = [c \in Calls |-> NoValues]
    /\ kept = [c \in Calls |-> NoID]
    /\ answer = [c \in Calls |-> nil]
    /\ seen = [c \in Calls |-> {}]

-----------------------------------------------------------------------------
(* The interceptors *)

Arrive(c, call) ==
    /\ at[c] = 0
    /\ in' = [in EXCEPT ![c] = call]
    /\ at' = [at EXCEPT ![c] = 1]
    /\ UNCHANGED <<gateVars, chain, cx, kept, answer, seen>>

(* generateRequestID: an ID of its own for every call and place. *)
Fresh(c) == <<"generated", c, at[c]>>

(* request_tracking *)
Track(c) ==
    LET id == requestID(cx[c].id, in[c].md, metadataKey, Fresh(c))
    IN  /\ Runs(c, "tracking")
        /\ cx' = [cx EXCEPT ![c].id = id]
        /\ Show(c, id)
        /\ Proceed(c)
        /\ UNCHANGED <<gateVars, chain, in, kept>>

(* Slip: a scheme without introspectors passes. *)
IntrospectLenient(c) ==
    /\ Runs(c, "introspection")
    /\ Show(c, cx[c].id)
    /\ \/ in[c].header.reading # "malformed" /\ Proceed(c)
       \/ in[c].header.reading = "malformed" /\ Fail(c, "Unauthenticated")
    /\ cx' = [cx EXCEPT ![c].identity = in[c].header.reading = "credential"]
    /\ UNCHANGED <<gateVars, chain, in, kept>>

(* token_introspection: a call without a credential passes, one with a     *)
(* credential passes with a result or fails.                               *)
Introspect(c) ==
    /\ Runs(c, "introspection")
    /\ \/ /\ in[c].header.reading = "absent"
          /\ Proceed(c)
          /\ UNCHANGED <<cx, seen>>
       \/ /\ in[c].header.reading \in {"malformed", "unsupported"}
          /\ Fail(c, "Unauthenticated")
          /\ UNCHANGED <<cx, seen>>
       \/ /\ in[c].header.reading = "credential"
          /\ Show(c, cx[c].id)
          /\ \/ Proceed(c) /\ cx' = [cx EXCEPT ![c].identity = TRUE]
             \/ \E err \in {"Unauthenticated", "Internal"} : Fail(c, err) /\ UNCHANGED cx
    /\ UNCHANGED <<gateVars, chain, in, kept>>

(* Slip: a declaration that cannot be resolved is looked up again. *)
LookUpRetry(c) ==
    /\ Runs(c, "option")
    /\ IF Declared(c) = Refused
       THEN UNCHANGED <<at, answer, cx>>
       ELSE Proceed(c) /\ cx' = [cx EXCEPT ![c].ran = TRUE, ![c].policy = Declared(c)]
    /\ UNCHANGED <<gateVars, chain, in, kept, seen>>

(* Slip: the error of the resolution is not looked at. *)
LookUpIgnoresError(c) ==
    /\ Runs(c, "option")
    /\ Proceed(c)
    /\ cx' = [cx EXCEPT ![c].ran = TRUE, ![c].policy = Declared(c)]
    /\ UNCHANGED <<gateVars, chain, in, kept, seen>>

(* protobuf_policy_option *)
LookUp(c) ==
    /\ Runs(c, "option")
    /\ IF Declared(c) = Refused
       THEN Fail(c, "Internal") /\ UNCHANGED cx
       ELSE Proceed(c) /\ cx' = [cx EXCEPT ![c].ran = TRUE, ![c].policy = Declared(c)]
    /\ UNCHANGED <<gateVars, chain, in, kept, seen>>

(* Slip: a chain without the policy option counts as a method without a    *)
(* policy.                                                                 *)
ContextForUnchecked(c) ==
    [stream |-> in[c].stream, ran |-> TRUE, policy |-> cx[c].policy,
     token |-> in[c].header.token]

(* What verification reads of the context. *)
ContextFor(c) ==
    [stream |-> in[c].stream, ran |-> cx[c].ran, policy |-> cx[c].policy,
     token |-> in[c].header.token]

(* The ID that verification assigns to a call without one: it has its own  *)
(* copy of the tracking code, with a fixed metadata key.                   *)
assignedID(c) == requestID(cx[c].id, in[c].md, DefaultKey, Fresh(c))

(* policy_verification: assign an ID, then open the gate. *)
Verification(c) ==
    LET id == assignedID(c)
    IN  /\ Runs(c, "verification")
        /\ pc[c] = "idle"
        /\ Gate!OpenUnary(c, ContextFor(c)) \/ Gate!OpenStream(c, ContextFor(c))
        /\ cx' = [cx EXCEPT ![c].id = id]
        /\ kept' = [kept EXCEPT ![c] = id]
        /\ Show(c, id)
        /\ CASE pc'[c] = "handler" -> Proceed(c)
             [] pc'[c] = "failed" -> Fail(c, code'[c])
             [] pc'[c] = "verify" -> UNCHANGED <<at, answer>>
        /\ UNCHANGED <<chain, in>>

(* Slip: the decision is not asked for again. *)
DecideRemembered(c) ==
    /\ pc[c] = "verify"
    /\ pc' = [pc EXCEPT ![c] = "verdict"]
    /\ verdict' = [verdict EXCEPT ![c] = IF held[c] /\ ctx[c].token THEN "OK" ELSE "PermissionDenied"]
    /\ Show(c, kept[c])
    /\ UNCHANGED <<endpoint, granted, changes, ctx, code, queue, sent, held, exposed>>
    /\ UNCHANGED <<chain, in, at, cx, kept, answer>>

(* Verify asks the decision point, with the ID of the context it was given. *)
Decide(c) ==
    /\ Gate!Decide(c)
    /\ Show(c, kept[c])
    /\ UNCHANGED <<chain, in, at, cx, kept, answer>>

(* ... and returns, in a unary call to the next interceptor, in a stream   *)
(* to RecvMsg.                                                             *)
Return(c) ==
    /\ Gate!VerifyReturn(c)
    /\ CASE ctx[c].stream -> UNCHANGED <<at, answer>>
         [] ~ ctx[c].stream /\ pc'[c] = "handler" -> Proceed(c)
         [] ~ ctx[c].stream /\ pc'[c] = "failed" -> Fail(c, code'[c])
    /\ UNCHANGED <<chain, in, cx, kept, seen>>

(* The call ends: the gate, if it was reached, is left as well. *)
End(c) ==
    /\ IF pc[c] = "idle" THEN UNCHANGED gateVars ELSE Gate!Finish(c)
    /\ in' = [in EXCEPT ![c] = nil]
    /\ at' = [at EXCEPT ![c] = 0]
    /\ cx' = [cx EXCEPT ![c] = NoValues]
    /\ kept' = [kept EXCEPT ![c] = NoID]
    /\ answer' = [answer EXCEPT ![c] = nil]
    /\ seen' = [seen EXCEPT ![c] = {}]
    /\ UNCHANGED chain

(* The error of an interceptor goes back to the client. *)
ReturnError(c) == answer[c] # nil /\ End(c)

-----------------------------------------------------------------------------
(* The handler and its surroundings *)

(* The handler looks at its context, ... *)
ReadID(c) ==
    /\ InHandler(c)
    /\ Show(c, cx[c].id)
    /\ UNCHANGED <<gateVars, chain, in, at, cx, kept, answer>>

(* ... receives, ... *)
Receive(c) ==
    /\ InHandler(c)
    /\ Gate!CallRecv(c) \/ Gate!Deliver(c) \/ Gate!RecvFails(c)
    /\ UNCHANGED chainVars

(* ... and returns. *)
HandlerReturns(c) == InHandler(c) /\ pc[c] \in {"idle", "handler"} /\ End(c)

Surroundings ==
    /\ \/ \E p \in Policies : Gate!Grant(p) \/ Gate!Revoke(p)
       \/ \E c \in Calls : Gate!ClientSend(c)
    /\ UNCHANGED chainVars

Intercept(c) ==
    \/ Track(c) \/ Introspect(c) \/ LookUp(c) \/ Verification(c)
    \/ Decide(c) \/ Return(c) \/ ReturnError(c)

Next ==
    \/ Surroundings
    \/ \E c \in Calls :
        \/ \E call \in Incoming : Arrive(c, call)
        \/ Intercept(c) \/ ReadID(c) \/ Receive(c) \/ HandlerReturns(c)

Spec == Init /\ [][Next]_vars

(* The goroutine of a call is scheduled, and the timeouts of the HTTP      *)
(* clients (EndpointConfig) end every exchange; nothing is asked of the    *)
(* handlers and the clients.                                               *)
FairSpec == Spec /\ \A c \in Calls : WF_vars(Intercept(c))

-----------------------------------------------------------------------------
(* Properties *)

IDs == {NoID} \cup ClientIDs \cup {<<"generated", c, i>> : c \in Calls, i \in 1 .. 4}

(* The state is well formed, and the gate is in step with the chain: it is *)
(* idle until the call has come to verification and after the call.        *)
TypeOK ==
    /\ chain \in Chains
    /\ at \in [Calls -> 0 .. 5]
    /\ cx \in [Calls -> [id : IDs, identity : BOOLEAN, ran : BOOLEAN, policy : Policies \cup {nil}]]
    /\ kept \in [Calls -> IDs]
    /\ answer \in [Calls -> {"Unauthenticated", "PermissionDenied", "Internal", nil}]
    /\ \A c \in Calls :
        /\ at[c] = 0 <=> in[c] = nil
        /\ at[c] # 0 => in[c] \in Incoming /\ at[c] <= Len(chain) + 1
        /\ pc[c] # "idle" => \E i \in 1 .. at[c] : i \in DOMAIN chain /\ chain[i] = "verification"

(* Verification in a chain behaves as the gate on its own, for which       *)
(* PolicyVerificationProofs shows that it fails closed.                    *)
ImplementsGate == Gate!Spec

(* The work of the call goes on: a unary handler runs, or the underlying   *)
(* RecvMsg of a stream is called.                                          *)
Served(c) == InHandler(c) /\ (in[c].stream => pc[c] = "recv")

(* No order of the interceptors opens the gate: with verification anywhere *)
(* in the chain, a method that declares a policy is served only if that    *)
(* very policy was granted during the check, and to a call with a token;   *)
(* one whose declaration cannot be resolved is not served at all.          *)
ServedIsAuthorized ==
    \A c \in Calls : Served(c) /\ Has("verification") /\ Declared(c) # nil =>
        /\ Declared(c) # Refused
        /\ ctx[c].policy = Declared(c)
        /\ held[c] /\ in[c].header.token

(* Introspection and verification agree on who calls: where both are in    *)
(* the chain, in either order, a handler that is served under a policy has *)
(* the identity of the caller in its context.                              *)
ServedHasIdentity ==
    \A c \in Calls :
        Served(c) /\ Has("introspection") /\ Has("verification") /\ Declared(c) # nil =>
            cx[c].identity

(* A call has one request ID: whatever the order of the interceptors and   *)
(* the keys they read, all logs, the requests to both kinds of endpoints   *)
(* (at every RecvMsg of a stream) and the handler show the same; and the   *)
(* handler has it if anyone assigns one.                                   *)
OneRequestID ==
    \A c \in Calls :
        /\ Cardinality(seen[c]) <= 1
        /\ InHandler(c) /\ (Has("tracking") \/ Has("verification")) => seen[c] = {cx[c].id}

(* The interceptors have the call: neither its handler nor the client. *)
Pending(c) == at[c] # 0 /\ ~ (InHandler(c) /\ pc[c] \in {"idle", "handler", "recv"})

(* They always give it back, to the handler or with an answer to the       *)
(* client, at every message of a stream.                                   *)
InterceptorsReturn == \A c \in Calls : Pending(c) ~> ~ Pending(c)
=============================================================================
