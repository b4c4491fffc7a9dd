------------------------- MODULE PolicyVerification -------------------------
(***************************************************************************)
(* The policy verification interceptors,                                   *)
(* src/policy_verification/interceptor.go: the gate between a call and its *)
(* handler.  A unary call is verified once, before the handler; a stream   *)
(* enters its handler at once and is verified at every RecvMsg, before the *)
(* underlying RecvMsg blocks for a message.  Permissions are granted and   *)
(* revoked at the decision point meanwhile.                                *)
(*                                                                         *)
(* The handlers are arbitrary: a stream handler may receive as often as it *)
(* likes, also after an error, and return whenever it has control.         *)
(*                                                                         *)
(* The request ID that the interceptor puts into the context does not      *)
(* influence any of this; AuthorizationChain adds it.                      *)
(***************************************************************************)
EXTENDS Integers, Sequences, VerifierEndpoint

CONSTANTS
    Calls,          \* slots of concurrent calls
    Policies,       \* resolved policies: pairs of a resource and an action
    MaxMessages,    \* bound on the messages a client sends on one stream
    MaxChanges,     \* bound on the grants and revocations
    nil

ASSUME BoundsAreNaturals == MaxMessages \in Nat /\ MaxChanges \in Nat
ASSUME NilIsNoPolicy == nil \notin Policies

(* What a call brings along: whether it is a stream, whether               *)
(* protobuf_policy_option ran before (InterceptorRanFromContext), the      *)
(* policy it left in the context (PolicyFromContext; nil for a method      *)
(* without one) and whether the metadata hold a usable token.              *)
Contexts ==
    {x \in [stream : BOOLEAN, ran : BOOLEAN, policy : Policies \cup {nil}, token : BOOLEAN] :
        ~ x.ran => x.policy = nil}
NoContext == [stream |-> FALSE, ran |-> FALSE, policy |-> nil, token |-> FALSE]

VARIABLES
    endpoint,   \* the kind of verifier the server was built with
    granted,    \* policies the decision point grants at present
    changes,    \* number of grants and revocations so far
    ctx,        \* ctx[c]
    pc,         \* where call c is
    verdict,    \* verdict[c]: the result of Verify that is on its way
    code,       \* code[c]: the error the interceptor returned
    queue,      \* queue[c]: messages from the client, not yet received; each says,
                \*   as history, whether the policy was granted when it was sent
    sent,       \* sent[c]: number of messages the client has sent
    held,       \* held[c], history: the policy of c was granted at some moment since
                \*   the current check of c was asked for
    exposed     \* exposed[c], history: messages delivered to the handler of c since
                \*   its policy was revoked

callVars == <<ctx, pc, verdict, code, queue, sent, held, exposed>>
vars == <<endpoint, granted, changes, callVars>>

Policy(c) == ctx[c].policy
Granted(c) == Policy(c) \in granted
Goto(c, label) == pc' = [pc EXCEPT ![c] = label]

Init ==
    /\ endpoint \in EndpointKinds
    /\ granted \in SUBSET Policies
    /\ changes = 0
    /\ ctx = [c \in Calls |-> NoContext]
    /\ pc = [c \in Calls |-> "idle"]
    /\ verdict = [c \in Calls |-> nil]
    /\ code = [c \in Calls |-> nil]
    /\ queue = [c \in Calls |-> <<>>]
    /\ sent = [c \in Calls |-> 0]
    /\ held = [c \in Calls |-> FALSE]
    /\ exposed = [c \in Calls |-> 0]

-----------------------------------------------------------------------------
(* The decision point and the client.  The rules of a static endpoint are  *)
(* copied when it is built and do not change.                              *)

Grant(p) ==
    /\ endpoint # "static"
    /\ changes < MaxChanges
    /\ p \notin granted
    /\ granted' = granted \cup {p}
    /\ changes' = changes + 1
    /\ held' = [c \in Calls |-> held[c] \/ Policy(c) = p]
    /\ exposed' = [c \in Calls |-> IF Policy(c) = p THEN 0 ELSE exposed[c]]
    /\ UNCHANGED <<endpoint, ctx, pc, verdict, code, queue, sent>>

Revoke(p) ==
    /\ endpoint # "static"
    /\ changes < MaxChanges
    /\ p \in granted
    /\ granted' = granted \ {p}
    /\ changes' = changes + 1
    /\ UNCHANGED <<endpoint, callVars>>

ClientSend(c) ==
    /\ ctx[c].stream
    /\ pc[c] \notin {"idle", "failed"}
    /\ sent[c] < MaxMessages
    /\ sent' = [sent EXCEPT ![c] = @ + 1]
    /\ queue' = [queue EXCEPT ![c] = Append(@, Granted(c))]
    /\ UNCHANGED <<endpoint, granted, changes, ctx, pc, verdict, code, held, exposed>>

-----------------------------------------------------------------------------
(* The interceptors *)

(* Ask for a check: held starts to watch the permission. *)
AskAt(c, label, isGranted) ==
    /\ Goto(c, label)
    /\ held' = [held EXCEPT ![c] = isGranted]

(* Interceptor, up to Verify.  Without the policy option interceptor the   *)
(* chain is misconfigured; without a policy the handler runs unverified.   *)
OpenUnary(c, x) ==
    /\ pc[c] = "idle"
    /\ ~ x.stream
    /\ ctx' = [ctx EXCEPT ![c] = x]
    /\ \/ /\ ~ x.ran
          /\ Goto(c, "failed")
          /\ code' = [code EXCEPT ![c] = "Internal"]
          /\ UNCHANGED held
       \/ /\ x.ran /\ x.policy = nil
          /\ Goto(c, "handler")
          /\ UNCHANGED <<held, code>>
       \/ /\ x.ran /\ x.policy # nil
          /\ AskAt(c, "verify", x.policy \in granted)
          /\ UNCHANGED code
    /\ UNCHANGED <<endpoint, granted, changes, verdict, queue, sent, exposed>>

(* StreamInterceptor: the handler is entered at once, with a stream whose  *)
(* RecvMsg verifies if there is a policy.                                  *)
OpenStream(c, x) ==
    /\ pc[c] = "idle"
    /\ x.stream
    /\ ctx' = [ctx EXCEPT ![c] = x]
    /\ IF x.ran
       THEN Goto(c, "handler") /\ UNCHANGED code
       ELSE Goto(c, "failed") /\ code' = [code EXCEPT ![c] = "Internal"]
    /\ UNCHANGED <<endpoint, granted, changes, verdict, queue, sent, held, exposed>>

(* Slip: only the first RecvMsg is verified. *)
CallRecvFirst(c) ==
    /\ ctx[c].stream
    /\ pc[c] = "handler"
    /\ IF Policy(c) = nil \/ Len(queue[c]) < sent[c]
       THEN Goto(c, "recv") /\ UNCHANGED held
       ELSE AskAt(c, "verify", Granted(c))
    /\ UNCHANGED <<endpoint, granted, changes, ctx, verdict, code, queue, sent, exposed>>

(* The handler of a stream calls RecvMsg: authServerStream verifies first, *)
(* requestIDStream does not.                                               *)
CallRecv(c) ==
    /\ ctx[c].stream
    /\ pc[c] = "handler"
    /\ IF Policy(c) = nil
       THEN Goto(c, "recv") /\ UNCHANGED held
       ELSE AskAt(c, "verify", Granted(c))
    /\ UNCHANGED <<endpoint, granted, changes, ctx, verdict, code, queue, sent, exposed>>

(* What Verify can return, by the kind of endpoint, whether a token came   *)
(* with the call and whether the policy is granted at present: the         *)
(* decision point answers truthfully, or fails.                            *)
Verdicts ==
    [kind \in EndpointKinds |-> [token \in BOOLEAN |-> [isGranted \in BOOLEAN |->
        {Verify(kind, token, x) : x \in {y \in Exchanges : Truthful(kind, y, isGranted)}}]]]

(* verifier.Verify: the decision point decides. *)
Decide(c) ==
    /\ pc[c] = "verify"
    /\ \E v \in Verdicts[endpoint][ctx[c].token][Granted(c)] :
            verdict' = [verdict EXCEPT ![c] = v]
    /\ Goto(c, "verdict")
    /\ UNCHANGED <<endpoint, granted, changes, ctx, code, queue, sent, held, exposed>>

(* Verify returns.  A unary call goes on to its handler or fails with the  *)
(* error; RecvMsg goes on to the underlying RecvMsg or returns the error   *)
(* to the handler.                                                         *)
VerifyReturn(c) ==
    /\ pc[c] = "verdict"
    /\ verdict' = [verdict EXCEPT ![c] = nil]
    /\ \/ /\ verdict[c] = "OK"
          /\ Goto(c, IF ctx[c].stream THEN "recv" ELSE "handler")
          /\ UNCHANGED code
       \/ /\ verdict[c] # "OK" /\ ctx[c].stream
          /\ Goto(c, "handler")
          /\ UNCHANGED code
       \/ /\ verdict[c] # "OK" /\ ~ ctx[c].stream
          /\ Goto(c, "failed")
          /\ code' = [code EXCEPT ![c] = verdict[c]]
    /\ UNCHANGED <<endpoint, granted, changes, ctx, queue, sent, held, exposed>>

(* The underlying RecvMsg has waited for a message and returns it. *)
Deliver(c) ==
    /\ pc[c] = "recv"
    /\ queue[c] # <<>>
    /\ queue' = [queue EXCEPT ![c] = Tail(@)]
    /\ exposed' = IF Policy(c) # nil /\ ~ Granted(c)
                  THEN [exposed EXCEPT ![c] = @ + 1] ELSE exposed
    /\ Goto(c, "handler")
    /\ UNCHANGED <<endpoint, granted, changes, ctx, verdict, code, sent, held>>

(* The underlying RecvMsg returns io.EOF or the error of a cancelled stream. *)
RecvFails(c) ==
    /\ pc[c] = "recv"
    /\ Goto(c, "handler")
    /\ UNCHANGED <<endpoint, granted, changes, ctx, verdict, code, queue, sent, held, exposed>>

(* The handler returns, or the error of the interceptor does. *)
Finish(c) ==
    /\ pc[c] \in {"handler", "failed"}
    /\ Goto(c, "idle")
    /\ ctx' = [ctx EXCEPT ![c] = NoContext]
    /\ code' = [code EXCEPT ![c] = nil]
    /\ queue' = [queue EXCEPT ![c] = <<>>]
    /\ sent' = [sent EXCEPT ![c] = 0]
    /\ held' = [held EXCEPT ![c] = FALSE]
    /\ exposed' = [exposed EXCEPT ![c] = 0]
    /\ UNCHANGED <<endpoint, granted, changes, verdict>>

-----------------------------------------------------------------------------

Next ==
    \/ \E p \in Policies : Grant(p) \/ Revoke(p)
    \/ \E c \in Calls :
        \/ Decide(c) \/ VerifyReturn(c) \/ CallRecv(c) \/ Deliver(c) \/ RecvFails(c) \/ Finish(c)
        \/ ClientSend(c)
        \/ \E x \in Contexts : OpenUnary(c, x) \/ OpenStream(c, x)

Spec == Init /\ [][Next]_vars

-----------------------------------------------------------------------------
(* Properties *)

(* The state is well formed: whatever goes wrong in an exchange, a check   *)
(* ends with one of four codes, and a call fails with one of the other     *)
(* three.                                                                  *)
TypeOK ==
    /\ endpoint \in EndpointKinds
    /\ granted \subseteq Policies
    /\ changes \in 0 .. MaxChanges
    /\ ctx \in [Calls -> Contexts]
    /\ pc \in [Calls -> {"idle", "handler", "verify", "verdict", "recv", "failed"}]
    /\ verdict \in [Calls -> VerifyCodes \cup {nil}]
    /\ code \in [Calls -> (VerifyCodes \ {"OK"}) \cup {nil}]
    /\ queue \in [Calls -> Seq(BOOLEAN)]
    /\ sent \in [Calls -> 0 .. MaxMessages]
    /\ \A c \in Calls : Len(queue[c]) <= sent[c]
    /\ held \in [Calls -> BOOLEAN]
    /\ exposed \in [Calls -> Nat]

(* The gate fails closed, for every kind of endpoint and every way in      *)
(* which an exchange can go wrong: a unary handler is entered, and the     *)
(* underlying RecvMsg is called, only if the policy of the call was        *)
(* granted at some moment of this very check, and never when the policy    *)
(* option interceptor has not run or no token came with the call.          *)
GateHolds ==
    \A c \in Calls :
        /\ pc[c] \in {"handler", "recv"} => ctx[c].ran
        /\ (IF ctx[c].stream THEN pc[c] = "recv" ELSE pc[c] = "handler") /\ Policy(c) # nil =>
                held[c] /\ ctx[c].token

(* Per-message verification bounds what a stream leaks: after its policy   *)
(* has been revoked at most one more message reaches the handler, however  *)
(* long the stream lives and however the revocation falls between Verify   *)
(* and the arrival of the message.                                         *)
BoundedExposure == \A c \in Calls : exposed[c] <= 1

(* README: a token revoked mid-stream is rejected on the next message.  A  *)
(* message sent after the revocation is not handed to the handler as long  *)
(* as the permission stays revoked.                                        *)
RejectedOnNextMessage ==
    [][\A c \in Calls :
        Deliver(c) /\ Policy(c) # nil => Head(queue[c]) \/ Granted(c)]_vars
=============================================================================
