---------------------- MODULE PolicyVerificationProofs ----------------------
(***************************************************************************)
(* Proofs about PolicyVerification for any number of calls, policies,      *)
(* messages and permission changes, and any set of HTTP status codes.      *)
(***************************************************************************)
EXTENDS PolicyVerification, TLAPS

(* Whatever goes wrong in an exchange, no endpoint says OK about a         *)
(* permission that a truthful decision point does not grant, or to a call  *)
(* without a token.                                                        *)
LEMMA OKMeansGranted ==
    ASSUME NEW kind \in EndpointKinds, NEW token \in BOOLEAN, NEW x \in Exchanges,
           NEW isGranted \in BOOLEAN,
           Truthful(kind, x, isGranted), Verify(kind, token, x) = "OK"
    PROVE  isGranted /\ token
  BY DEF EndpointKinds, Truthful, Verify, restVerify, opaVerify, cedarVerify, staticVerify, Parsed

(* Each endpoint returns nil or one of the status codes. *)
LEMMA VerifyType ==
    ASSUME NEW kind \in EndpointKinds, NEW token \in BOOLEAN, NEW x \in Exchanges
    PROVE  Verify(kind, token, x) \in VerifyCodes
  BY DEF EndpointKinds, Verify, restVerify, opaVerify, cedarVerify, staticVerify, VerifyCodes

-----------------------------------------------------------------------------
(* Type correctness *)

(* A message more in the queue of a stream. *)
LEMMA AppendType ==
    ASSUME NEW q \in Seq(BOOLEAN), NEW b \in BOOLEAN
    PROVE  Append(q, b) \in Seq(BOOLEAN) /\ Len(Append(q, b)) = Len(q) + 1
  OBVIOUS

(* A message less in the queue of a stream. *)
LEMMA TailType ==
    ASSUME NEW q \in Seq(BOOLEAN), q # <<>>
    PROVE  Tail(q) \in Seq(BOOLEAN) /\ Len(Tail(q)) = Len(q) - 1
  OBVIOUS

(* An idle server is well formed. *)
LEMMA TypeInit == Init => TypeOK
  <1> SUFFICES ASSUME Init PROVE TypeOK
    OBVIOUS
  <1>1. NoContext \in Contexts
    BY DEF NoContext, Contexts
  <1>2. <<>> \in Seq(BOOLEAN) /\ Len(<<>>) = 0
    OBVIOUS
  <1> QED
    BY <1>1, <1>2, BoundsAreNaturals DEF Init, TypeOK, VerifyCodes

(* Verdicts holds nothing but what Verify makes of a truthful exchange. *)
LEMMA VerdictsExchange ==
    ASSUME NEW kind \in EndpointKinds, NEW token \in BOOLEAN, NEW isGranted \in BOOLEAN,
           NEW v \in Verdicts[kind][token][isGranted]
    PROVE  \E x \in Exchanges : Truthful(kind, x, isGranted) /\ v = Verify(kind, token, x)
  <1>1. Verdicts[kind][token][isGranted] =
            {Verify(kind, token, x) : x \in {y \in Exchanges : Truthful(kind, y, isGranted)}}
    BY Zenon DEF Verdicts
  <1> QED
    BY <1>1, Zenon

(* The verdict that Decide puts on its way comes from some exchange. *)
LEMMA DecideExchange ==
    ASSUME TypeOK, NEW c \in Calls, Decide(c)
    PROVE  \E x \in Exchanges :
                /\ Truthful(endpoint, x, Granted(c))
                /\ verdict' = [verdict EXCEPT ![c] = Verify(endpoint, ctx[c].token, x)]
  <1>1. endpoint \in EndpointKinds /\ ctx[c].token \in BOOLEAN /\ Granted(c) \in BOOLEAN
    BY DEF TypeOK, Contexts, Granted
  <1>2. PICK v \in Verdicts[endpoint][ctx[c].token][Granted(c)] :
            verdict' = [verdict EXCEPT ![c] = v]
    BY DEF Decide
  <1>3. \E x \in Exchanges :
            Truthful(endpoint, x, Granted(c)) /\ v = Verify(endpoint, ctx[c].token, x)
    BY <1>1, VerdictsExchange, Zenon
  <1> QED
    BY <1>2, <1>3

(* Every step keeps the state well formed. *)
LEMMA TypeNext == TypeOK /\ [Next]_vars => TypeOK'
  <1> SUFFICES ASSUME TypeOK, [Next]_vars PROVE TypeOK'
    OBVIOUS
  <1> USE BoundsAreNaturals DEF TypeOK, callVars
  <1>1. CASE UNCHANGED vars
    BY <1>1 DEF vars
  <1>2. ASSUME NEW p \in Policies, Grant(p) PROVE TypeOK'
    BY <1>2 DEF Grant
  <1>3. ASSUME NEW p \in Policies, Revoke(p) PROVE TypeOK'
    BY <1>3 DEF Revoke
  <1>4. ASSUME NEW c \in Calls, ClientSend(c) PROVE TypeOK'
    <2>1. Granted(c) \in BOOLEAN
      BY DEF Granted
    <2>2. /\ Append(queue[c], Granted(c)) \in Seq(BOOLEAN)
          /\ Len(Append(queue[c], Granted(c))) = Len(queue[c]) + 1
      BY <2>1, AppendType
    <2>3. queue' \in [Calls -> Seq(BOOLEAN)]
      BY <1>4, <2>2 DEF ClientSend
    <2>4. sent' \in [Calls -> 0 .. MaxMessages]
      BY <1>4 DEF ClientSend
    <2>5. \A d \in Calls : Len(queue'[d]) <= sent'[d]
      BY <1>4, <2>2 DEF ClientSend
    <2> QED
      BY <1>4, <2>3, <2>4, <2>5 DEF ClientSend
  <1>5. ASSUME NEW c \in Calls, NEW x \in Contexts, OpenUnary(c, x) PROVE TypeOK'
    <2>1. (x.policy \in granted) \in BOOLEAN
      OBVIOUS
    <2>2. held' \in [Calls -> BOOLEAN]
      BY <1>5, <2>1 DEF OpenUnary, AskAt
    <2> QED
      BY <1>5, <2>2 DEF OpenUnary, AskAt, Goto, VerifyCodes
  <1>6. ASSUME NEW c \in Calls, NEW x \in Contexts, OpenStream(c, x) PROVE TypeOK'
    BY <1>6 DEF OpenStream, Goto, VerifyCodes
  <1>7. ASSUME NEW c \in Calls, CallRecv(c) PROVE TypeOK'
    <2>1. Granted(c) \in BOOLEAN
      BY DEF Granted
    <2>2. held' \in [Calls -> BOOLEAN]
      BY <1>7, <2>1 DEF CallRecv, AskAt
    <2> QED
      BY <1>7, <2>2 DEF CallRecv, AskAt, Goto
  <1>8. ASSUME NEW c \in Calls, Decide(c) PROVE TypeOK'
    <2>1. ctx[c].token \in BOOLEAN
      BY DEF Contexts
    <2>2. PICK x \in Exchanges :
                verdict' = [verdict EXCEPT ![c] = Verify(endpoint, ctx[c].token, x)]
      BY <1>8, DecideExchange
    <2>3. Verify(endpoint, ctx[c].token, x) \in VerifyCodes
      BY <2>1, VerifyType
    <2>4. verdict' \in [Calls -> VerifyCodes \cup {nil}]
      BY <2>2, <2>3
    <2> QED
      BY <1>8, <2>4 DEF Decide, Goto
  <1>9. ASSUME NEW c \in Calls, VerifyReturn(c) PROVE TypeOK'
    <2>1. pc[c] = "verdict" /\ verdict' = [verdict EXCEPT ![c] = nil]
      BY <1>9 DEF VerifyReturn
    <2>2. code' = code \/ (verdict[c] # "OK" /\ code' = [code EXCEPT ![c] = verdict[c]])
      BY <1>9 DEF VerifyReturn
    <2>3. code' \in [Calls -> (VerifyCodes \ {"OK"}) \cup {nil}]
      BY <2>2
    <2> QED
      BY <1>9, <2>1, <2>3 DEF VerifyReturn, Goto
  <1>10. ASSUME NEW c \in Calls, Deliver(c) PROVE TypeOK'
    <2>1. Tail(queue[c]) \in Seq(BOOLEAN) /\ Len(Tail(queue[c])) = Len(queue[c]) - 1
      BY <1>10, TailType DEF Deliver
    <2>2. queue' \in [Calls -> Seq(BOOLEAN)]
      BY <1>10, <2>1 DEF Deliver
    <2>3. \A d \in Calls : Len(queue'[d]) <= sent'[d]
      BY <1>10, <2>1 DEF Deliver
    <2>4. exposed' \in [Calls -> Nat]
      BY <1>10 DEF Deliver
    <2> QED
      BY <1>10, <2>2, <2>3, <2>4 DEF Deliver, Goto
  <1>11. ASSUME NEW c \in Calls, RecvFails(c) PROVE TypeOK'
    BY <1>11 DEF RecvFails, Goto
  <1>12. ASSUME NEW c \in Calls, Finish(c) PROVE TypeOK'
    <2>1. NoContext \in Contexts
      BY DEF NoContext, Contexts
    <2>2. <<>> \in Seq(BOOLEAN) /\ Len(<<>>) = 0
      OBVIOUS
    <2>3. queue' \in [Calls -> Seq(BOOLEAN)] /\ \A d \in Calls : Len(queue'[d]) <= sent'[d]
      BY <1>12, <2>2 DEF Finish
    <2> QED
      BY <1>12, <2>1, <2>3 DEF Finish, Goto
  <1> QED
    BY <1>1, <1>2, <1>3, <1>4, <1>5, <1>6, <1>7, <1>8, <1>9, <1>10, <1>11, <1>12
    DEF Next

(* Every reachable state of the gate is well formed. *)
THEOREM TypeCorrect == Spec => []TypeOK
  BY TypeInit, TypeNext, PTL DEF Spec

-----------------------------------------------------------------------------
(* The gate *)

(* held watches the permission from the moment a check is asked for, so    *)
(* that a positive verdict on its way is backed by a permission that was   *)
(* granted during the check.                                               *)
GateInv ==
    \A c \in Calls :
        /\ pc[c] \in {"verify", "verdict", "handler", "recv"} => ctx[c].ran
        /\ pc[c] = "recv" => ctx[c].stream
        /\ pc[c] \in {"verify", "verdict"} /\ Granted(c) => held[c]
        /\ pc[c] = "verdict" /\ verdict[c] = "OK" => held[c] /\ ctx[c].token
        /\ (IF ctx[c].stream THEN pc[c] = "recv" ELSE pc[c] = "handler") /\ Policy(c) # nil =>
                held[c] /\ ctx[c].token

(* No message has been delivered under a revoked policy while the policy   *)
(* is granted, while a positive verdict is on its way or while the         *)
(* underlying RecvMsg waits.                                               *)
ExposureInv ==
    \A c \in Calls :
        /\ exposed[c] <= 1
        /\ Granted(c) => exposed[c] = 0
        /\ pc[c] = "idle" => exposed[c] = 0
        /\ pc[c] = "verdict" /\ verdict[c] = "OK" => exposed[c] = 0
        /\ pc[c] = "recv" /\ Policy(c) # nil => exposed[c] = 0

(* Before any call nothing has been granted to or received by a handler. *)
LEMMA InvInit == Init => GateInv /\ ExposureInv
  BY NilIsNoPolicy DEF Init, GateInv, ExposureInv, Granted, Policy, NoContext

(* A positive verdict is backed by the permission as it stands. *)
LEMMA DecideOK ==
    ASSUME TypeOK, NEW c \in Calls, Decide(c), verdict'[c] = "OK"
    PROVE  Granted(c) /\ ctx[c].token
  <1>1. ctx[c].token \in BOOLEAN /\ Granted(c) \in BOOLEAN /\ endpoint \in EndpointKinds
    BY DEF TypeOK, Contexts, Granted
  <1>2. PICK x \in Exchanges :
            /\ Truthful(endpoint, x, Granted(c))
            /\ verdict' = [verdict EXCEPT ![c] = Verify(endpoint, ctx[c].token, x)]
    BY DecideExchange
  <1>3. Verify(endpoint, ctx[c].token, x) = "OK"
    BY <1>2 DEF TypeOK
  <1> QED
    BY <1>1, <1>2, <1>3, OKMeansGranted

(* No step opens the gate without a verdict that the permission backs. *)
LEMMA GateNext == TypeOK /\ GateInv /\ [Next]_vars => GateInv'
  <1> SUFFICES ASSUME TypeOK, GateInv, [Next]_vars PROVE GateInv'
    OBVIOUS
  <1> USE NilIsNoPolicy DEF TypeOK, GateInv, Granted, Policy, callVars, Goto, AskAt
  <1>1. CASE UNCHANGED vars
    BY <1>1 DEF vars
  <1>2. ASSUME NEW p \in Policies, Grant(p) PROVE GateInv'
    BY <1>2 DEF Grant
  <1>3. ASSUME NEW p \in Policies, Revoke(p) PROVE GateInv'
    BY <1>3 DEF Revoke
  <1>4. ASSUME NEW c \in Calls, ClientSend(c) PROVE GateInv'
    BY <1>4 DEF ClientSend
  <1>5. ASSUME NEW c \in Calls, NEW x \in Contexts, OpenUnary(c, x) PROVE GateInv'
    <2>1. ctx' = [ctx EXCEPT ![c] = x] /\ granted' = granted /\ verdict' = verdict
      BY <1>5 DEF OpenUnary
    <2>2. CASE pc' = [pc EXCEPT ![c] = "failed"] /\ held' = held
      BY <2>1, <2>2
    <2>3. CASE x.ran /\ x.policy = nil /\ pc' = [pc EXCEPT ![c] = "handler"] /\ held' = held
      BY <2>1, <2>3
    <2>4. CASE /\ x.ran /\ pc' = [pc EXCEPT ![c] = "verify"]
               /\ held' = [held EXCEPT ![c] = x.policy \in granted]
      <3>1. held'[c] = (x.policy \in granted) /\ \A d \in Calls : d # c => held'[d] = held[d]
        BY <2>4
      <3>2. ~ x.stream
        BY <1>5 DEF OpenUnary
      <3> QED
        BY <2>1, <2>4, <3>1, <3>2
    <2> QED
      BY <1>5, <2>2, <2>3, <2>4 DEF OpenUnary
  <1>6. ASSUME NEW c \in Calls, NEW x \in Contexts, OpenStream(c, x) PROVE GateInv'
    BY <1>6 DEF OpenStream
  <1>7. ASSUME NEW c \in Calls, CallRecv(c) PROVE GateInv'
    <2>1. /\ ctx[c].stream /\ pc[c] = "handler"
          /\ ctx' = ctx /\ granted' = granted /\ verdict' = verdict
      BY <1>7 DEF CallRecv
    <2>2. CASE Policy(c) = nil /\ pc' = [pc EXCEPT ![c] = "recv"] /\ held' = held
      BY <2>1, <2>2
    <2>3. CASE pc' = [pc EXCEPT ![c] = "verify"] /\ held' = [held EXCEPT ![c] = Granted(c)]
      <3>1. held'[c] = Granted(c) /\ \A d \in Calls : d # c => held'[d] = held[d]
        BY <2>3
      <3> QED
        BY <2>1, <2>3, <3>1
    <2> QED
      BY <1>7, <2>2, <2>3 DEF CallRecv
  <1>8. ASSUME NEW c \in Calls, Decide(c) PROVE GateInv'
    <2>1. verdict'[c] = "OK" => Granted(c) /\ ctx[c].token
      BY <1>8, DecideOK
    <2>2. \A d \in Calls : d # c => verdict'[d] = verdict[d]
      BY <1>8 DEF Decide
    <2> QED
      BY <1>8, <2>1, <2>2 DEF Decide
  <1>9. ASSUME NEW c \in Calls, VerifyReturn(c) PROVE GateInv'
    BY <1>9 DEF VerifyReturn
  <1>10. ASSUME NEW c \in Calls, Deliver(c) \/ RecvFails(c) PROVE GateInv'
    BY <1>10 DEF Deliver, RecvFails
  <1>11. ASSUME NEW c \in Calls, Finish(c) PROVE GateInv'
    BY <1>11 DEF Finish, NoContext
  <1> QED
    BY <1>1, <1>2, <1>3, <1>4, <1>5, <1>6, <1>7, <1>8, <1>9, <1>10, <1>11 DEF Next

(* No step delivers a second message without a check in between. *)
LEMMA ExposureNext == TypeOK /\ ExposureInv /\ [Next]_vars => ExposureInv'
  <1> SUFFICES ASSUME TypeOK, ExposureInv, [Next]_vars PROVE ExposureInv'
    OBVIOUS
  <1> USE NilIsNoPolicy DEF TypeOK, ExposureInv, Granted, Policy, callVars, Goto, AskAt
  <1>1. CASE UNCHANGED vars
    BY <1>1 DEF vars
  <1>2. ASSUME NEW p \in Policies, Grant(p) PROVE ExposureInv'
    BY <1>2 DEF Grant
  <1>3. ASSUME NEW p \in Policies, Revoke(p) PROVE ExposureInv'
    BY <1>3 DEF Revoke
  <1>4. ASSUME NEW c \in Calls, ClientSend(c) PROVE ExposureInv'
    BY <1>4 DEF ClientSend
  <1>5. ASSUME NEW c \in Calls, NEW x \in Contexts, OpenUnary(c, x) PROVE ExposureInv'
    BY <1>5 DEF OpenUnary
  <1>6. ASSUME NEW c \in Calls, NEW x \in Contexts, OpenStream(c, x) PROVE ExposureInv'
    BY <1>6 DEF OpenStream
  <1>7. ASSUME NEW c \in Calls, CallRecv(c) PROVE ExposureInv'
    BY <1>7 DEF CallRecv
  <1>8. ASSUME NEW c \in Calls, Decide(c) PROVE ExposureInv'
    <2>1. verdict'[c] = "OK" => Granted(c)
      BY <1>8, DecideOK
    <2>2. \A d \in Calls : d # c => verdict'[d] = verdict[d]
      BY <1>8 DEF Decide
    <2> QED
      BY <1>8, <2>1, <2>2 DEF Decide
  <1>9. ASSUME NEW c \in Calls, VerifyReturn(c) PROVE ExposureInv'
    <2>1. /\ pc[c] = "verdict" /\ verdict' = [verdict EXCEPT ![c] = nil]
          /\ ctx' = ctx /\ granted' = granted /\ exposed' = exposed
      BY <1>9 DEF VerifyReturn
    <2>2. CASE verdict[c] = "OK" /\ pc' \in {[pc EXCEPT ![c] = "recv"], [pc EXCEPT ![c] = "handler"]}
      BY <2>1, <2>2
    <2>3. CASE pc' = [pc EXCEPT ![c] = "handler"]
      BY <2>1, <2>3
    <2>4. CASE pc' = [pc EXCEPT ![c] = "failed"]
      BY <2>1, <2>4
    <2> QED
      BY <1>9, <2>2, <2>3, <2>4 DEF VerifyReturn
  <1>10. ASSUME NEW c \in Calls, Deliver(c) PROVE ExposureInv'
    BY <1>10 DEF Deliver
  <1>11. ASSUME NEW c \in Calls, RecvFails(c) PROVE ExposureInv'
    BY <1>11 DEF RecvFails
  <1>12. ASSUME NEW c \in Calls, Finish(c) PROVE ExposureInv'
    BY <1>12 DEF Finish, NoContext
  <1> QED
    BY <1>1, <1>2, <1>3, <1>4, <1>5, <1>6, <1>7, <1>8, <1>9, <1>10, <1>11, <1>12
    DEF Next

(* The gate fails closed, for every kind of endpoint. *)
THEOREM GateCorrect == Spec => []GateHolds
  <1>1. GateInv => GateHolds
    BY DEF GateInv, GateHolds
  <1> QED
    BY <1>1, InvInit, GateNext, TypeCorrect, PTL DEF Spec

(* A revoked policy lets at most one more message through on each stream. *)
THEOREM ExposureCorrect == Spec => []BoundedExposure
  <1>1. ExposureInv => BoundedExposure
    BY DEF ExposureInv, BoundedExposure
  <1> QED
    BY <1>1, InvInit, ExposureNext, TypeCorrect, PTL DEF Spec
=============================================================================
