---------------------- MODULE AuthorizationChainProofs ----------------------
(***************************************************************************)
(* Proofs about AuthorizationChain for any number of calls, any choice and *)
(* order of the interceptors, any policies, endpoints and request IDs.     *)
(*                                                                         *)
(* What PolicyVerificationProofs proves of the gate on its own is used     *)
(* here, not proved again: verification in a chain takes no step that the  *)
(* gate could not take.                                                    *)
(***************************************************************************)
EXTENDS AuthorizationChain, TLAPS, FiniteSetTheorems

Proven == INSTANCE PolicyVerificationProofs

-----------------------------------------------------------------------------
(* The inductive invariant *)

(* A call at position n of chain s has left this interceptor behind. *)
Behind(s, n, stage) == \E i \in DOMAIN s : i < n /\ s[i] = stage

(* It is in this interceptor. *)
Inside(s, n, stage) == n \in DOMAIN s /\ s[n] = stage

(* Without a call nothing is left over from the last one; the policy in    *)
(* the context is the one that the policy option interceptor has found.    *)
ValuesInv(c) ==
    /\ at[c] = 0 => cx[c] = NoValues /\ kept[c] = NoID /\ seen[c] = {} /\ pc[c] = "idle"
    /\ cx[c].ran => cx[c].policy = Declared(c)
    /\ ~ cx[c].ran => cx[c].policy = nil

(* The gate is in step with the chain: it is entered in verification, a    *)
(* unary call leaves verification only through the gate, and a stream      *)
(* comes back to it only after that.  It works with what the chain found.  *)
GateInStep(c) ==
    /\ Behind(chain, at[c], "verification") => pc[c] \in {"handler", "verify", "verdict", "recv"}
    /\ Behind(chain, at[c], "verification") /\ pc[c] # "handler" => ctx[c].stream
    /\ pc[c] # "idle" =>
        /\ \/ Behind(chain, at[c], "verification")
           \/ /\ Inside(chain, at[c], "verification")
              /\ pc[c] \in {"verify", "verdict", "failed"}
              /\ pc[c] # "failed" => ~ ctx[c].stream
        /\ ctx[c].stream = in[c].stream
        /\ ctx[c].token = in[c].header.token
        /\ ctx[c].ran => ctx[c].policy = Declared(c)

(* Introspection lets nobody pass but the anonymous and the identified. *)
IdentityInv(c) ==
    Behind(chain, at[c], "introspection") => cx[c].identity \/ in[c].header.reading = "absent"

(* Once an ID is in the context it stays, and is the only one in use. *)
IDInv(c) ==
    /\ seen[c] \subseteq {cx[c].id} \ {NoID}
    /\ kept[c] \in {NoID, cx[c].id}
    /\ Behind(chain, at[c], "tracking") \/ pc[c] # "idle" =>
            cx[c].id # NoID /\ seen[c] = {cx[c].id}

CallInv(c) == ValuesInv(c) /\ GateInStep(c) /\ IdentityInv(c) /\ IDInv(c)

(* The variables of the chain are well formed. *)
Shape ==
    /\ chain \in Chains
    /\ in \in [Calls -> Incoming \cup {nil}]
    /\ at \in [Calls -> 0 .. 5]
    /\ cx \in [Calls -> [id : IDs, identity : BOOLEAN, ran : BOOLEAN, policy : Policies \cup {nil}]]
    /\ kept \in [Calls -> IDs]
    /\ answer \in [Calls -> {"Unauthenticated", "PermissionDenied", "Internal", nil}]
    /\ seen \in [Calls -> SUBSET IDs]
    /\ \A c \in Calls : (at[c] = 0 <=> in[c] = nil) /\ at[c] <= Len(chain) + 1

Inv ==
    /\ Shape
    /\ Proven!TypeOK /\ Proven!GateInv
    /\ \A c \in Calls : CallInv(c)

-----------------------------------------------------------------------------
(* The gate of the chain is the gate of PolicyVerificationProofs *)

(* The assumptions of PolicyVerification hold. *)
LEMMA GateAssumptions ==
    /\ MaxMessages \in Nat /\ MaxChanges \in Nat
    /\ nil \notin Policies
    /\ Statuses \subseteq 100 .. 599
  BY GateAssumption

(* Both know the same verdicts. *)
LEMMA SameVerdicts == Gate!Verdicts = Proven!Verdicts
  BY Zenon DEF Gate!Verdicts, Gate!EndpointKinds, Gate!Exchanges, Gate!Truthful, Gate!Verify,
        Gate!restVerify, Gate!opaVerify, Gate!cedarVerify, Gate!staticVerify, Gate!Parsed, Gate!Is2xx,
        Proven!Verdicts, Proven!EndpointKinds, Proven!Exchanges, Proven!Truthful, Proven!Verify,
        Proven!restVerify, Proven!opaVerify, Proven!cedarVerify, Proven!staticVerify, Proven!Parsed,
        Proven!Is2xx

(* Both start in the same states. *)
LEMMA SameInit == Gate!Init => Proven!Init
  BY DEF Gate!Init, Gate!EndpointKinds, Gate!NoContext,
         Proven!Init, Proven!EndpointKinds, Proven!NoContext

(* Both take the same steps. *)
LEMMA SameNext == [Gate!Next]_(Gate!vars) => [Proven!Next]_(Proven!vars)
  <1> SUFFICES ASSUME [Gate!Next]_(Gate!vars) PROVE [Proven!Next]_(Proven!vars)
    OBVIOUS
  <1> USE DEF Gate!Goto, Proven!Goto, Gate!Policy, Proven!Policy, Gate!Granted, Proven!Granted,
              Gate!callVars, Proven!callVars
  <1>1. CASE UNCHANGED Gate!vars
    BY <1>1 DEF Gate!vars, Proven!vars
  <1>2. ASSUME NEW p \in Policies, Gate!Grant(p) PROVE Proven!Grant(p)
    BY <1>2 DEF Gate!Grant, Proven!Grant
  <1>3. ASSUME NEW p \in Policies, Gate!Revoke(p) PROVE Proven!Revoke(p)
    BY <1>3 DEF Gate!Revoke, Proven!Revoke
  <1>4. ASSUME NEW c \in Calls, Gate!ClientSend(c) PROVE Proven!ClientSend(c)
    BY <1>4 DEF Gate!ClientSend, Proven!ClientSend
  <1>5. ASSUME NEW c \in Calls, NEW x \in Gate!Contexts, Gate!OpenUnary(c, x) \/ Gate!OpenStream(c, x)
        PROVE  x \in Proven!Contexts /\ (Proven!OpenUnary(c, x) \/ Proven!OpenStream(c, x))
    <2>1. x \in Proven!Contexts
      BY DEF Gate!Contexts, Proven!Contexts
    <2>2. Gate!OpenUnary(c, x) => Proven!OpenUnary(c, x)
      BY DEF Gate!OpenUnary, Proven!OpenUnary, Gate!AskAt, Proven!AskAt
    <2>3. Gate!OpenStream(c, x) => Proven!OpenStream(c, x)
      BY DEF Gate!OpenStream, Proven!OpenStream
    <2> QED
      BY <1>5, <2>1, <2>2, <2>3
  <1>6. ASSUME NEW c \in Calls, Gate!CallRecv(c) PROVE Proven!CallRecv(c)
    BY <1>6 DEF Gate!CallRecv, Proven!CallRecv, Gate!AskAt, Proven!AskAt
  <1>7. ASSUME NEW c \in Calls, Gate!Decide(c) PROVE Proven!Decide(c)
    BY <1>7, SameVerdicts DEF Gate!Decide, Proven!Decide
  <1>8. ASSUME NEW c \in Calls, Gate!VerifyReturn(c) PROVE Proven!VerifyReturn(c)
    BY <1>8 DEF Gate!VerifyReturn, Proven!VerifyReturn
  <1>9. ASSUME NEW c \in Calls, Gate!Deliver(c) PROVE Proven!Deliver(c)
    BY <1>9 DEF Gate!Deliver, Proven!Deliver
  <1>10. ASSUME NEW c \in Calls, Gate!RecvFails(c) PROVE Proven!RecvFails(c)
    BY <1>10 DEF Gate!RecvFails, Proven!RecvFails
  <1>11. ASSUME NEW c \in Calls, Gate!Finish(c) PROVE Proven!Finish(c)
    BY <1>11 DEF Gate!Finish, Proven!Finish, Gate!NoContext, Proven!NoContext
  <1> QED
    BY <1>1, <1>2, <1>3, <1>4, <1>5, <1>6, <1>7, <1>8, <1>9, <1>10, <1>11 DEF Gate!Next, Proven!Next

(* So the gate of the chain keeps the invariants that are proved there. *)
LEMMA GateKeepsInv ==
    ASSUME Proven!TypeOK, Proven!GateInv, [Gate!Next]_(Gate!vars)
    PROVE  Proven!TypeOK' /\ Proven!GateInv'
  <1>1. [Proven!Next]_(Proven!vars)
    BY SameNext
  <1>2. Proven!TypeOK'
    BY <1>1, GateAssumptions, Proven!TypeNext
  <1>3. Proven!GateInv'
    BY <1>1, GateAssumptions, Proven!GateNext
  <1> QED
    BY <1>2, <1>3

-----------------------------------------------------------------------------
(* Positions in the chain *)

(* A chain is a sequence of at most four different interceptors. *)
LEMMA ChainType ==
    ASSUME NEW s \in Chains
    PROVE  /\ s \in Seq(Stages) /\ Len(s) \in 0 .. 4 /\ DOMAIN s = 1 .. Len(s)
           /\ \A i, j \in DOMAIN s : s[i] = s[j] => i = j
  <1>1. s \in Seq(Stages) /\ DOMAIN s = 1 .. Len(s) /\ Len(s) \in Nat
    BY ChainsAssumption
  <1>2. \A i, j \in DOMAIN s : s[i] = s[j] => i = j
    BY ChainsAssumption
  <1>3. ASSUME Len(s) > 4 PROVE FALSE
    <2>1. 1 \in DOMAIN s /\ 2 \in DOMAIN s /\ 3 \in DOMAIN s /\ 4 \in DOMAIN s /\ 5 \in DOMAIN s
      BY <1>1, <1>3
    <2>2. s[1] \in Stages /\ s[2] \in Stages /\ s[3] \in Stages /\ s[4] \in Stages /\ s[5] \in Stages
      BY <1>1, <2>1
    <2>3. /\ s[1] # s[2] /\ s[1] # s[3] /\ s[1] # s[4] /\ s[1] # s[5] /\ s[2] # s[3]
          /\ s[2] # s[4] /\ s[2] # s[5] /\ s[3] # s[4] /\ s[3] # s[5] /\ s[4] # s[5]
      BY <1>2, <2>1
    <2> QED
      BY <2>2, <2>3 DEF Stages
  <1> QED
    BY <1>1, <1>2, <1>3

(* One position further, exactly the interceptor at this position has been *)
(* added to those left behind.                                             *)
LEMMA BehindNext ==
    ASSUME NEW s \in Chains, NEW n \in DOMAIN s, NEW stage
    PROVE  /\ Behind(s, n + 1, stage) <=> Behind(s, n, stage) \/ s[n] = stage
           /\ s[n] = stage => ~ Behind(s, n, stage)
  <1>1. DOMAIN s = 1 .. Len(s) /\ Len(s) \in Nat /\ \A i, j \in DOMAIN s : s[i] = s[j] => i = j
    BY ChainType
  <1> QED
    BY <1>1 DEF Behind

(* At the end of the chain every interceptor is behind. *)
LEMMA BehindEnd ==
    ASSUME NEW s \in Chains, NEW stage
    PROVE  Contains(s, stage) <=> Behind(s, Len(s) + 1, stage)
  <1>1. DOMAIN s = 1 .. Len(s) /\ Len(s) \in Nat
    BY ChainType
  <1> QED
    BY <1>1 DEF Contains, Behind

(* Before the first position none is. *)
LEMMA BehindNone ==
    ASSUME NEW s \in Chains, NEW stage
    PROVE  ~ Behind(s, 0, stage) /\ ~ Behind(s, 1, stage) /\ ~ Inside(s, 0, stage)
  <1>1. DOMAIN s = 1 .. Len(s) /\ Len(s) \in Nat
    BY ChainType
  <1> QED
    BY <1>1 DEF Behind, Inside

-----------------------------------------------------------------------------
(* Request IDs *)

(* A generated ID is one, and not the empty string. *)
LEMMA FreshID ==
    ASSUME Shape, NEW c \in Calls, at[c] \in DOMAIN chain
    PROVE  Fresh(c) \in IDs /\ Fresh(c) # NoID
  <1>0. DOMAIN chain = 1 .. Len(chain) /\ Len(chain) \in 0 .. 4
    BY ChainType DEF Shape
  <1>1. at[c] \in 1 .. 4
    BY <1>0
  <1>2. Fresh(c) \in IDs
    BY <1>1 DEF Fresh, IDs
  <1>3. Len(<<"generated", c, at[c]>>) = 3 /\ Len(<<>>) = 0
    OBVIOUS
  <1> QED
    BY <1>2, <1>3 DEF Fresh, NoID

(* The ID that an interceptor works with is one, and the one that is       *)
(* already in the context if there is one.                                 *)
LEMMA RequestID ==
    ASSUME NEW id \in IDs, NEW call \in Incoming, NEW key \in {DefaultKey, metadataKey},
           NEW fresh \in IDs, fresh # NoID
    PROVE  /\ requestID(id, call.md, key, fresh) \in IDs
           /\ requestID(id, call.md, key, fresh) # NoID
           /\ id # NoID => requestID(id, call.md, key, fresh) = id
  <1>1. call.md[key] \in {NoID} \cup ClientIDs
    BY DEF Incoming
  <1> QED
    BY <1>1 DEF requestID, extractOrGenerateRequestID, IDs

(* What becomes visible of an ID. *)
LEMMA ShowID ==
    ASSUME Shape, NEW c \in Calls, NEW id \in IDs, Show(c, id)
    PROVE  /\ seen' \in [Calls -> SUBSET IDs]
           /\ seen'[c] = seen[c] \cup ({id} \ {NoID})
           /\ \A d \in Calls : d # c => seen'[d] = seen[d]
  BY DEF Show, Shape

-----------------------------------------------------------------------------
(* The chain implements the gate *)

(* What verification is given is a context that the gate knows. *)
LEMMA ContextType ==
    ASSUME Inv, NEW c \in Calls, Runs(c, "verification")
    PROVE  /\ ContextFor(c) \in Gate!Contexts
           /\ in[c] \in Incoming /\ at[c] \in DOMAIN chain
  <1>1. at[c] \in DOMAIN chain /\ at[c] # 0 /\ in[c] \in Incoming
    BY ChainType DEF Runs, Inv, Shape
  <1>2. in[c].stream \in BOOLEAN /\ in[c].header.token \in BOOLEAN
    BY <1>1 DEF Incoming, Headers
  <1>3. cx[c].ran \in BOOLEAN /\ cx[c].policy \in Policies \cup {nil} /\ (~ cx[c].ran => cx[c].policy = nil)
    BY DEF Inv, Shape, CallInv, ValuesInv
  <1> QED
    BY <1>1, <1>2, <1>3 DEF ContextFor, Gate!Contexts

(* Leaving the call leaves the gate, or finds it untouched. *)
LEMMA EndRefines ==
    ASSUME NEW c \in Calls, End(c)
    PROVE  [Gate!Next]_(Gate!vars)
  BY DEF End, gateVars, Gate!vars, Gate!callVars, Gate!Next

(* Every step of the chain is one of the gate or leaves the gate alone. *)
LEMMA StepRefines == Inv /\ [Next]_vars => [Gate!Next]_(Gate!vars)
  <1> SUFFICES ASSUME Inv, [Next]_vars PROVE [Gate!Next]_(Gate!vars)
    OBVIOUS
  <1> USE DEF gateVars, Gate!vars, Gate!callVars
  <1>1. CASE UNCHANGED vars
    BY <1>1 DEF vars
  <1>2. CASE Surroundings
    BY <1>2 DEF Surroundings, Gate!Next
  <1>3. ASSUME NEW c \in Calls, NEW call, Arrive(c, call) PROVE UNCHANGED Gate!vars
    BY <1>3 DEF Arrive
  <1>4. ASSUME NEW c \in Calls, Track(c) \/ Introspect(c) \/ LookUp(c) \/ ReadID(c)
        PROVE  UNCHANGED Gate!vars
    BY <1>4 DEF Track, Introspect, LookUp, ReadID
  <1>5. ASSUME NEW c \in Calls, Verification(c) PROVE Gate!Next
    <2>1. ContextFor(c) \in Gate!Contexts
      BY <1>5, ContextType DEF Verification
    <2> QED
      BY <1>5, <2>1 DEF Verification, Gate!Next
  <1>6. ASSUME NEW c \in Calls, Decide(c) \/ Return(c) \/ Receive(c) PROVE Gate!Next
    BY <1>6 DEF Decide, Return, Receive, Gate!Next
  <1>7. ASSUME NEW c \in Calls, ReturnError(c) \/ HandlerReturns(c)
        PROVE  [Gate!Next]_(Gate!vars)
    BY <1>7, EndRefines DEF ReturnError, HandlerReturns
  <1> QED
    BY <1>1, <1>2, <1>3, <1>4, <1>5, <1>6, <1>7 DEF Next, Intercept

-----------------------------------------------------------------------------
(* The invariant is preserved *)

(* A call whose own variables do not change stays as it is. *)
LEMMA CallFrame ==
    ASSUME NEW c \in Calls, CallInv(c), chain' = chain, at'[c] = at[c], in'[c] = in[c],
           cx'[c] = cx[c], kept'[c] = kept[c], seen'[c] = seen[c], pc'[c] = pc[c], ctx'[c] = ctx[c]
    PROVE  CallInv(c)'
  BY DEF CallInv, ValuesInv, GateInStep, IdentityInv, IDInv, Declared

(* The shape of a step forward. *)
LEMMA ProceedShape ==
    ASSUME Inv, NEW c \in Calls, at[c] \in DOMAIN chain, Proceed(c)
    PROVE  /\ at' \in [Calls -> 0 .. 5] /\ at'[c] = at[c] + 1 /\ at[c] # 0
           /\ at'[c] <= Len(chain) + 1 /\ answer' = answer
           /\ \A d \in Calls : d # c => at'[d] = at[d]
  <1>1. DOMAIN chain = 1 .. Len(chain) /\ Len(chain) \in 0 .. 4
    BY ChainType DEF Inv, Shape
  <1>2. at \in [Calls -> 0 .. 5]
    BY DEF Inv, Shape
  <1> QED
    BY <1>1, <1>2 DEF Proceed

(* The shape of an error. *)
LEMMA FailShape ==
    ASSUME Inv, NEW c \in Calls, NEW err \in {"Unauthenticated", "PermissionDenied", "Internal", nil},
           Fail(c, err)
    PROVE  at' = at /\ answer' \in [Calls -> {"Unauthenticated", "PermissionDenied", "Internal", nil}]
  BY DEF Fail, Inv, Shape

(* An interceptor that has the call has one: the position is in the chain. *)
LEMMA RunsShape ==
    ASSUME Inv, NEW c \in Calls, NEW stage, Runs(c, stage)
    PROVE  /\ at[c] \in DOMAIN chain /\ chain[at[c]] = stage /\ at[c] # 0
           /\ chain \in Chains /\ in[c] \in Incoming
  BY ChainType DEF Runs, Inv, Shape

(* Outside verification the gate is idle, or has been left behind. *)
LEMMA GateElsewhere ==
    ASSUME Inv, NEW c \in Calls, NEW stage, Runs(c, stage), stage # "verification"
    PROVE  /\ ~ Inside(chain, at[c], "verification")
           /\ Behind(chain, at[c] + 1, "verification") <=> Behind(chain, at[c], "verification")
           /\ pc[c] = "idle" \/ Behind(chain, at[c], "verification")
  <1>1. at[c] \in DOMAIN chain /\ chain[at[c]] = stage /\ chain \in Chains
    BY RunsShape
  <1>2. ~ Inside(chain, at[c], "verification")
    BY <1>1 DEF Inside
  <1>3. Behind(chain, at[c] + 1, "verification") <=> Behind(chain, at[c], "verification")
    BY <1>1, BehindNext
  <1> QED
    BY <1>2, <1>3 DEF Inv, CallInv, GateInStep

(* Arrive *)
LEMMA ArriveInv ==
    ASSUME Inv, NEW c \in Calls, NEW call \in Incoming, Arrive(c, call)
    PROVE  Shape' /\ \A d \in Calls : CallInv(d)'
  <1>1. /\ UNCHANGED <<pc, ctx, chain, cx, kept, answer, seen>> /\ at[c] = 0
        /\ at' = [at EXCEPT ![c] = 1] /\ in' = [in EXCEPT ![c] = call]
    BY DEF Arrive, gateVars
  <1>2. chain \in Chains /\ Len(chain) \in 0 .. 4
    BY ChainType DEF Inv, Shape
  <1>3. Shape'
    BY <1>1, <1>2, NilIsNoCall DEF Inv, Shape
  <1>4. ASSUME NEW d \in Calls, d # c PROVE CallInv(d)'
    BY <1>1, <1>4, CallFrame DEF Inv, Shape
  <1>5. /\ cx[c] = NoValues /\ kept[c] = NoID /\ seen[c] = {} /\ pc[c] = "idle"
        /\ at'[c] = 1
    BY <1>1 DEF Inv, Shape, CallInv, ValuesInv
  <1>6. CallInv(c)'
    BY <1>1, <1>2, <1>5, BehindNone
    DEF CallInv, ValuesInv, GateInStep, IdentityInv, IDInv, NoValues
  <1> QED
    BY <1>3, <1>4, <1>6

(* Track *)
LEMMA TrackInv ==
    ASSUME Inv, NEW c \in Calls, Track(c)
    PROVE  Shape' /\ \A d \in Calls : CallInv(d)'
  <1> DEFINE id == requestID(cx[c].id, in[c].md, metadataKey, Fresh(c))
  <1>1. /\ UNCHANGED <<pc, ctx, chain, in, kept>> /\ Runs(c, "tracking")
        /\ cx' = [cx EXCEPT ![c].id = id] /\ Show(c, id) /\ Proceed(c)
    BY DEF Track, gateVars
  <1>2. /\ at[c] \in DOMAIN chain /\ chain[at[c]] = "tracking" /\ at[c] # 0
        /\ chain \in Chains /\ in[c] \in Incoming
    BY <1>1, RunsShape
  <1>3. id \in IDs /\ id # NoID /\ (cx[c].id # NoID => id = cx[c].id)
    BY <1>2, FreshID, RequestID DEF Inv, Shape
  <1> HIDE DEF id
  <1>4. /\ at' \in [Calls -> 0 .. 5] /\ at'[c] = at[c] + 1 /\ at'[c] <= Len(chain) + 1
        /\ answer' = answer /\ \A d \in Calls : d # c => at'[d] = at[d]
    BY <1>1, <1>2, ProceedShape
  <1>5. /\ seen' \in [Calls -> SUBSET IDs] /\ seen'[c] = seen[c] \cup ({id} \ {NoID})
        /\ \A d \in Calls : d # c => seen'[d] = seen[d]
    BY <1>1, <1>3, ShowID DEF Inv
  <1>6. /\ cx' \in [Calls -> [id : IDs, identity : BOOLEAN, ran : BOOLEAN, policy : Policies \cup {nil}]]
        /\ \A d \in Calls : d # c => cx'[d] = cx[d]
        /\ cx'[c].id = id /\ cx'[c].identity = cx[c].identity
        /\ cx'[c].ran = cx[c].ran /\ cx'[c].policy = cx[c].policy
    BY <1>1, <1>3 DEF Inv, Shape
  <1>7. Shape'
    <2>1. at[c] \in 0 .. 5 /\ at'[c] # 0
      BY <1>4 DEF Inv, Shape
    <2> QED
      BY <1>1, <1>2, <1>4, <1>5, <1>6, <2>1 DEF Inv, Shape
  <1>8. ASSUME NEW d \in Calls, d # c PROVE CallInv(d)'
    BY <1>1, <1>4, <1>5, <1>6, <1>8, CallFrame DEF Inv
  <1>9. CallInv(c)
    BY DEF Inv
  <1>10. at'[c] # 0
    BY <1>4 DEF Inv, Shape
  <1>11. ValuesInv(c)'
    BY <1>1, <1>6, <1>9, <1>10 DEF CallInv, ValuesInv, Declared
  <1>12. GateInStep(c)'
    BY <1>1, <1>4, <1>9, GateElsewhere DEF CallInv, GateInStep, Declared
  <1>13. IdentityInv(c)'
    BY <1>1, <1>2, <1>4, <1>6, <1>9, BehindNext DEF CallInv, IdentityInv
  <1>14. IDInv(c)'
    BY <1>1, <1>3, <1>5, <1>6, <1>9 DEF CallInv, IDInv
  <1> QED
    BY <1>7, <1>8, <1>11, <1>12, <1>13, <1>14 DEF CallInv

(* Introspect: who passes with a credential is identified. *)
LEMMA IntrospectInv ==
    ASSUME Inv, NEW c \in Calls, Introspect(c)
    PROVE  Shape' /\ \A d \in Calls : CallInv(d)'
  <1>1. UNCHANGED <<pc, ctx, chain, in, kept>> /\ Runs(c, "introspection")
    BY DEF Introspect, gateVars
  <1>2. /\ at[c] \in DOMAIN chain /\ chain[at[c]] = "introspection" /\ at[c] # 0
        /\ chain \in Chains /\ in[c] \in Incoming
    BY <1>1, RunsShape
  <1>3. CallInv(c) /\ Shape /\ cx[c].id \in IDs
    BY DEF Inv, Shape
  <1>4. /\ seen' \in [Calls -> SUBSET IDs] /\ seen'[c] \in {seen[c], seen[c] \cup ({cx[c].id} \ {NoID})}
        /\ \A d \in Calls : d # c => seen'[d] = seen[d]
    <2>1. CASE UNCHANGED seen
      BY <2>1 DEF Inv, Shape
    <2>2. CASE Show(c, cx[c].id)
      BY <1>3, <2>2, ShowID
    <2> QED
      BY <2>1, <2>2 DEF Introspect
  <1>5. /\ cx' = cx \/ cx' = [cx EXCEPT ![c].identity = TRUE]
        /\ \/ /\ Proceed(c)
              /\ in[c].header.reading = "absent" \/ cx' = [cx EXCEPT ![c].identity = TRUE]
           \/ \E err \in {"Unauthenticated", "Internal"} : Fail(c, err)
    BY DEF Introspect
  <1>6. /\ cx' \in [Calls -> [id : IDs, identity : BOOLEAN, ran : BOOLEAN, policy : Policies \cup {nil}]]
        /\ \A d \in Calls : d # c => cx'[d] = cx[d]
        /\ cx'[c].id = cx[c].id /\ (cx[c].identity => cx'[c].identity)
        /\ cx'[c].ran = cx[c].ran /\ cx'[c].policy = cx[c].policy
    <2>1. CASE cx' = cx
      BY <1>3, <2>1 DEF Shape
    <2>2. CASE cx' = [cx EXCEPT ![c].identity = TRUE]
      BY <1>3, <2>2 DEF Shape
    <2> QED
      BY <1>5, <2>1, <2>2
  <1>7. ASSUME at' = at, answer' \in [Calls -> {"Unauthenticated", "PermissionDenied", "Internal", nil}]
        PROVE  Shape' /\ CallInv(c)' /\ \A d \in Calls : d # c => at'[d] = at[d]
    <2>1. Shape'
      BY <1>1, <1>3, <1>4, <1>6, <1>7 DEF Shape
    <2>2. CallInv(c)'
      BY <1>1, <1>2, <1>3, <1>4, <1>6, <1>7
      DEF CallInv, ValuesInv, GateInStep, IdentityInv, IDInv, Declared
    <2> QED
      BY <1>7, <2>1, <2>2
  <1>8. ASSUME Proceed(c), in[c].header.reading = "absent" \/ cx' = [cx EXCEPT ![c].identity = TRUE]
        PROVE  Shape' /\ CallInv(c)' /\ \A d \in Calls : d # c => at'[d] = at[d]
    <2>1. /\ at' \in [Calls -> 0 .. 5] /\ at'[c] = at[c] + 1 /\ at'[c] <= Len(chain) + 1
          /\ answer' = answer /\ \A d \in Calls : d # c => at'[d] = at[d]
      BY <1>2, <1>8, ProceedShape
    <2>2. at'[c] # 0
      BY <1>3, <2>1 DEF Shape
    <2>3. Shape'
      BY <1>1, <1>2, <1>3, <1>4, <1>6, <2>1, <2>2 DEF Shape
    <2>4. ValuesInv(c)'
      BY <1>1, <1>3, <1>6, <2>2 DEF CallInv, ValuesInv, Declared
    <2>5. GateInStep(c)'
      BY <1>1, <1>3, <2>1, GateElsewhere DEF CallInv, GateInStep, Declared
    <2>6. IdentityInv(c)'
      BY <1>1, <1>3, <1>8 DEF IdentityInv, Shape
    <2>7. IDInv(c)'
      BY <1>1, <1>2, <1>3, <1>4, <1>6, <2>1, BehindNext DEF CallInv, IDInv
    <2> QED
      BY <2>1, <2>3, <2>4, <2>5, <2>6, <2>7 DEF CallInv
  <1>9. Shape' /\ CallInv(c)' /\ \A d \in Calls : d # c => at'[d] = at[d]
    BY <1>5, <1>7, <1>8, FailShape
  <1>10. ASSUME NEW d \in Calls, d # c PROVE CallInv(d)'
    BY <1>1, <1>4, <1>6, <1>9, <1>10, CallFrame DEF Inv
  <1> QED
    BY <1>9, <1>10

(* LookUp: the policy in the context is the declared one. *)
LEMMA LookUpInv ==
    ASSUME Inv, NEW c \in Calls, LookUp(c)
    PROVE  Shape' /\ \A d \in Calls : CallInv(d)'
  <1>1. UNCHANGED <<pc, ctx, chain, in, kept, seen>> /\ Runs(c, "option")
    BY DEF LookUp, gateVars
  <1>2. /\ at[c] \in DOMAIN chain /\ chain[at[c]] = "option" /\ at[c] # 0
        /\ chain \in Chains /\ in[c] \in Incoming
    BY <1>1, RunsShape
  <1>3. CallInv(c) /\ Shape
    BY DEF Inv
  <1>4. CASE Declared(c) = Refused
    <2>1. Fail(c, "Internal") /\ cx' = cx
      BY <1>4 DEF LookUp
    <2>2. at' = at /\ answer' \in [Calls -> {"Unauthenticated", "PermissionDenied", "Internal", nil}]
      BY <2>1, FailShape
    <2>3. Shape'
      BY <1>1, <1>3, <2>1, <2>2 DEF Shape
    <2>4. ASSUME NEW d \in Calls PROVE CallInv(d)'
      BY <1>1, <2>1, <2>2, CallFrame DEF Inv
    <2> QED
      BY <2>3, <2>4
  <1>5. CASE Declared(c) # Refused
    <2>1. Proceed(c) /\ cx' = [cx EXCEPT ![c].ran = TRUE, ![c].policy = Declared(c)]
      BY <1>5 DEF LookUp
    <2>2. /\ at' \in [Calls -> 0 .. 5] /\ at'[c] = at[c] + 1 /\ at'[c] <= Len(chain) + 1
          /\ answer' = answer /\ \A d \in Calls : d # c => at'[d] = at[d]
      BY <1>2, <2>1, ProceedShape
    <2>3. at'[c] # 0
      BY <1>3, <2>2 DEF Shape
    <2>4. Declared(c) \in Policies \cup {nil}
      BY <1>2, <1>5 DEF Declared, Incoming
    <2>5. /\ cx' \in [Calls -> [id : IDs, identity : BOOLEAN, ran : BOOLEAN, policy : Policies \cup {nil}]]
          /\ \A d \in Calls : d # c => cx'[d] = cx[d]
          /\ cx'[c].id = cx[c].id /\ cx'[c].identity = cx[c].identity
          /\ cx'[c].ran = TRUE /\ cx'[c].policy = Declared(c)
      BY <1>3, <2>1, <2>4 DEF Shape
    <2>6. Shape'
      BY <1>1, <1>2, <1>3, <2>2, <2>3, <2>5 DEF Shape
    <2>7. ASSUME NEW d \in Calls, d # c PROVE CallInv(d)'
      BY <1>1, <2>2, <2>5, <2>7, CallFrame DEF Inv
    <2>8. ValuesInv(c)'
      BY <1>1, <2>3, <2>5 DEF ValuesInv, Declared
    <2>9. GateInStep(c)'
      BY <1>1, <1>3, <2>2, GateElsewhere DEF CallInv, GateInStep, Declared
    <2>10. IdentityInv(c)' /\ IDInv(c)'
      BY <1>1, <1>2, <1>3, <2>2, <2>5, BehindNext DEF CallInv, IdentityInv, IDInv
    <2> QED
      BY <2>6, <2>7, <2>8, <2>9, <2>10 DEF CallInv
  <1> QED
    BY <1>4, <1>5

(* A gate that is idle is entered: with the context of the call, into the  *)
(* handler, with an error or to ask for a check.                           *)
LEMMA GateOpens ==
    ASSUME Proven!TypeOK, NEW c \in Calls, NEW x,
           Gate!OpenUnary(c, x) \/ Gate!OpenStream(c, x)
    PROVE  /\ ctx' = [ctx EXCEPT ![c] = x] /\ ctx'[c] = x
           /\ pc'[c] \in {"failed", "handler", "verify"} /\ (pc'[c] = "verify" => ~ x.stream)
           /\ \A d \in Calls : d # c => pc'[d] = pc[d] /\ ctx'[d] = ctx[d]
  BY DEF Proven!TypeOK, Gate!OpenUnary, Gate!OpenStream, Gate!Goto, Gate!AskAt

(* Verification *)
LEMMA VerificationInv ==
    ASSUME Inv, Proven!TypeOK', NEW c \in Calls, Verification(c)
    PROVE  Shape' /\ \A d \in Calls : CallInv(d)'
  <1> DEFINE id == assignedID(c)
             x == ContextFor(c)
  <1>1. /\ UNCHANGED <<chain, in>> /\ Runs(c, "verification") /\ pc[c] = "idle"
        /\ cx' = [cx EXCEPT ![c].id = id] /\ kept' = [kept EXCEPT ![c] = id] /\ Show(c, id)
        /\ Gate!OpenUnary(c, x) \/ Gate!OpenStream(c, x)
    BY DEF Verification
  <1>2. /\ at[c] \in DOMAIN chain /\ chain[at[c]] = "verification" /\ at[c] # 0
        /\ chain \in Chains /\ in[c] \in Incoming
    BY <1>1, RunsShape
  <1>3. id \in IDs /\ id # NoID /\ (cx[c].id # NoID => id = cx[c].id)
    BY <1>2, FreshID, RequestID DEF Inv, Shape, assignedID
  <1> HIDE DEF id
  <1>4. /\ ctx'[c] = x /\ pc'[c] \in {"failed", "handler", "verify"} /\ (pc'[c] = "verify" => ~ x.stream)
        /\ \A d \in Calls : d # c => pc'[d] = pc[d] /\ ctx'[d] = ctx[d]
    BY <1>1, GateOpens DEF Inv
  <1>5. /\ x.stream = in[c].stream /\ x.token = in[c].header.token
        /\ x.ran => x.policy = Declared(c)
    BY DEF ContextFor, Inv, CallInv, ValuesInv
  <1> HIDE DEF x
  <1>6. /\ seen' \in [Calls -> SUBSET IDs] /\ seen'[c] = seen[c] \cup ({id} \ {NoID})
        /\ \A d \in Calls : d # c => seen'[d] = seen[d]
    BY <1>1, <1>3, ShowID DEF Inv
  <1>7. /\ cx' \in [Calls -> [id : IDs, identity : BOOLEAN, ran : BOOLEAN, policy : Policies \cup {nil}]]
        /\ \A d \in Calls : d # c => cx'[d] = cx[d] /\ kept'[d] = kept[d]
        /\ cx'[c].id = id /\ cx'[c].identity = cx[c].identity
        /\ cx'[c].ran = cx[c].ran /\ cx'[c].policy = cx[c].policy
        /\ kept' \in [Calls -> IDs] /\ kept'[c] = id
    BY <1>1, <1>3 DEF Inv, Shape
  <1>8. \/ pc'[c] = "handler" /\ Proceed(c)
        \/ pc'[c] = "failed" /\ Fail(c, code'[c])
        \/ pc'[c] = "verify" /\ UNCHANGED <<at, answer>>
    BY <1>4 DEF Verification
  <1>9. /\ at' \in [Calls -> 0 .. 5] /\ at'[c] <= Len(chain) + 1 /\ at'[c] # 0
        /\ at'[c] = IF pc'[c] = "handler" THEN at[c] + 1 ELSE at[c]
        /\ answer' \in [Calls -> {"Unauthenticated", "PermissionDenied", "Internal", nil}]
        /\ \A d \in Calls : d # c => at'[d] = at[d]
    <2>0. at \in [Calls -> 0 .. 5] /\ at[c] <= Len(chain) + 1
      BY DEF Inv, Shape
    <2>1. CASE pc'[c] = "handler" /\ Proceed(c)
      BY <1>2, <2>0, <2>1, ProceedShape DEF Inv, Shape
    <2>2. CASE pc'[c] = "failed" /\ Fail(c, code'[c])
      <3>1. code'[c] \in {"Unauthenticated", "PermissionDenied", "Internal", nil}
        BY DEF Proven!TypeOK, Proven!VerifyCodes
      <3> QED
        BY <1>2, <2>0, <2>2, <3>1, FailShape
    <2>3. CASE pc'[c] = "verify" /\ UNCHANGED <<at, answer>>
      BY <1>2, <2>0, <2>3 DEF Inv, Shape
    <2> QED
      BY <1>8, <2>1, <2>2, <2>3
  <1>10. Shape'
    BY <1>1, <1>2, <1>6, <1>7, <1>9 DEF Inv, Shape
  <1>11. ASSUME NEW d \in Calls, d # c PROVE CallInv(d)'
    BY <1>1, <1>4, <1>6, <1>7, <1>9, <1>11, CallFrame DEF Inv
  <1>12. CallInv(c)
    BY DEF Inv
  <1>13. /\ pc'[c] = "handler" <=> Behind(chain, at'[c], "verification")
         /\ pc'[c] # "handler" => Inside(chain, at'[c], "verification")
    BY <1>2, <1>9, BehindNext DEF Inside
  <1>14. ValuesInv(c)'
    BY <1>1, <1>7, <1>9, <1>12 DEF CallInv, ValuesInv, Declared
  <1>15. GateInStep(c)'
    BY <1>1, <1>4, <1>5, <1>13 DEF GateInStep, Declared
  <1>16. IdentityInv(c)'
    BY <1>1, <1>2, <1>7, <1>9, <1>12, BehindNext DEF CallInv, IdentityInv
  <1>17. IDInv(c)'
    BY <1>3, <1>6, <1>7, <1>12 DEF CallInv, IDInv
  <1> QED
    BY <1>10, <1>11, <1>14, <1>15, <1>16, <1>17 DEF CallInv

(* Decide: the request to the endpoint shows the ID of the call. *)
LEMMA DecideInv ==
    ASSUME Inv, NEW c \in Calls, Decide(c)
    PROVE  Shape' /\ \A d \in Calls : CallInv(d)'
  <1>1. /\ UNCHANGED <<chain, in, at, cx, kept, answer, ctx>> /\ Show(c, kept[c])
        /\ pc[c] = "verify" /\ pc' = [pc EXCEPT ![c] = "verdict"]
    BY DEF Decide, Gate!Decide, Gate!Goto
  <1>2. kept[c] \in IDs /\ Shape /\ CallInv(c)
    BY DEF Inv, Shape
  <1>3. /\ seen' \in [Calls -> SUBSET IDs] /\ seen'[c] = seen[c] \cup ({kept[c]} \ {NoID})
        /\ \A d \in Calls : d # c => seen'[d] = seen[d]
    BY <1>1, <1>2, ShowID
  <1>4. pc'[c] = "verdict" /\ \A d \in Calls : d # c => pc'[d] = pc[d]
    BY <1>1 DEF Inv, Proven!TypeOK
  <1>5. Shape'
    BY <1>1, <1>2, <1>3 DEF Shape
  <1>6. ASSUME NEW d \in Calls, d # c PROVE CallInv(d)'
    BY <1>1, <1>3, <1>4, <1>6, CallFrame DEF Inv
  <1>7. CallInv(c)'
    BY <1>1, <1>2, <1>3, <1>4 DEF CallInv, ValuesInv, GateInStep, IdentityInv, IDInv, Declared
  <1> QED
    BY <1>5, <1>6, <1>7

(* Return: a unary call that comes back from Verify is in verification. *)
LEMMA ReturnInv ==
    ASSUME Inv, Proven!TypeOK', NEW c \in Calls, Return(c)
    PROVE  Shape' /\ \A d \in Calls : CallInv(d)'
  <1>1. UNCHANGED <<chain, in, cx, kept, seen, ctx>> /\ pc[c] = "verdict"
    BY DEF Return, Gate!VerifyReturn
  <1>2. /\ pc'[c] \in (IF ctx[c].stream THEN {"recv", "handler"} ELSE {"handler", "failed"})
        /\ \A d \in Calls : d # c => pc'[d] = pc[d]
    BY DEF Return, Gate!VerifyReturn, Gate!Goto, Inv, Proven!TypeOK
  <1>3. Shape /\ CallInv(c) /\ ctx[c].stream \in BOOLEAN /\ at[c] <= Len(chain) + 1 /\ chain \in Chains
    BY DEF Inv, Shape, Proven!TypeOK, Proven!Contexts
  <1>4. at[c] # 0
    BY <1>1, <1>3 DEF CallInv, ValuesInv
  <1>5. CASE ctx[c].stream
    <2>1. UNCHANGED <<at, answer>>
      BY <1>5 DEF Return
    <2>2. Behind(chain, at[c], "verification")
      BY <1>1, <1>3, <1>5 DEF CallInv, GateInStep
    <2>3. Shape'
      BY <1>1, <1>3, <2>1 DEF Shape
    <2>4. ASSUME NEW d \in Calls, d # c PROVE CallInv(d)'
      BY <1>1, <1>2, <2>1, <2>4, CallFrame DEF Inv
    <2>5. CallInv(c)'
      BY <1>1, <1>2, <1>3, <1>4, <1>5, <2>1, <2>2
      DEF CallInv, ValuesInv, GateInStep, IdentityInv, IDInv, Declared
    <2> QED
      BY <2>3, <2>4, <2>5
  <1>6. CASE ~ ctx[c].stream
    <2>1. Inside(chain, at[c], "verification") /\ ~ Behind(chain, at[c], "verification")
      BY <1>1, <1>3, <1>6 DEF CallInv, GateInStep
    <2>2. at[c] \in DOMAIN chain /\ chain[at[c]] = "verification"
      BY <2>1 DEF Inside
    <2>3. \/ pc'[c] = "handler" /\ Proceed(c)
          \/ pc'[c] = "failed" /\ Fail(c, code'[c])
      BY <1>2, <1>6 DEF Return
    <2>4. /\ at' \in [Calls -> 0 .. 5] /\ at'[c] <= Len(chain) + 1 /\ at'[c] # 0
          /\ at'[c] = IF pc'[c] = "handler" THEN at[c] + 1 ELSE at[c]
          /\ answer' \in [Calls -> {"Unauthenticated", "PermissionDenied", "Internal", nil}]
          /\ \A d \in Calls : d # c => at'[d] = at[d]
      <3>0. at \in [Calls -> 0 .. 5]
        BY <1>3 DEF Shape
      <3>1. CASE pc'[c] = "handler" /\ Proceed(c)
        BY <1>3, <2>2, <3>0, <3>1, ProceedShape DEF Shape
      <3>2. CASE pc'[c] = "failed" /\ Fail(c, code'[c])
        <4>1. code'[c] \in {"Unauthenticated", "PermissionDenied", "Internal", nil}
          BY DEF Proven!TypeOK, Proven!VerifyCodes
        <4> QED
          BY <1>3, <1>4, <3>0, <3>2, <4>1, FailShape
      <3> QED
        BY <2>3, <3>1, <3>2
    <2>5. Shape'
      BY <1>1, <1>3, <1>4, <2>4 DEF Shape
    <2>6. ASSUME NEW d \in Calls, d # c PROVE CallInv(d)'
      BY <1>1, <1>2, <2>4, <2>6, CallFrame DEF Inv
    <2>7. /\ pc'[c] = "handler" <=> Behind(chain, at'[c], "verification")
          /\ pc'[c] # "handler" => Inside(chain, at'[c], "verification")
      BY <1>3, <2>1, <2>2, <2>4, BehindNext
    <2>8. ValuesInv(c)'
      BY <1>1, <1>3, <2>4 DEF CallInv, ValuesInv, Declared
    <2>9. GateInStep(c)'
      BY <1>1, <1>2, <1>3, <1>6, <2>7 DEF CallInv, GateInStep, Declared
    <2>10. IdentityInv(c)'
      BY <1>1, <1>3, <2>2, <2>4, BehindNext DEF CallInv, IdentityInv
    <2>11. IDInv(c)'
      BY <1>1, <1>3 DEF CallInv, IDInv
    <2> QED
      BY <2>5, <2>6, <2>8, <2>9, <2>10, <2>11 DEF CallInv
  <1> QED
    BY <1>3, <1>5, <1>6

(* ReturnError and HandlerReturns: nothing is left over. *)
LEMMA EndInv ==
    ASSUME Inv, NEW c \in Calls, End(c)
    PROVE  Shape' /\ \A d \in Calls : CallInv(d)'
  <1>1. /\ chain' = chain /\ in' = [in EXCEPT ![c] = nil] /\ at' = [at EXCEPT ![c] = 0]
        /\ cx' = [cx EXCEPT ![c] = NoValues] /\ kept' = [kept EXCEPT ![c] = NoID]
        /\ answer' = [answer EXCEPT ![c] = nil] /\ seen' = [seen EXCEPT ![c] = {}]
    BY DEF End
  <1>2. pc'[c] = "idle" /\ \A d \in Calls : d # c => pc'[d] = pc[d] /\ ctx'[d] = ctx[d]
    <2>1. CASE pc[c] = "idle"
      BY <2>1 DEF End, gateVars
    <2>2. CASE pc[c] # "idle"
      BY <2>2 DEF End, Gate!Finish, Gate!Goto, Inv, Proven!TypeOK
    <2> QED
      BY <2>1, <2>2
  <1>3. Shape /\ chain \in Chains /\ Len(chain) \in 0 .. 4
    BY ChainType DEF Inv, Shape
  <1>4. NoValues \in [id : IDs, identity : BOOLEAN, ran : BOOLEAN, policy : Policies \cup {nil}]
        /\ NoID \in IDs
    BY DEF NoValues, IDs
  <1>5. Shape'
    BY <1>1, <1>3, <1>4 DEF Shape
  <1>6. ASSUME NEW d \in Calls, d # c PROVE CallInv(d)'
    BY <1>1, <1>2, <1>3, <1>6, CallFrame DEF Inv, Shape
  <1>7. /\ at'[c] = 0 /\ cx'[c] = NoValues /\ kept'[c] = NoID /\ seen'[c] = {}
    BY <1>1, <1>3 DEF Shape
  <1>8. CallInv(c)'
    BY <1>1, <1>2, <1>3, <1>7, BehindNone
    DEF CallInv, ValuesInv, GateInStep, IdentityInv, IDInv, NoValues
  <1> QED
    BY <1>5, <1>6, <1>8

(* ReadID *)
LEMMA ReadIDInv ==
    ASSUME Inv, NEW c \in Calls, ReadID(c)
    PROVE  Shape' /\ \A d \in Calls : CallInv(d)'
  <1>1. UNCHANGED <<chain, in, at, cx, kept, answer, ctx, pc>> /\ Show(c, cx[c].id) /\ InHandler(c)
    BY DEF ReadID, gateVars
  <1>2. cx[c].id \in IDs /\ Shape /\ CallInv(c)
    BY DEF Inv, Shape
  <1>3. /\ seen' \in [Calls -> SUBSET IDs] /\ seen'[c] = seen[c] \cup ({cx[c].id} \ {NoID})
        /\ \A d \in Calls : d # c => seen'[d] = seen[d]
    BY <1>1, <1>2, ShowID
  <1>4. Shape'
    BY <1>1, <1>2, <1>3 DEF Shape
  <1>5. ASSUME NEW d \in Calls, d # c PROVE CallInv(d)'
    BY <1>1, <1>3, <1>5, CallFrame DEF Inv
  <1>6. at[c] # 0
    BY <1>1, ChainType DEF InHandler, Inv, Shape
  <1>7. CallInv(c)'
    BY <1>1, <1>2, <1>3, <1>6 DEF CallInv, ValuesInv, GateInStep, IdentityInv, IDInv, Declared
  <1> QED
    BY <1>4, <1>5, <1>7

(* Receive: a stream that receives has left verification behind. *)
LEMMA ReceiveInv ==
    ASSUME Inv, NEW c \in Calls, Receive(c)
    PROVE  Shape' /\ \A d \in Calls : CallInv(d)'
  <1>1. /\ UNCHANGED <<chain, in, at, cx, kept, answer, seen, ctx>> /\ InHandler(c)
        /\ pc[c] \in {"handler", "recv"}
    BY DEF Receive, chainVars, Gate!CallRecv, Gate!Deliver, Gate!RecvFails
  <1>2. /\ pc'[c] \in {"handler", "recv", "verify"} /\ (pc'[c] # "handler" => ctx[c].stream)
        /\ \A d \in Calls : d # c => pc'[d] = pc[d]
    BY DEF Receive, Gate!CallRecv, Gate!Deliver, Gate!RecvFails, Gate!Goto, Gate!AskAt, Inv, Proven!TypeOK
  <1>3. Shape /\ CallInv(c)
    BY DEF Inv
  <1>4. Shape'
    BY <1>1, <1>3 DEF Shape
  <1>5. ASSUME NEW d \in Calls, d # c PROVE CallInv(d)'
    BY <1>1, <1>2, <1>5, CallFrame DEF Inv
  <1>6. Behind(chain, at[c], "verification") /\ at[c] # 0
    BY <1>1, <1>3 DEF CallInv, GateInStep, ValuesInv
  <1>7. CallInv(c)'
    BY <1>1, <1>2, <1>3, <1>6 DEF CallInv, ValuesInv, GateInStep, IdentityInv, IDInv, Declared
  <1> QED
    BY <1>4, <1>5, <1>7

(* What goes on around the server does not concern the chain. *)
LEMMA SurroundingsInv ==
    ASSUME Inv, UNCHANGED chainVars, pc' = pc, ctx' = ctx
    PROVE  Shape' /\ \A d \in Calls : CallInv(d)'
  <1>1. UNCHANGED <<chain, in, at, cx, kept, answer, seen>>
    BY DEF chainVars
  <1>2. Shape'
    BY <1>1 DEF Inv, Shape
  <1>3. ASSUME NEW d \in Calls PROVE CallInv(d)'
    BY <1>1, CallFrame DEF Inv
  <1> QED
    BY <1>2, <1>3

(* Every step keeps the invariant. *)
LEMMA InvNext == Inv /\ [Next]_vars => Inv'
  <1> SUFFICES ASSUME Inv, [Next]_vars PROVE Inv'
    OBVIOUS
  <1>1. Proven!TypeOK' /\ Proven!GateInv'
    BY StepRefines, GateKeepsInv DEF Inv
  <1>2. CASE UNCHANGED vars
    BY <1>1, <1>2, SurroundingsInv DEF vars, gateVars, Inv
  <1>3. CASE Surroundings
    <2>1. UNCHANGED chainVars /\ pc' = pc /\ ctx' = ctx
      BY <1>3 DEF Surroundings, Gate!Grant, Gate!Revoke, Gate!ClientSend, Gate!callVars
    <2> QED
      BY <1>1, <2>1, SurroundingsInv DEF Inv
  <1>4. ASSUME NEW c \in Calls, Intercept(c) PROVE Shape' /\ \A d \in Calls : CallInv(d)'
    BY <1>1, <1>4, TrackInv, IntrospectInv, LookUpInv, VerificationInv, DecideInv, ReturnInv, EndInv
    DEF Intercept, ReturnError
  <1>5. ASSUME NEW c \in Calls, ReadID(c) \/ Receive(c) \/ HandlerReturns(c)
        PROVE  Shape' /\ \A d \in Calls : CallInv(d)'
    BY <1>5, ReadIDInv, ReceiveInv, EndInv DEF HandlerReturns
  <1> QED
    BY <1>1, <1>2, <1>3, <1>4, <1>5, ArriveInv DEF Next, Inv

(* A server that has just started satisfies it. *)
LEMMA InvInit == Init => Inv
  <1> SUFFICES ASSUME Init PROVE Inv
    OBVIOUS
  <1>1. Proven!TypeOK /\ Proven!GateInv
    BY SameInit, GateAssumptions, Proven!TypeInit, Proven!InvInit DEF Init
  <1>2. chain \in Chains /\ Len(chain) \in 0 .. 4
    BY ChainType DEF Init
  <1>3. NoValues \in [id : IDs, identity : BOOLEAN, ran : BOOLEAN, policy : Policies \cup {nil}]
        /\ NoID \in IDs
    BY DEF NoValues, IDs
  <1>4. Shape
    BY <1>2, <1>3 DEF Init, Shape
  <1>5. ASSUME NEW c \in Calls PROVE CallInv(c)
    BY <1>2, BehindNone
    DEF Init, Gate!Init, CallInv, ValuesInv, GateInStep, IdentityInv, IDInv, NoValues
  <1> QED
    BY <1>1, <1>4, <1>5 DEF Inv

-----------------------------------------------------------------------------
(* What follows for every chain and every behaviour *)

(* The invariant holds in every state that the server reaches. *)
THEOREM Invariance == Spec => []Inv
  BY InvInit, InvNext, PTL DEF Spec

(* The state is always well formed, and the gate is in step with the chain. *)
THEOREM TypeCorrect == Spec => []TypeOK
  <1>1. Inv => TypeOK
    <2> SUFFICES ASSUME Inv PROVE TypeOK
      OBVIOUS
    <2>1. ASSUME NEW c \in Calls, pc[c] # "idle"
          PROVE  \E i \in 1 .. at[c] : i \in DOMAIN chain /\ chain[i] = "verification"
      <3>1. DOMAIN chain = 1 .. Len(chain) /\ Len(chain) \in 0 .. 4 /\ at[c] \in 0 .. 5
        BY ChainType DEF Inv, Shape
      <3>2. Behind(chain, at[c], "verification") \/ Inside(chain, at[c], "verification")
        BY <2>1 DEF Inv, CallInv, GateInStep
      <3> QED
        BY <3>1, <3>2 DEF Behind, Inside
    <2>2. Shape
      BY DEF Inv
    <2> QED
      BY <2>1, <2>2 DEF Shape, TypeOK
  <1> QED
    BY <1>1, Invariance, PTL

(* Verification in a chain, whatever comes before and after it, behaves as *)
(* the gate of PolicyVerification: what holds of the gate holds there.     *)
THEOREM ChainImplementsGate == Spec => ImplementsGate
  <1>1. Init => Gate!Init
    BY DEF Init
  <1> QED
    BY <1>1, StepRefines, Invariance, PTL DEF Spec, ImplementsGate, Gate!Spec

(* A call that is served where verification is in the chain has come       *)
(* through the gate.                                                       *)
LEMMA ServedThroughGate ==
    ASSUME Inv, NEW c \in Calls, Served(c), Has("verification")
    PROVE  /\ ctx[c].policy = Declared(c)
           /\ Declared(c) # nil => held[c] /\ in[c].header.token
  <1>1. Behind(chain, at[c], "verification")
    BY BehindEnd DEF Inv, Shape, Served, InHandler, Has
  <1>2. /\ pc[c] \in {"handler", "verify", "verdict", "recv"}
        /\ pc[c] # "handler" => ctx[c].stream
        /\ ctx[c].stream = in[c].stream /\ ctx[c].token = in[c].header.token
        /\ ctx[c].ran => ctx[c].policy = Declared(c)
    BY <1>1 DEF Inv, CallInv, GateInStep
  <1>3. IF ctx[c].stream THEN pc[c] = "recv" ELSE pc[c] = "handler"
    BY <1>2 DEF Served
  <1>4. ctx[c].ran /\ (ctx[c].policy # nil => held[c] /\ ctx[c].token)
    BY <1>2, <1>3 DEF Inv, Proven!GateInv, Proven!Policy
  <1> QED
    BY <1>2, <1>4

(* No order of the interceptors opens the gate. *)
THEOREM NoOrderOpensTheGate == Spec => []ServedIsAuthorized
  <1>1. Inv => ServedIsAuthorized
    <2> SUFFICES ASSUME Inv, NEW c \in Calls, Served(c), Has("verification"), Declared(c) # nil
                 PROVE  /\ Declared(c) # Refused
                        /\ ctx[c].policy = Declared(c)
                        /\ held[c] /\ in[c].header.token
      BY DEF ServedIsAuthorized
    <2>1. ctx[c].policy \in Policies \cup {nil}
      BY DEF Inv, Proven!TypeOK, Proven!Contexts
    <2> QED
      BY <2>1, ServedThroughGate, RefusedIsNoPolicy
  <1> QED
    BY <1>1, Invariance, PTL

(* A call that is served under a policy carries an identity wherever       *)
(* introspection is in the chain: verification does not let the anonymous  *)
(* pass, and introspection nobody else without an identity.                *)
THEOREM ServedAreIdentified == Spec => []ServedHasIdentity
  <1>1. Inv => ServedHasIdentity
    <2> SUFFICES ASSUME Inv, NEW c \in Calls, Served(c), Has("introspection"),
                        Has("verification"), Declared(c) # nil
                 PROVE  cx[c].identity
      BY DEF ServedHasIdentity
    <2>1. Behind(chain, at[c], "introspection")
      BY BehindEnd DEF Inv, Shape, Served, InHandler, Has
    <2>2. cx[c].identity \/ in[c].header.reading = "absent"
      BY <2>1 DEF Inv, CallInv, IdentityInv
    <2>3. in[c] \in Incoming
      BY ChainType DEF Inv, Shape, Served, InHandler
    <2>4. in[c].header.reading # "absent"
      BY <2>3, ServedThroughGate DEF Incoming, Headers
    <2> QED
      BY <2>2, <2>4
  <1> QED
    BY <1>1, Invariance, PTL

(* A call never shows two request IDs. *)
THEOREM OneIDPerCall == Spec => []OneRequestID
  <1>1. Inv => OneRequestID
    <2> SUFFICES ASSUME Inv, NEW c \in Calls
                 PROVE  /\ Cardinality(seen[c]) <= 1
                        /\ InHandler(c) /\ (Has("tracking") \/ Has("verification")) =>
                                seen[c] = {cx[c].id}
      BY DEF OneRequestID
    <2>1. IDInv(c) /\ GateInStep(c)
      BY DEF Inv, CallInv
    <2>2. seen[c] = {} \/ seen[c] = {cx[c].id}
      BY <2>1 DEF IDInv
    <2>3. Cardinality(seen[c]) <= 1
      <3>1. Cardinality({}) = 0
        BY FS_EmptySet, Zenon
      <3>2. Cardinality({cx[c].id}) = 1
        BY FS_Singleton, Zenon
      <3>3. Cardinality(seen[c]) = 0 \/ Cardinality(seen[c]) = 1
        BY <2>2, <3>1, <3>2, Zenon
      <3> QED
        BY <3>3
    <2>4. ASSUME InHandler(c), Has("tracking") \/ Has("verification")
          PROVE  seen[c] = {cx[c].id}
      <3>1. Behind(chain, at[c], "tracking") \/ Behind(chain, at[c], "verification")
        BY <2>4, BehindEnd DEF Inv, Shape, InHandler, Has
      <3> QED
        BY <2>1, <3>1 DEF IDInv, GateInStep
    <2> QED
      BY <2>3, <2>4
  <1> QED
    BY <1>1, Invariance, PTL
=============================================================================
