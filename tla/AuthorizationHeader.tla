------------------------- MODULE AuthorizationHeader -------------------------
(***************************************************************************)
(* The two readings of the authorization header: parseAuthorization of     *)
(* src/token_introspection/interceptor.go decides which credential is      *)
(* introspected, getToken of                                               *)
(* src/policy_verification/endpoint/rest_policy_verifier.go which token is *)
(* verified.  Texts are sequences of characters.                           *)
(***************************************************************************)
EXTENDS Texts

Invalid == [scheme |-> <<>>, credential |-> <<>>]

(* parseAuthorization splits at the first space; a scheme or a credential  *)
(* that is empty makes the header malformed.                               *)
parseAuthorization(value) ==
    LET at == SelectInSeq(value, LAMBDA ch : ch = " ")
        credential == TrimSpace(SubSeq(value, at + 1, Len(value)))
    IN  IF at = 0 \/ credential = <<>> THEN Invalid
        ELSE [scheme |-> ToLower(SubSeq(value, 1, at - 1)), credential |-> credential]

(* Slips: no separator, one key per credential, one key per scheme. *)
cacheKeyGlued(scheme, credential) == scheme \o credential
cacheKeyNoScheme(scheme, credential) == <<":">> \o credential
cacheKeyNoCredential(scheme, credential) == scheme \o <<":">>

(* cacheKey: the text that is hashed.  SHA-256 is taken not to collide, so *)
(* that the text stands for its hash.                                      *)
cacheKey(scheme, credential) == scheme \o <<":">> \o credential

(* Slip: the last word is the token. *)
getTokenLast(value) ==
    LET parts == Fields(value)
    IN  IF Len(parts) < 2 THEN [ok |-> FALSE]
        ELSE [ok |-> TRUE, TokenType |-> parts[1], Value |-> Last(parts)]

(* getToken splits at every run of white space and takes the first two     *)
(* words.                                                                  *)
getToken(value) ==
    LET parts == Fields(value)
    IN  IF Len(parts) < 2 THEN [ok |-> FALSE]
        ELSE [ok |-> TRUE, TokenType |-> parts[1], Value |-> parts[2]]

(* A scheme as introspectors have it (Scheme() of the RFC 7662 backend is  *)
(* "bearer"): no white space, no colon.  WithIntrospector does not check.  *)
IsToken(scheme) == scheme # <<>> /\ ToSet(scheme) \cap (WhiteSpace \cup {":"}) = {}
=============================================================================
