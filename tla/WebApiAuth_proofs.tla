--------------------------- MODULE WebApiAuth_proofs ---------------------------
(* Proofs about WebApiAuth, for any numbers of requests and nonces, any         *)
(* lifetimes of nonces and tokens and every configuration.                      *)
EXTENDS WebApiAuth, TLAPS

-----------------------------------------------------------------------------
(* What NonceIsSpent rests on.                                                *)

(* A request says nothing before it came in, and has no answer before it ends. *)
RequestsBegin ==
    \A r \in Requests :
        /\ request[r].at = "none" => request[r].uid = NoUid
        /\ request[r].at # "done" => request[r].outcome = "none"
        /\ request[r].at = "read" => request[r].uid \in Uids /\ request[r].read <= clock

(* A token's nonce is known from the request that got it, so that its uid is   *)
(* not given out again, and was returned at a time that has passed.            *)
TokensKnown ==
    \A t \in tokens : t.iat <= clock /\ \E r \in Requests : request[r].uid = t.uid

(* A request that has read a nonce did so before any token of it was returned. *)
ReadersAreEarly ==
    \A r \in Requests, t \in tokens :
        request[r].at = "read" /\ request[r].uid = t.uid => request[r].read <= t.iat

AuthInv == AuthTypeOK /\ RequestsBegin /\ TokensKnown /\ ReadersAreEarly /\ NonceIsSpent /\ ServedWithToken

LEMMA AuthInvInit == AuthInit => AuthInv
  BY AuthAssumption DEF AuthInit, AuthInv, AuthTypeOK, RequestsBegin, TokensKnown, ReadersAreEarly,
     NonceIsSpent, ServedWithToken, NoRequest

-----------------------------------------------------------------------------
(* A request that ends without a token.                                        *)
LEMMA DonePreserves ==
    ASSUME AuthInv, NEW r \in Requests, request[r].at \in {"none", "read"},
           NEW outcome \in {"error", "unauthorized", "panic"}, Done(r, outcome),
           clock' = clock, authentication' = authentication, tokens' = tokens,
           DOMAIN nonces' \subseteq DOMAIN nonces,
           \A u \in DOMAIN nonces' : nonces'[u] = nonces[u]
    PROVE  AuthInv'
<1> USE DEF AuthInv
<1>1. /\ \A q \in Requests : request'[q].uid = request[q].uid /\ request'[q].read = request[q].read
      /\ \A q \in Requests : q # r => request'[q] = request[q]
      /\ request'[r].at = "done" /\ request'[r].outcome = outcome
  BY DEF Done, AuthTypeOK
<1>2. AuthTypeOK'
  BY DEF Done, AuthTypeOK
<1>3. RequestsBegin'
  BY <1>1 DEF RequestsBegin
<1>4. TokensKnown'
  BY <1>1 DEF TokensKnown
<1>5. ReadersAreEarly'
  BY <1>1 DEF ReadersAreEarly
<1>6. NonceIsSpent'
  BY DEF NonceIsSpent
<1>7. ServedWithToken'
  BY <1>1 DEF ServedWithToken, Expiry
<1> QED
  BY <1>2, <1>3, <1>4, <1>5, <1>6, <1>7

(* A new nonce has a uid that no token has.                                    *)
LEMMA CreatePreserves ==
    ASSUME AuthInv, NEW r \in Requests, NEW uid \in Uids, CreateNonce(r, uid)
    PROVE  AuthInv'
<1> USE DEF AuthInv
<1>1. /\ clock' = clock /\ authentication' = authentication /\ tokens' = tokens
      /\ \A q \in Requests : q # r => request'[q] = request[q]
      /\ request'[r] = [at |-> "done", uid |-> uid, read |-> 0, outcome |-> "nonce"]
      /\ request[r].uid = NoUid
  BY DEF CreateNonce, AuthTypeOK, NoRequest, RequestsBegin
<1>2. \A t \in tokens : t.uid # uid /\ t.uid # NoUid
  BY AuthAssumption DEF CreateNonce, TokensKnown, AuthTypeOK
<1>3. AuthTypeOK'
  <2>1. DOMAIN nonces' = DOMAIN nonces \cup {uid}
    BY DEF CreateNonce
  <2>2. \A u \in DOMAIN nonces' : nonces'[u] \in 0 .. MaxTime + NONCE_EXPIRY
    BY AuthAssumption DEF CreateNonce, AuthTypeOK
  <2> QED
    BY <1>1, <2>1, <2>2, AuthAssumption DEF AuthTypeOK, CreateNonce, NoRequest
<1>4. RequestsBegin'
  BY <1>1 DEF RequestsBegin
<1>5. TokensKnown'
  BY <1>1, <1>2 DEF TokensKnown
<1>6. ReadersAreEarly'
  BY <1>1 DEF ReadersAreEarly
<1>7. NonceIsSpent'
  BY <1>1, <1>2 DEF NonceIsSpent, CreateNonce
<1>8. ServedWithToken'
  BY <1>1 DEF ServedWithToken, Expiry
<1> QED
  BY <1>3, <1>4, <1>5, <1>6, <1>7, <1>8

(* Whoever reads a nonce finds it there: no token of it was returned yet.      *)
LEMMA ReadPreserves ==
    ASSUME AuthInv, NEW r \in Requests, NEW uid \in Uids, ReadNonce(r, uid)
    PROVE  AuthInv'
<1> USE DEF AuthInv
<1>1. CASE Done(r, "error") \/ Done(r, "unauthorized")
  BY <1>1, DonePreserves DEF ReadNonce
<1>2. CASE /\ uid \in DOMAIN nonces
           /\ request' = [request EXCEPT ![r] = [at |-> "read", uid |-> uid, read |-> clock, outcome |-> "none"]]
  <2>1. /\ clock' = clock /\ authentication' = authentication /\ tokens' = tokens /\ nonces' = nonces
        /\ \A q \in Requests : q # r => request'[q] = request[q]
        /\ request'[r] = [at |-> "read", uid |-> uid, read |-> clock, outcome |-> "none"]
        /\ request[r].uid = NoUid
    BY <1>2 DEF ReadNonce, AuthTypeOK, RequestsBegin
  <2>2. \A t \in tokens : t.uid # uid /\ t.uid # NoUid
    BY <1>2, AuthAssumption DEF NonceIsSpent, AuthTypeOK
  <2>3. AuthTypeOK'
    BY <1>2, <2>1 DEF AuthTypeOK
  <2>4. RequestsBegin'
    BY <2>1 DEF RequestsBegin, AuthTypeOK
  <2>5. TokensKnown'
    BY <2>1, <2>2 DEF TokensKnown
  <2>6. ReadersAreEarly'
    BY <2>1, <2>2 DEF ReadersAreEarly
  <2>7. NonceIsSpent'
    BY <2>1 DEF NonceIsSpent
  <2>8. ServedWithToken'
    BY <2>1 DEF ServedWithToken, Expiry
  <2> QED
    BY <2>3, <2>4, <2>5, <2>6, <2>7, <2>8
<1> QED
  BY <1>1, <1>2 DEF ReadNonce

(* The token is returned after its nonce is gone.                              *)
LEMMA ReturnPreserves ==
    ASSUME AuthInv, NEW r \in Requests, ReturnToken(r)
    PROVE  AuthInv'
<1> USE DEF AuthInv
<1> DEFINE new == [uid |-> request[r].uid, read |-> request[r].read, iat |-> clock]
<1>1. /\ clock' = clock /\ authentication' = authentication /\ tokens' = tokens \cup {new}
      /\ request[r].at = "read" /\ request[r].uid \in Uids /\ request[r].read <= clock
      /\ request[r].outcome = "none"
      /\ DOMAIN nonces' = DOMAIN nonces \ {request[r].uid}
      /\ \A u \in DOMAIN nonces' : nonces'[u] = nonces[u]
  BY DEF ReturnToken, RequestsBegin
<1>2. /\ \A q \in Requests : request'[q].uid = request[q].uid /\ request'[q].read = request[q].read
      /\ \A q \in Requests : q # r => request'[q] = request[q]
      /\ request'[r].at = "done" /\ request'[r].outcome = "token"
  BY DEF ReturnToken, Done, AuthTypeOK
<1>3. /\ new.uid = request[r].uid /\ new.read = request[r].read /\ new.iat = clock
      /\ clock \in Int /\ new.read \in Int
      /\ \A t \in tokens : t.read \in Int /\ t.iat \in Int
  BY DEF AuthTypeOK
<1> HIDE DEF new
<1>4. AuthTypeOK'
  <2>1. new \in [uid : Uids, read : 0 .. MaxTime, iat : 0 .. MaxTime]
    BY <1>1, AuthAssumption DEF new, AuthTypeOK
  <2>2. request' \in [Requests -> [at : {"none", "read", "done"}, uid : Uids \cup {NoUid}, read : 0 .. MaxTime,
                         outcome : {"none", "nonce", "error", "unauthorized", "panic", "token", "served"}]]
    BY DEF AuthTypeOK, ReturnToken, Done
  <2> QED
    BY <1>1, <2>1, <2>2 DEF AuthTypeOK
<1>5. RequestsBegin'
  BY <1>1, <1>2 DEF RequestsBegin
<1>6. TokensKnown'
  BY <1>1, <1>2, <1>3 DEF TokensKnown
<1>7. ReadersAreEarly'
  BY <1>1, <1>2, <1>3 DEF ReadersAreEarly, RequestsBegin
<1>8. NonceIsSpent'
  <2>1. ASSUME NEW t \in tokens' PROVE t.uid \notin DOMAIN nonces'
    BY <1>1, <1>3 DEF NonceIsSpent
  <2>2. ASSUME NEW t \in tokens', NEW s \in tokens', s.uid = t.uid PROVE s.read <= t.iat
    <3>1. CASE t \in tokens /\ s \in tokens
      BY <2>2, <3>1 DEF NonceIsSpent
    <3>2. CASE t = new /\ s \in tokens
      BY <3>2, <1>3 DEF NonceIsSpent, TokensKnown
    <3>3. CASE t \in tokens /\ s = new
      BY <2>2, <3>3, <1>1, <1>3 DEF ReadersAreEarly
    <3>4. CASE t = new /\ s = new
      BY <3>4, <1>1, <1>3
    <3> QED
      BY <1>1, <3>1, <3>2, <3>3, <3>4
  <2> QED
    BY <2>1, <2>2 DEF NonceIsSpent
<1>9. ServedWithToken'
  BY <1>1, <1>2 DEF ServedWithToken, Expiry
<1> QED
  BY <1>4, <1>5, <1>6, <1>7, <1>8, <1>9

(* The middleware lets a request with a token through only before its expiry.  *)
LEMMA CallPreserves ==
    ASSUME AuthInv, NEW r \in Requests, NEW token \in tokens \cup {NoToken}, CallIndexRoute(r, token)
    PROVE  AuthInv'
<1> USE DEF AuthInv
<1>1. CASE Done(r, "panic") \/ Done(r, "unauthorized")
  BY <1>1, DonePreserves DEF CallIndexRoute
<1>2. CASE /\ ~IsUnauthenticated(ClaimsOf(token))
           /\ request' = [request EXCEPT ![r] = [at |-> "done", uid |-> token.uid, read |-> clock, outcome |-> "served"]]
  <2>1. /\ clock' = clock /\ authentication' = authentication /\ tokens' = tokens /\ nonces' = nonces
        /\ \A q \in Requests : q # r => request'[q] = request[q]
        /\ request'[r] = [at |-> "done", uid |-> token.uid, read |-> clock, outcome |-> "served"]
        /\ request[r].uid = NoUid
    BY <1>2 DEF CallIndexRoute, AuthTypeOK, RequestsBegin
  <2>2. authentication.enabled => token \in tokens /\ clock <= Expiry(token) + Leeway
    BY <1>2 DEF IsUnauthenticated, ClaimsOf, Unauthenticated
  <2>3. \A t \in tokens : t.uid # NoUid
    BY AuthAssumption DEF AuthTypeOK
  <2>4. AuthTypeOK'
    <3>1. token.uid \in Uids \cup {NoUid}
      BY DEF AuthTypeOK, NoToken
    <3> QED
      BY <1>2, <2>1, <3>1 DEF AuthTypeOK
  <2>5. RequestsBegin'
    BY <2>1 DEF RequestsBegin
  <2>6. TokensKnown'
    BY <2>1, <2>3 DEF TokensKnown
  <2>7. ReadersAreEarly'
    BY <2>1 DEF ReadersAreEarly
  <2>8. NonceIsSpent'
    BY <2>1 DEF NonceIsSpent
  <2>9. ServedWithToken'
    BY <2>1, <2>2 DEF ServedWithToken, Expiry
  <2> QED
    BY <2>4, <2>5, <2>6, <2>7, <2>8, <2>9
<1> QED
  BY <1>1, <1>2 DEF CallIndexRoute

LEMMA TickPreserves ==
    ASSUME AuthInv, Tick PROVE AuthInv'
<1> USE DEF AuthInv, Tick
<1>1. clock \in Int /\ clock' = clock + 1
  BY DEF AuthTypeOK
<1>2. AuthTypeOK'
  BY AuthAssumption DEF AuthTypeOK
<1>3. RequestsBegin'
  BY DEF RequestsBegin, AuthTypeOK
<1>4. TokensKnown'
  BY DEF TokensKnown, AuthTypeOK
<1>5. ReadersAreEarly' /\ NonceIsSpent'
  BY DEF ReadersAreEarly, NonceIsSpent
<1>6. ServedWithToken'
  BY DEF ServedWithToken, Expiry
<1> QED
  BY <1>2, <1>3, <1>4, <1>5, <1>6

LEMMA AuthStep == AuthInv /\ [AuthNext]_authVars => AuthInv'
<1> SUFFICES ASSUME AuthInv, [AuthNext]_authVars PROVE AuthInv'
  OBVIOUS
<1>1. CASE Tick
  BY <1>1, TickPreserves
<1>2. ASSUME NEW r \in Requests, NEW uid \in Uids, CreateNonce(r, uid) \/ ReadNonce(r, uid) PROVE AuthInv'
  BY <1>2, CreatePreserves, ReadPreserves
<1>3. ASSUME NEW r \in Requests, VerifyPanics(r) PROVE AuthInv'
  BY <1>3, DonePreserves DEF VerifyPanics
<1>4. ASSUME NEW r \in Requests, RejectSignature(r) PROVE AuthInv'
  BY <1>4, DonePreserves DEF RejectSignature
<1>5. ASSUME NEW r \in Requests, ReturnToken(r) PROVE AuthInv'
  BY <1>5, ReturnPreserves
<1>6. ASSUME NEW r \in Requests, DeleteNonceFails(r) PROVE AuthInv'
  <2>1. DOMAIN nonces' \subseteq DOMAIN nonces /\ \A u \in DOMAIN nonces' : nonces'[u] = nonces[u]
    BY <1>6 DEF DeleteNonceFails
  <2> QED
    BY <1>6, <2>1, DonePreserves DEF DeleteNonceFails
<1>7. ASSUME NEW r \in Requests, NEW token \in tokens \cup {NoToken}, CallIndexRoute(r, token) PROVE AuthInv'
  BY <1>7, CallPreserves
<1>8. CASE UNCHANGED authVars
  BY <1>8 DEF authVars, AuthInv, AuthTypeOK, RequestsBegin, TokensKnown, ReadersAreEarly, NonceIsSpent,
     ServedWithToken, Expiry
<1> QED
  BY <1>1, <1>2, <1>3, <1>4, <1>5, <1>6, <1>7, <1>8 DEF AuthNext

LEMMA AuthInvariance == AuthSpec => []AuthInv
  BY AuthInvInit, AuthStep, PTL DEF AuthSpec

-----------------------------------------------------------------------------
(* The state of the web API's authentication has its type: nonces expire at     *)
(* most NONCE_EXPIRY after now, and tokens have uids of nonces.                 *)
THEOREM AuthTypeCorrect == AuthSpec => []AuthTypeOK
  BY AuthInvariance, PTL DEF AuthInv

(* verify_signature: a nonce that gave a token gives none to a later request,   *)
(* however requests with the same nonce overlap.                                *)
THEOREM NoncesAreSpent == AuthSpec => []NonceIsSpent
  BY AuthInvariance, PTL DEF AuthInv

(* AuthenticationService::call: with authentication on, a handler of /index      *)
(* runs for a client that has a token, and not after its expiry and leeway.      *)
THEOREM TokensServe == AuthSpec => []ServedWithToken
  BY AuthInvariance, PTL DEF AuthInv
=============================================================================
