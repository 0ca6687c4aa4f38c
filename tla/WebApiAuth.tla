----------------------------- MODULE WebApiAuth ------------------------------
(***************************************************************************)
(* Authentication in the web API: the nonces and tokens of                  *)
(* /auth/nonce and /auth/signature (fuel-indexer-api-server/src/uses.rs),   *)
(* the middleware in front of the /index routes (middleware/auth.rs) and    *)
(* the check that each of their handlers makes of its claims. Requests run  *)
(* concurrently; each of their queries is a step.                           *)
(***************************************************************************)
EXTENDS Integers, FiniteSets

CONSTANTS
    Requests,     \* requests of clients
    Uids,         \* nonce uids (bound on the nonces created)
    NoUid,
    NONCE_EXPIRY, \* lifetime of a nonce
    JwtExpiry,    \* authentication.jwt_expiry
    Leeway,       \* jsonwebtoken's Validation::default().leeway
    MaxTime,      \* bound on the clock
    AuthConfigs   \* config.authentication: [enabled, strategy]

ASSUME AuthAssumption ==
    /\ NoUid \notin Uids
    /\ {NONCE_EXPIRY, JwtExpiry, Leeway, MaxTime} \subseteq Nat /\ MaxTime >= 2
    /\ \A c \in AuthConfigs : c.enabled \in BOOLEAN /\ c.strategy \in {"JWT", "none"}

VARIABLES
    authentication, \* config.authentication
    clock,          \* seconds since the start
    nonces,         \* table nonce: uid -> expiry, for the uids in it
    request,        \* request -> [at, uid, read, outcome]: where its handler is
    tokens          \* tokens returned: [uid, read, iat], read when its nonce was

authVars == <<authentication, clock, nonces, request, tokens>>

\* A request that has not come in yet. `read` is when it read its nonce.
NoRequest == [at |-> "none", uid |-> NoUid, read |-> 0, outcome |-> "none"]

AuthInit ==
    /\ authentication \in AuthConfigs
    /\ clock = 2    \* later than the second that stands for unauthenticated
    /\ nonces = [u \in {} |-> 0]
    /\ request = [r \in Requests |-> NoRequest]
    /\ tokens = {}

Tick ==
    /\ clock < MaxTime
    /\ clock' = clock + 1
    /\ UNCHANGED <<authentication, nonces, request, tokens>>

Done(r, outcome) == request' = [request EXCEPT ![r].at = "done", ![r].outcome = outcome]

\* get_nonce, for anyone; uids are random and not used again.
CreateNonce(r, uid) ==
    /\ request[r].at = "none"
    /\ uid \notin DOMAIN nonces /\ \A q \in Requests : request[q].uid # uid
    /\ nonces' = [u \in DOMAIN nonces \cup {uid} |-> IF u = uid THEN clock + NONCE_EXPIRY ELSE nonces[u]]
    /\ request' = [request EXCEPT ![r] = [NoRequest EXCEPT !.at = "done", !.uid = uid, !.outcome = "nonce"]]
    /\ UNCHANGED <<authentication, clock, tokens>>

\* Nonce::is_expired.
IsExpired(uid) == clock >= nonces[uid]

(***************************************************************************)
(* verify_signature.                                                        *)
(***************************************************************************)
\* queries::get_nonce fails on an unknown uid; an expired nonce is not deleted.
ReadNonce(r, uid) ==
    /\ authentication.enabled /\ authentication.strategy = "JWT"
    /\ request[r].at = "none"
    /\ IF uid \notin DOMAIN nonces
       THEN Done(r, "error")
       ELSE IF IsExpired(uid) THEN Done(r, "unauthorized")
       ELSE request' = [request EXCEPT ![r] = [at |-> "read", uid |-> uid, read |-> clock, outcome |-> "none"]]
    /\ UNCHANGED <<authentication, clock, nonces, tokens>>

\* unreachable!() without authentication, unimplemented!() without a strategy.
VerifyPanics(r) ==
    /\ ~(authentication.enabled /\ authentication.strategy = "JWT")
    /\ request[r].at = "none"
    /\ Done(r, "panic")
    /\ UNCHANGED <<authentication, clock, nonces, tokens>>

\* A signature that is not hex, or no key can be recovered from. The nonce stays.
RejectSignature(r) ==
    /\ request[r].at = "read"
    /\ Done(r, "error")
    /\ UNCHANGED <<authentication, clock, nonces, tokens>>

\* Mutant: the nonce is not deleted.
ReturnTokenKeepNonce(r) ==
    /\ request[r].at = "read"
    /\ tokens' = tokens \cup {[uid |-> request[r].uid, read |-> request[r].read, iat |-> clock]}
    /\ Done(r, "token")
    /\ UNCHANGED <<authentication, clock, nonces>>

\* The token is encoded, and returned when its nonce was deleted; deleting a
\* nonce that another request deleted is no error.
ReturnToken(r) ==
    /\ request[r].at = "read"
    /\ nonces' = [u \in DOMAIN nonces \ {request[r].uid} |-> nonces[u]]
    /\ tokens' = tokens \cup {[uid |-> request[r].uid, read |-> request[r].read, iat |-> clock]}
    /\ Done(r, "token")
    /\ UNCHANGED <<authentication, clock>>

\* The connection is lost: the token is dropped with the error.
DeleteNonceFails(r) ==
    /\ request[r].at = "read"
    /\ \/ nonces' = [u \in DOMAIN nonces \ {request[r].uid} |-> nonces[u]]
       \/ UNCHANGED nonces
    /\ Done(r, "error")
    /\ UNCHANGED <<authentication, clock, tokens>>

(***************************************************************************)
(* AuthenticationService::call and a handler of the /index routes.          *)
(***************************************************************************)
NoToken == [uid |-> NoUid, read |-> 0, iat |-> 0]

Expiry(token) == token.iat + JwtExpiry

\* The claims a request gets; a token is what the client sends, NoToken for
\* whatever does not decode.
Unauthenticated == [iat |-> 1, exp |-> 1]
DefaultClaims == [iat |-> 0, exp |-> 0]

\* Mutant: a token that does not decode leaves the claims as they are by default.
ClaimsByDefault(token) ==
    IF authentication.enabled /\ token # NoToken /\ clock <= Expiry(token) + Leeway
    THEN [iat |-> token.iat, exp |-> Expiry(token)]
    ELSE DefaultClaims

ClaimsOf(token) ==
    IF ~authentication.enabled THEN DefaultClaims
    ELSE IF token # NoToken /\ clock <= Expiry(token) + Leeway
         THEN [iat |-> token.iat, exp |-> Expiry(token)]
         ELSE Unauthenticated

IsUnauthenticated(claims) == claims.exp = 1 /\ claims.iat = 1

CallIndexRoute(r, token) ==
    /\ request[r].at = "none"
    /\ IF authentication.enabled /\ authentication.strategy # "JWT" THEN Done(r, "panic")
       ELSE IF IsUnauthenticated(ClaimsOf(token)) THEN Done(r, "unauthorized")
       ELSE request' = [request EXCEPT ![r] = [at |-> "done", uid |-> token.uid, read |-> clock,
                                               outcome |-> "served"]]
    /\ UNCHANGED <<authentication, clock, nonces, tokens>>

AuthNext ==
    \/ Tick
    \/ \E r \in Requests :
          \/ \E uid \in Uids : CreateNonce(r, uid) \/ ReadNonce(r, uid)
          \/ VerifyPanics(r) \/ RejectSignature(r) \/ ReturnToken(r) \/ DeleteNonceFails(r)
          \/ \E token \in tokens \cup {NoToken} : CallIndexRoute(r, token)

AuthSpec == AuthInit /\ [][AuthNext]_authVars

(***************************************************************************)
(* Properties.                                                              *)
(***************************************************************************)
\* The state of the web API's authentication has its type.
AuthTypeOK ==
    /\ authentication \in AuthConfigs
    /\ clock \in 2 .. MaxTime
    /\ DOMAIN nonces \subseteq Uids
    /\ \A u \in DOMAIN nonces : nonces[u] \in 0 .. MaxTime + NONCE_EXPIRY
    /\ request \in [Requests -> [at : {"none", "read", "done"}, uid : Uids \cup {NoUid},
                                 read : 0 .. MaxTime,
                                 outcome : {"none", "nonce", "error", "unauthorized", "panic", "token", "served"}]]
    /\ tokens \subseteq [uid : Uids, read : 0 .. MaxTime, iat : 0 .. MaxTime]

\* A nonce that gave a token gives none to a request that comes later: it is
\* gone, and whoever else gets a token from it had read it before that token was
\* returned.
NonceIsSpent ==
    \A t \in tokens :
        /\ t.uid \notin DOMAIN nonces
        /\ \A s \in tokens : s.uid = t.uid => s.read <= t.iat

\* With authentication on, a handler of /index runs only for a client that has a
\* token, and not after the token's expiry and leeway.
ServedWithToken ==
    authentication.enabled =>
        \A r \in Requests : request[r].outcome = "served" =>
            \E t \in tokens : t.uid = request[r].uid /\ request[r].read <= Expiry(t) + Leeway
=============================================================================
