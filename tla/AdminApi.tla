------------------------------ MODULE AdminApi ------------------------------
(***************************************************************************)
(* The front of the Admin API: the challenges and bearer tokens of         *)
(* corporation mode, kept in memory with their expiry times, the guard of  *)
(* every route, and the error envelope of what a guard or a handler        *)
(* throws. Challenges expire, are evicted at the limit and are answered by *)
(* concurrent calls, whose signature check is an await.                    *)
(***************************************************************************)
EXTENDS Naturals, FiniteSets

CONSTANTS
    Accounts,             \* Verana accounts that ask for challenges
    allowedAccounts,      \* ADMIN_ALLOWED_ACCOUNTS
    authMode,             \* ADMIN_AUTH_MODE: "internal" or "corporation"
    MAX_PENDING_NONCES, NONCE_TTL, TOKEN_TTL,
    MaxNonces,            \* bound: challenges ever made
    MaxClock              \* bound on the clock

ASSUME LimitsAssumption ==
    /\ MAX_PENDING_NONCES \in Nat \ {0} /\ NONCE_TTL \in Nat /\ TOKEN_TTL \in Nat
    /\ MaxNonces \in Nat /\ MaxClock \in Nat

VARIABLES
    clock,
    nonces,               \* the pending challenges: account and expiry, by nonce
    made,                 \* nonces made so far; they are made in order
    asker,                \* per nonce: the account it was made for (history)
    verifying,            \* calls of issueToken that await the signature check
    tokens,               \* tokens with their account, nonce and expiry
    signedAt,             \* per account: its last valid signature in this process (history)
    answer                \* the answer the API is giving

auth == <<nonces, made, asker, verifying, tokens, signedAt>>
vars == <<clock, auth, answer>>

Nonces == 1..MaxNonces
Silent == [for |-> "nobody"]
Never == MaxClock + TOKEN_TTL + 1

Init ==
    /\ clock = 0 /\ nonces = <<>> /\ made = 0 /\ asker = <<>> /\ verifying = {} /\ tokens = {}
    /\ signedAt = [a \in Accounts |-> Never] /\ answer = Silent

Live(ns) == {n \in DOMAIN ns : ns[n].expiresAt >= clock}
\* prune: what expired goes.
prunedNonces == [n \in Live(nonces) |-> nonces[n]]
prunedTokens == {t \in tokens : t.expiresAt >= clock}

\* At the limit the oldest challenge goes.
evict(ns) ==
    IF Cardinality(DOMAIN ns) < MAX_PENDING_NONCES THEN ns
    ELSE LET oldest == CHOOSE n \in DOMAIN ns : \A k \in DOMAIN ns : n <= k
         IN [n \in DOMAIN ns \ {oldest} |-> ns[n]]

nonceExpiry == clock + NONCE_TTL

createChallenge(a) ==
    /\ answer = Silent /\ authMode = "corporation" /\ made < MaxNonces /\ made' = made + 1
    /\ LET kept == evict(prunedNonces) IN
       nonces' = [n \in DOMAIN kept \union {made'} |->
                    IF n = made' THEN [account |-> a, expiresAt |-> nonceExpiry] ELSE kept[n]]
    /\ asker' = [n \in 1..made' |-> IF n = made' THEN a ELSE asker[n]]
    /\ tokens' = prunedTokens /\ UNCHANGED <<clock, verifying, signedAt, answer>>

\* The challenge of the nonce, if the caller may answer it.
challengeOf(a, n) == n \in Live(nonces) /\ nonces[n].account = a

issueTokenKeeps(a, n) ==
    /\ answer = Silent /\ authMode = "corporation" /\ n <= made
    /\ verifying' = IF challengeOf(a, n) THEN verifying \union {[account |-> a, nonce |-> n]} ELSE verifying
    /\ nonces' = prunedNonces /\ tokens' = prunedTokens
    /\ UNCHANGED <<clock, made, asker, signedAt, answer>>
\* issueToken up to its await: the nonce is taken before the signature is
\* checked, whatever the check says.
issueToken(a, n) ==
    /\ answer = Silent /\ authMode = "corporation" /\ n <= made
    /\ verifying' = IF challengeOf(a, n) THEN verifying \union {[account |-> a, nonce |-> n]} ELSE verifying
    /\ nonces' = [k \in Live(nonces) \ {n} |-> nonces[k]] /\ tokens' = prunedTokens
    /\ UNCHANGED <<clock, made, asker, signedAt, answer>>

\* verifyAdr036Signature resolves: a token, or none.
signatureChecked(v, valid) ==
    /\ answer = Silent /\ v \in verifying /\ verifying' = verifying \ {v}
    /\ tokens' = IF valid
                 THEN tokens \union {[account |-> v.account, nonce |-> v.nonce, call |-> Cardinality(tokens),
                                      expiresAt |-> clock + TOKEN_TTL]}
                 ELSE tokens
    /\ signedAt' = IF valid THEN [signedAt EXCEPT ![v.account] = clock] ELSE signedAt
    /\ UNCHANGED <<clock, nonces, made, asker, answer>>

\* resolveAccount: the token is known and has not expired.
resolvesAccount(t) == t.expiresAt >= clock

-----------------------------------------------------------------------------
\* Requests.

Exemptions == {"none", "always", "corporation"}

guardTokenOnly(exemption, trusted, t) ==
    IF exemption = "always" \/ trusted THEN "pass"
    ELSE IF t \in tokens /\ resolvesAccount(t) THEN "pass" ELSE "unauthorized"
\* canActivate, with the token of the request (or none).
canActivate(exemption, trusted, t) ==
    CASE exemption = "always" -> "pass"
      [] exemption = "corporation" -> IF authMode = "corporation" THEN "pass" ELSE "forbidden"
      [] exemption = "none" /\ trusted -> "pass"
      [] exemption = "none" /\ ~trusted /\ authMode # "corporation" -> "forbidden"
      [] OTHER -> IF t \notin tokens \/ ~resolvesAccount(t) THEN "unauthorized"
                  ELSE IF t.account \in allowedAccounts THEN "pass" ELSE "forbidden"

\* What a handler throws: an AdminApiError with a code of its own, a service
\* endpoint error, a missing record, an HTTP exception or another error with
\* a status, or an error without one.
EndpointCodes == {"NOT_FOUND", "DUPLICATE_ID", "DIDCOMM_ENTRY", "LINKED_VP_ENTRY", "ADMIN_API_ENTRY", "INVALID_SERVICE_ENDPOINT"}
Statuses == {400, 404, 409, 500}
Failures ==
    {[kind |-> "admin", status |-> 400, code |-> "INVALID_CURSOR"], [kind |-> "admin", status |-> 409, code |-> "INVALID_CLAIMS"],
     [kind |-> "admin", status |-> 503, code |-> "RESOLVER_UNAVAILABLE"]}
    \union [kind : {"endpoint"}, code : EndpointCodes, status : {0}]
    \union [kind : {"record", "bare"}, code : {""}, status : {0}]
    \union [kind : {"http", "status"}, code : {""}, status : Statuses]

codeForStatus(status) ==
    CASE status = 401 -> "UNAUTHENTICATED"
      [] status = 403 -> "FORBIDDEN"
      [] status = 404 -> "UNKNOWN_ID"
      [] status = 409 -> "INVALID_STATE"
      [] OTHER -> IF status >= 500 THEN "INTERNAL" ELSE "INVALID_INPUT"

statusForServiceEndpointCode(code) ==
    CASE code = "NOT_FOUND" -> 404
      [] code \in {"DUPLICATE_ID", "DIDCOMM_ENTRY", "LINKED_VP_ENTRY", "ADMIN_API_ENTRY"} -> 409
      [] OTHER -> 400

codeForServiceEndpointCode(code) == IF code = "NOT_FOUND" THEN "UNKNOWN_ID" ELSE code

\* envelopeFor: status, code, and whether the caller sees the message of the
\* error or the fixed one.
envelopeFor(e) ==
    CASE e.kind = "admin" -> [status |-> e.status, code |-> e.code, own |-> TRUE]
      [] e.kind = "endpoint" -> [status |-> statusForServiceEndpointCode(e.code),
                                 code |-> codeForServiceEndpointCode(e.code), own |-> TRUE]
      [] e.kind = "record" -> [status |-> 404, code |-> "UNKNOWN_ID", own |-> FALSE]
      [] e.kind \in {"http", "status"} ->
            [status |-> e.status, code |-> codeForStatus(e.status), own |-> e.status < 500]
      [] OTHER -> [status |-> 500, code |-> "INTERNAL", own |-> FALSE]

Denial(verdict) == [kind |-> "http", code |-> "", status |-> IF verdict = "forbidden" THEN 403 ELSE 401]
Answered(trusted, exemption, account, kind, envelope) ==
    answer' = [for |-> IF trusted THEN "trusted" ELSE exemption, account |-> account,
               kind |-> kind, envelope |-> envelope]

NoToken == [account |-> "nobody", expiresAt |-> 0]

\* A request: the guard refuses it, or the handler answers or throws, and
\* the filter makes the envelope of what was thrown.
request(exemption, trusted, t) ==
    LET verdict == canActivate(exemption, trusted, t)
        who == IF t \in tokens THEN t.account ELSE "nobody"
    IN /\ answer = Silent
       /\ \/ verdict = "pass" /\ Answered(trusted, exemption, who, "ok", [status |-> 200, code |-> "", own |-> TRUE])
          \/ verdict = "pass" /\ \E e \in Failures : Answered(trusted, exemption, who, e.kind, envelopeFor(e))
          \/ verdict # "pass" /\ Answered(trusted, exemption, who, "denied", envelopeFor(Denial(verdict)))
       /\ tokens' = {x \in tokens : x # t \/ resolvesAccount(x)}
       /\ UNCHANGED <<clock, nonces, made, asker, verifying, signedAt>>

answerSent == answer # Silent /\ answer' = Silent /\ UNCHANGED <<clock, auth>>

tick == answer = Silent /\ clock < MaxClock /\ clock' = clock + 1 /\ UNCHANGED <<auth, answer>>

\* The maps are of the process: a restart forgets them.
restart ==
    /\ answer = Silent /\ nonces' = <<>> /\ verifying' = {} /\ tokens' = {} /\ signedAt' = [a \in Accounts |-> Never]
    /\ UNCHANGED <<clock, made, asker, answer>>

Next ==
    \/ tick \/ restart \/ answerSent
    \/ \E a \in Accounts : createChallenge(a) \/ \E n \in Nonces : issueToken(a, n)
    \/ \E v \in verifying, valid \in BOOLEAN : signatureChecked(v, valid)
    \/ \E exemption \in Exemptions, trusted \in BOOLEAN, t \in tokens \union {NoToken} :
          request(exemption, trusted, t)

Spec == Init /\ [][Next]_vars

-----------------------------------------------------------------------------
\* The types.
TypeOK ==
    /\ clock \in 0..MaxClock /\ made \in 0..MaxNonces /\ DOMAIN nonces \subseteq 1..made
    /\ \A n \in DOMAIN nonces : /\ nonces[n].account \in Accounts /\ nonces[n].expiresAt \in Nat
                                /\ nonces[n].expiresAt <= clock + NONCE_TTL
    /\ asker \in [1..made -> Accounts]
    /\ verifying \subseteq [account : Accounts, nonce : 1..made]
    /\ \A t \in tokens : /\ t.account \in Accounts /\ t.nonce \in 1..made /\ t.expiresAt \in Nat
                         /\ t.expiresAt <= clock + TOKEN_TTL
    /\ signedAt \in [Accounts -> Nat]

\* A "Single-use nonce" (V2AuthController): two calls that answer one
\* challenge, also while the signature of the first is checked, get one
\* token at most.
OneTokenPerNonce == \A s, t \in tokens : s.nonce = t.nonce => s = t

\* A token belongs to the account that asked for the challenge behind it.
TokenOfItsAsker == \A t \in tokens : t.account = asker[t.nonce]

\* The challenges that wait never exceed MAX_PENDING_NONCES.
PendingBounded == Cardinality(DOMAIN nonces) <= MAX_PENDING_NONCES

\* issueToken takes the nonce before its await: a nonce is pending, in one
\* signature check or behind one token, and with the account it was made for.
NonceSpent ==
    /\ \A n \in DOMAIN nonces : nonces[n].account = asker[n]
    /\ \A v \in verifying : v.account = asker[v.nonce] /\ v.nonce \notin DOMAIN nonces
    /\ \A t \in tokens : /\ t.nonce \notin DOMAIN nonces
                         /\ \A v \in verifying : v.nonce # t.nonce

\* A token lives TOKEN_TTL from the last signature of its account at most.
SignedInTime ==
    \A t \in tokens : /\ signedAt[t.account] <= clock
                     /\ t.expiresAt <= signedAt[t.account] + TOKEN_TTL

\* An external request to a guarded route is served in corporation mode
\* only, to an allowed account that signed a challenge of this process no
\* longer than TOKEN_TTL before.
ServedIsSigned ==
    [][LET a == answer' IN
       a # Silent /\ answer = Silent /\ a.for = "none" /\ a.kind \notin {"denied"} =>
          /\ authMode = "corporation" /\ a.account \in allowedAccounts
          /\ signedAt[a.account] <= clock /\ clock <= signedAt[a.account] + TOKEN_TTL]_vars

\* The code of an envelope tells the class of its status, and an error of
\* the server shows its own message only when the handler chose it.
EnvelopeSound ==
    answer # Silent /\ answer.kind # "admin" =>
        LET e == answer.envelope IN
        /\ e.code = "UNAUTHENTICATED" <=> e.status = 401
        /\ e.code = "FORBIDDEN" <=> e.status = 403
        /\ e.code = "UNKNOWN_ID" <=> e.status = 404
        /\ e.code = "INTERNAL" <=> e.status >= 500
        /\ (e.status >= 500 => ~e.own)

\* Challenges and tokens are safe however calls, signature checks, expiry,
\* eviction and restarts overlap, and every answer has a sound envelope.
AdminInv ==
    /\ TypeOK /\ NonceSpent /\ OneTokenPerNonce /\ TokenOfItsAsker /\ PendingBounded
    /\ SignedInTime /\ EnvelopeSound
=============================================================================
