---------------------------- MODULE AdminApiProofs ----------------------------
(***************************************************************************)
(* Proofs about the front of the Admin API (AdminApi), for any accounts,   *)
(* limits and times: a challenge yields one token at most, for the account *)
(* it was made for; the pending challenges stay within the limit; whoever  *)
(* is served from outside signed within TOKEN_TTL.                         *)
(*                                                                         *)
(* AdminInv is inductive because of two facts that hold across the await   *)
(* of issueToken: a nonce is in one place at a time, pending, being        *)
(* verified or behind a token (NonceSpent), and no token outlives its      *)
(* account's last signature by more than TOKEN_TTL (SignedInTime).         *)
(***************************************************************************)
EXTENDS AdminApi, FiniteSetTheorems, WellFoundedInduction, TLAPS

\* A set of nonces that is not empty has an oldest one.
LEMMA SetOfNaturalsHasMinimum ==
  ASSUME NEW S, S \subseteq Nat, S # {}
  PROVE  \E n \in S : \A k \in S : n <= k
<1>1. IsWellFoundedOn(OpToRel(<, Nat), Nat)
  BY NatLessThanWellFounded
<1>2. PICK n \in S : \A k \in S : ~(<<k, n>> \in OpToRel(<, Nat))
  BY <1>1, WFMin
<1>3. \A k \in S : ~(k < n)
  BY <1>2 DEF OpToRel
<1> QED
  BY <1>3

\* createChallenge: after prune and the eviction of the oldest challenge there is
\* room for one more, and what is kept is as it was.
LEMMA EvictMakesRoom ==
  ASSUME TypeOK, PendingBounded
  PROVE  LET kept == evict(prunedNonces) IN
         /\ DOMAIN kept \subseteq DOMAIN nonces /\ \A n \in DOMAIN kept : kept[n] = nonces[n]
         /\ IsFiniteSet(DOMAIN kept) /\ Cardinality(DOMAIN kept) < MAX_PENDING_NONCES
<1> DEFINE ns == prunedNonces
           L == DOMAIN ns
           oldest == CHOOSE n \in L : \A k \in L : n <= k
<1> USE LimitsAssumption
<1>1. L \subseteq DOMAIN nonces /\ \A n \in L : ns[n] = nonces[n]
  BY DEF prunedNonces, Live
<1>2. DOMAIN nonces \subseteq Nat /\ IsFiniteSet(DOMAIN nonces)
  <2>1. DOMAIN nonces \in SUBSET (1..made) /\ made \in Nat
    BY DEF TypeOK
  <2>2. IsFiniteSet(1..made)
    BY <2>1, FS_Interval
  <2> QED
    BY <2>1, <2>2, FS_Subset
<1>3. IsFiniteSet(L) /\ Cardinality(L) \in Nat /\ Cardinality(L) <= MAX_PENDING_NONCES
  <2>1. IsFiniteSet(L) /\ Cardinality(L) <= Cardinality(DOMAIN nonces)
    BY <1>1, <1>2, FS_Subset
  <2>2. Cardinality(L) \in Nat /\ Cardinality(DOMAIN nonces) \in Nat
    BY <1>2, <2>1, FS_CardinalityType
  <2> QED
    BY <2>1, <2>2 DEF PendingBounded
<1> HIDE DEF ns
<1>4. CASE Cardinality(L) < MAX_PENDING_NONCES
  <2>1. evict(ns) = ns
    BY <1>4 DEF evict
  <2> QED
    BY <1>1, <1>3, <1>4, <2>1 DEF ns
<1>5. CASE ~(Cardinality(L) < MAX_PENDING_NONCES)
  <2>1. Cardinality(L) = MAX_PENDING_NONCES /\ L # {} /\ L \subseteq Nat
    BY <1>1, <1>2, <1>3, <1>5, FS_EmptySet
  <2>2. \E n \in L : \A k \in L : n <= k
    BY <2>1, SetOfNaturalsHasMinimum
  <2>3. oldest \in L
    BY <2>2
  <2>4. evict(ns) = [n \in L \ {oldest} |-> ns[n]]
    BY <1>5 DEF evict
  <2> HIDE DEF oldest, L
  <2>5. IsFiniteSet(L \ {oldest}) /\ Cardinality(L \ {oldest}) = Cardinality(L) - 1
    BY <1>3, <2>3, FS_RemoveElement
  <2>6. DOMAIN evict(ns) = L \ {oldest} /\ \A n \in L \ {oldest} : evict(ns)[n] = ns[n]
    BY <2>4
  <2> QED
    BY <1>1, <1>3, <2>1, <2>5, <2>6 DEF ns, L
<1> QED
  BY <1>4, <1>5

\* What EnvelopeSound asks of status, code and message of an envelope.
Sound(status, code, own) ==
    /\ code = "UNAUTHENTICATED" <=> status = 401
    /\ code = "FORBIDDEN" <=> status = 403
    /\ code = "UNKNOWN_ID" <=> status = 404
    /\ code = "INTERNAL" <=> status >= 500
    /\ status >= 500 => ~own

\* envelopeFor makes a sound envelope of whatever a handler throws, except for
\* the status and code that the handler chose itself.
LEMMA EnvelopeFacts ==
  ASSUME NEW e \in Failures, e.kind # "admin"
  PROVE  Sound(envelopeFor(e).status, envelopeFor(e).code, envelopeFor(e).own)
<1> DEFINE v == envelopeFor(e)
<1>1. CASE e \in [kind : {"endpoint"}, code : EndpointCodes, status : {0}]
  <2>1. v = [status |-> statusForServiceEndpointCode(e.code),
             code |-> codeForServiceEndpointCode(e.code), own |-> TRUE]
    BY <1>1 DEF envelopeFor
  <2>2. v.status \in {400, 404, 409} /\ (v.status = 404 <=> e.code = "NOT_FOUND")
    BY <1>1, <2>1 DEF EndpointCodes, statusForServiceEndpointCode
  <2>3. v.code = IF e.code = "NOT_FOUND" THEN "UNKNOWN_ID" ELSE e.code
    BY <1>1, <2>1 DEF codeForServiceEndpointCode
  <2> QED
    BY <1>1, <2>2, <2>3 DEF EndpointCodes, Sound
<1>2. CASE e \in [kind : {"record", "bare"}, code : {""}, status : {0}]
  <2>1. CASE e.kind = "record"
    <3>1. v = [status |-> 404, code |-> "UNKNOWN_ID", own |-> FALSE]
      BY <2>1 DEF envelopeFor
    <3>2. v.status = 404 /\ v.code = "UNKNOWN_ID"
      BY <3>1
    <3> QED
      BY <3>2 DEF Sound
  <2>2. CASE e.kind = "bare"
    <3>1. v = [status |-> 500, code |-> "INTERNAL", own |-> FALSE]
      BY <2>2 DEF envelopeFor
    <3>2. v.status = 500 /\ v.code = "INTERNAL" /\ ~v.own
      BY <3>1
    <3> QED
      BY <3>2 DEF Sound
  <2> QED
    BY <1>2, <2>1, <2>2
<1>3. CASE e \in [kind : {"http", "status"}, code : {""}, status : Statuses]
  <2>0. e.kind \in {"http", "status"}
    BY <1>3, Zenon
  <2>1. v = [status |-> e.status, code |-> codeForStatus(e.status), own |-> e.status < 500]
    BY <2>0 DEF envelopeFor
  <2>2. v.status = e.status /\ v.code = codeForStatus(e.status)
    BY <2>1
  <2>4. e.status = 500 => ~v.own
    <3> DEFINE below == e.status < 500
    <3>1. v = [status |-> e.status, code |-> codeForStatus(e.status), own |-> below]
      BY <2>1
    <3>2. e.status = 500 => below = FALSE
      OBVIOUS
    <3> HIDE DEF below
    <3>3. v.own = below
      BY <3>1
    <3> QED
      BY <3>2, <3>3
  <2>3. e.status \in {400, 404, 409, 500}
    <3>1. e.status \in Statuses
      BY <1>3, Zenon
    <3> QED
      BY <3>1 DEF Statuses
  <2> QED
    BY <2>2, <2>3, <2>4 DEF codeForStatus, Sound
<1> QED
  <2> DEFINE a1 == [kind |-> "admin", status |-> 400, code |-> "INVALID_CURSOR"]
             a2 == [kind |-> "admin", status |-> 409, code |-> "INVALID_CLAIMS"]
             a3 == [kind |-> "admin", status |-> 503, code |-> "RESOLVER_UNAVAILABLE"]
             endpoints == [kind : {"endpoint"}, code : EndpointCodes, status : {0}]
             records == [kind : {"record", "bare"}, code : {""}, status : {0}]
             others == [kind : {"http", "status"}, code : {""}, status : Statuses]
  <2>1. e # a1 /\ e # a2 /\ e # a3
    OBVIOUS
  <2>2. Failures = {a1, a2, a3} \union endpoints \union records \union others
    BY Zenon DEF Failures
  <2>3. (e \in endpoints \/ e \in records \/ e \in others)
        => Sound(v.status, v.code, v.own)
    BY <1>1, <1>2, <1>3, Zenon
  <2> HIDE DEF a1, a2, a3, endpoints, records, others, v
  <2>4. e \in endpoints \/ e \in records \/ e \in others
    BY <2>1, <2>2
  <2>5. Sound(v.status, v.code, v.own)
    BY <2>3, <2>4
  <2> USE DEF v
  <2> QED
    BY <2>5

\* And of what the guard throws.
LEMMA DenialFacts ==
  ASSUME NEW verdict
  PROVE  LET v == envelopeFor(Denial(verdict)) IN Sound(v.status, v.code, v.own)
<1> DEFINE v == envelopeFor(Denial(verdict))
           st == IF verdict = "forbidden" THEN 403 ELSE 401
<1>1. v = [status |-> st, code |-> codeForStatus(st), own |-> st < 500]
  BY DEF envelopeFor, Denial
<1>2. st \in {401, 403}
  OBVIOUS
<1> HIDE DEF st
<1>3. v.status = st /\ v.code = codeForStatus(st)
  BY <1>1
<1> QED
  BY <1>2, <1>3 DEF codeForStatus, Sound

\* An agent that just started has no challenge, no token and no answer.
LEMMA InitInv == Init => AdminInv
<1> SUFFICES ASSUME Init PROVE AdminInv
  OBVIOUS
<1>1. DOMAIN nonces = {} /\ asker \in [1..made -> Accounts]
  BY DEF Init
<1>2. TypeOK
  BY <1>1, LimitsAssumption DEF Init, TypeOK, Never
<1>3. PendingBounded
  BY <1>1, LimitsAssumption, FS_EmptySet DEF PendingBounded
<1> QED
  BY <1>1, <1>2, <1>3
     DEF Init, AdminInv, NonceSpent, OneTokenPerNonce, TokenOfItsAsker, SignedInTime,
         EnvelopeSound

\* Every call, every step of the clock and a restart keep the invariant.
LEMMA NextInv == AdminInv /\ [Next]_vars => AdminInv'
<1> SUFFICES ASSUME AdminInv, [Next]_vars PROVE AdminInv'
  OBVIOUS
<1> USE LimitsAssumption DEF auth
<1>0. /\ TypeOK /\ NonceSpent /\ OneTokenPerNonce /\ TokenOfItsAsker /\ PendingBounded
      /\ SignedInTime /\ EnvelopeSound
  BY DEF AdminInv
<1>1. CASE tick
  <2>1. TypeOK'
    <3>1. /\ clock' \in 0..MaxClock /\ clock' = clock + 1 /\ clock \in Nat
          /\ UNCHANGED <<made, nonces, asker, verifying, tokens, signedAt>>
      BY <1>0, <1>1 DEF tick, TypeOK
    <3>2. \A n \in DOMAIN nonces : nonces[n].expiresAt <= clock' + NONCE_TTL
      BY <1>0, <3>1 DEF TypeOK
    <3>3. \A t \in tokens : t.expiresAt <= clock' + TOKEN_TTL
      BY <1>0, <3>1 DEF TypeOK
    <3> QED
      BY <1>0, <3>1, <3>2, <3>3 DEF TypeOK
  <2>2. SignedInTime'
    BY <1>0, <1>1 DEF tick, SignedInTime, TypeOK
  <2>3. NonceSpent' /\ OneTokenPerNonce' /\ TokenOfItsAsker' /\ PendingBounded'
        /\ EnvelopeSound'
    BY <1>0, <1>1
       DEF tick, NonceSpent, OneTokenPerNonce, TokenOfItsAsker, PendingBounded,
           EnvelopeSound
  <2> QED
    BY <2>1, <2>2, <2>3 DEF AdminInv
<1>2. CASE restart
  <2>1. TypeOK'
    BY <1>0, <1>2 DEF restart, TypeOK, Never
  <2>2. NonceSpent'
    BY <1>0, <1>2 DEF restart, NonceSpent, TypeOK
  <2>3. OneTokenPerNonce'
    BY <1>0, <1>2 DEF restart, OneTokenPerNonce, TypeOK
  <2>4. TokenOfItsAsker'
    BY <1>0, <1>2 DEF restart, TokenOfItsAsker, TypeOK
  <2>5. PendingBounded'
    BY <1>2, FS_EmptySet DEF restart, PendingBounded
  <2>6. SignedInTime'
    BY <1>0, <1>2 DEF restart, SignedInTime, TypeOK
  <2>7. EnvelopeSound'
    BY <1>0, <1>2 DEF restart, EnvelopeSound
  <2> QED
    BY <2>1, <2>2, <2>3, <2>4, <2>5, <2>6, <2>7 DEF AdminInv
<1>3. CASE answerSent
  <2>1. EnvelopeSound'
    BY <1>0, <1>3 DEF answerSent, EnvelopeSound, TypeOK
  <2>2. TypeOK' /\ NonceSpent' /\ OneTokenPerNonce' /\ TokenOfItsAsker'
        /\ PendingBounded' /\ SignedInTime'
    BY <1>0, <1>3
       DEF answerSent, TypeOK, NonceSpent, OneTokenPerNonce, TokenOfItsAsker,
           PendingBounded, SignedInTime
  <2> QED
    BY <2>1, <2>2 DEF AdminInv
<1>4. ASSUME NEW a \in Accounts, createChallenge(a) PROVE AdminInv'
  <2> DEFINE kept == evict(prunedNonces)
             m == made + 1
  <2>a. /\ made' = m /\ m \in 1..MaxNonces /\ tokens' \subseteq tokens
        /\ DOMAIN nonces' = DOMAIN kept \cup {m}
        /\ nonces'[m] = [account |-> a, expiresAt |-> clock + NONCE_TTL]
        /\ \A n \in DOMAIN kept : n # m => nonces'[n] = kept[n]
        /\ asker' \in [1..m -> Accounts] /\ asker'[m] = a /\ \A n \in 1..made : asker'[n] = asker[n]
        /\ UNCHANGED <<clock, verifying, signedAt, answer>>
    BY <1>0, <1>4 DEF createChallenge, prunedTokens, nonceExpiry, TypeOK
  <2>b. /\ DOMAIN kept \subseteq DOMAIN nonces /\ \A n \in DOMAIN kept : kept[n] = nonces[n]
        /\ IsFiniteSet(DOMAIN kept) /\ Cardinality(DOMAIN kept) < MAX_PENDING_NONCES
    BY <1>0, EvictMakesRoom
  <2>c. \A n \in DOMAIN nonces' \ {m} : n \in DOMAIN nonces /\ n \in 1..made /\ nonces'[n] = nonces[n]
    BY <1>0, <2>a, <2>b DEF TypeOK
  <2> HIDE DEF kept, m
  <2>1. TypeOK'
    <3>1. \A n \in DOMAIN nonces' : /\ n \in 1..m /\ nonces'[n].account \in Accounts
                                    /\ nonces'[n].expiresAt \in Nat
                                    /\ nonces'[n].expiresAt <= clock + NONCE_TTL
      BY <1>0, <2>a, <2>c DEF TypeOK, m
    <3> QED
      BY <1>0, <2>a, <3>1 DEF TypeOK, m
  <2>2. NonceSpent'
    <3>1. m \notin 1..made /\ \A v \in verifying : v.nonce \in 1..made
      BY <1>0 DEF TypeOK, m
    <3>2. \A n \in DOMAIN nonces' : nonces'[n].account = asker'[n]
      BY <1>0, <2>a, <2>c DEF NonceSpent
    <3>3. \A v \in verifying : v.account = asker'[v.nonce] /\ v.nonce \notin DOMAIN nonces'
      BY <1>0, <2>a, <2>c, <3>1 DEF NonceSpent
    <3>4. \A t \in tokens' : t.nonce \notin DOMAIN nonces' /\ \A v \in verifying : v.nonce # t.nonce
      BY <1>0, <2>a, <2>c, <3>1 DEF NonceSpent, TypeOK
    <3> QED
      BY <2>a, <3>2, <3>3, <3>4 DEF NonceSpent
  <2>3. OneTokenPerNonce'
    BY <1>0, <2>a DEF OneTokenPerNonce
  <2>4. TokenOfItsAsker'
    BY <1>0, <2>a DEF TokenOfItsAsker, TypeOK
  <2>5. PendingBounded'
    <3>1. Cardinality(DOMAIN kept) \in Nat
      BY <2>b, FS_CardinalityType
    <3>2. Cardinality(DOMAIN kept \cup {m}) =
            IF m \in DOMAIN kept THEN Cardinality(DOMAIN kept) ELSE Cardinality(DOMAIN kept) + 1
      BY <2>b, FS_AddElement
    <3> QED
      BY <2>a, <2>b, <3>1, <3>2 DEF PendingBounded
  <2>6. SignedInTime'
    BY <1>0, <2>a DEF SignedInTime
  <2>7. EnvelopeSound'
    BY <1>0, <1>4 DEF createChallenge, EnvelopeSound
  <2> QED
    BY <2>1, <2>2, <2>3, <2>4, <2>5, <2>6, <2>7 DEF AdminInv
<1>5. ASSUME NEW a \in Accounts, NEW n \in Nonces, issueToken(a, n) PROVE AdminInv'
  <2>a. /\ DOMAIN nonces' \subseteq DOMAIN nonces \ {n} /\ tokens' \subseteq tokens
        /\ \A k \in DOMAIN nonces' : nonces'[k] = nonces[k]
        /\ \A v \in verifying' : v \in verifying \/ (n \in DOMAIN nonces /\ nonces[n].account = a
                                                     /\ v = [account |-> a, nonce |-> n])
        /\ UNCHANGED <<clock, made, asker, signedAt, answer>>
    BY <1>5 DEF issueToken, prunedTokens, Live, challengeOf
  <2>1. TypeOK'
    BY <1>0, <2>a DEF TypeOK
  <2>2. NonceSpent'
    BY <1>0, <2>a DEF NonceSpent
  <2>3. OneTokenPerNonce'
    BY <1>0, <2>a DEF OneTokenPerNonce
  <2>4. TokenOfItsAsker'
    BY <1>0, <2>a DEF TokenOfItsAsker
  <2>5. PendingBounded'
    <3>1. IsFiniteSet(DOMAIN nonces) /\ Cardinality(DOMAIN nonces) \in Nat
      <4>1. DOMAIN nonces \in SUBSET (1..made) /\ made \in Nat
        BY <1>0 DEF TypeOK
      <4>2. IsFiniteSet(1..made)
        BY <4>1, FS_Interval
      <4> QED
        BY <4>1, <4>2, FS_Subset, FS_CardinalityType
    <3>2. Cardinality(DOMAIN nonces') <= Cardinality(DOMAIN nonces)
          /\ IsFiniteSet(DOMAIN nonces')
      BY <2>a, <3>1, FS_Subset
    <3> QED
      BY <1>0, <3>1, <3>2, FS_CardinalityType DEF PendingBounded
  <2>6. SignedInTime'
    BY <1>0, <2>a DEF SignedInTime
  <2>7. EnvelopeSound'
    BY <1>0, <1>5 DEF issueToken, EnvelopeSound
  <2> QED
    BY <2>1, <2>2, <2>3, <2>4, <2>5, <2>6, <2>7 DEF AdminInv
<1>6. ASSUME NEW v \in verifying, NEW valid \in BOOLEAN, signatureChecked(v, valid)
      PROVE  AdminInv'
  <2> DEFINE new == [account |-> v.account, nonce |-> v.nonce, call |-> Cardinality(tokens),
                     expiresAt |-> clock + TOKEN_TTL]
  <2>a. /\ verifying' = verifying \ {v} /\ tokens' \subseteq tokens \cup {new}
        /\ valid => signedAt' = [signedAt EXCEPT ![v.account] = clock]
        /\ ~valid => tokens' = tokens /\ signedAt' = signedAt
        /\ UNCHANGED <<clock, nonces, made, asker, answer>>
    BY <1>6 DEF signatureChecked
  <2>b. /\ new.account = v.account /\ new.nonce = v.nonce /\ new.expiresAt = clock + TOKEN_TTL
        /\ v.account \in Accounts /\ v.nonce \in 1..made
    BY <1>0, <1>6 DEF TypeOK
  <2> HIDE DEF new
  <2>c. \A w \in verifying : w.nonce = v.nonce => w = v
    BY <1>0, <1>6 DEF TypeOK, NonceSpent
  <2>1. TypeOK'
    <3>1. signedAt' \in [Accounts -> Nat]
      BY <1>0, <2>a, <2>b DEF TypeOK
    <3>2. verifying' \subseteq [account : Accounts, nonce : 1..made]
      BY <1>0, <2>a DEF TypeOK
    <3>3. new.expiresAt \in Nat /\ new.expiresAt <= clock + TOKEN_TTL
      BY <1>0, <2>b DEF TypeOK
    <3>4. ASSUME NEW t \in tokens'
          PROVE  /\ t.account \in Accounts /\ t.nonce \in 1..made /\ t.expiresAt \in Nat
                 /\ t.expiresAt <= clock + TOKEN_TTL
      <4>1. CASE t = new
        BY <2>b, <3>3, <4>1
      <4>2. CASE t \in tokens
        BY <1>0, <4>2 DEF TypeOK
      <4> QED
        BY <2>a, <4>1, <4>2
    <3> QED
      BY <1>0, <2>a, <3>1, <3>2, <3>4 DEF TypeOK
  <2>2. NonceSpent'
    BY <1>0, <1>6, <2>a, <2>b, <2>c DEF NonceSpent
  <2>3. OneTokenPerNonce'
    BY <1>0, <1>6, <2>a, <2>b DEF OneTokenPerNonce, NonceSpent
  <2>4. TokenOfItsAsker'
    BY <1>0, <1>6, <2>a, <2>b DEF TokenOfItsAsker, NonceSpent
  <2>5. SignedInTime'
    <3>1. CASE valid
      <4>1. \A x \in Accounts : signedAt'[x] = IF x = v.account THEN clock ELSE signedAt[x]
        BY <1>0, <2>a, <3>1 DEF TypeOK
      <4>2. \A x \in tokens : /\ signedAt'[x.account] <= clock
                              /\ x.expiresAt <= signedAt'[x.account] + TOKEN_TTL
        <5> SUFFICES ASSUME NEW x \in tokens
                     PROVE  /\ signedAt'[x.account] <= clock
                            /\ x.expiresAt <= signedAt'[x.account] + TOKEN_TTL
          OBVIOUS
        <5>1. /\ x.account \in Accounts /\ signedAt[x.account] \in Nat /\ x.expiresAt \in Nat
              /\ clock \in Nat
          BY <1>0 DEF TypeOK
        <5>2. /\ signedAt[x.account] <= clock
              /\ x.expiresAt <= signedAt[x.account] + TOKEN_TTL
          BY <1>0 DEF SignedInTime
        <5> QED
          BY <4>1, <5>1, <5>2
      <4>3. signedAt'[new.account] <= clock
            /\ new.expiresAt <= signedAt'[new.account] + TOKEN_TTL
        BY <1>0, <2>b, <4>1 DEF TypeOK
      <4> QED
        BY <2>a, <4>2, <4>3 DEF SignedInTime
    <3> QED
      BY <1>0, <2>a, <3>1 DEF SignedInTime
  <2>6. PendingBounded' /\ EnvelopeSound'
    BY <1>0, <1>6 DEF signatureChecked, PendingBounded, EnvelopeSound
  <2> QED
    BY <2>1, <2>2, <2>3, <2>4, <2>5, <2>6 DEF AdminInv
<1>7. ASSUME NEW exemption \in Exemptions, NEW trusted \in BOOLEAN,
           NEW t \in tokens \union {NoToken}, request(exemption, trusted, t)
      PROVE  AdminInv'
  <2>a. tokens' \subseteq tokens
        /\ UNCHANGED <<clock, nonces, made, asker, verifying, signedAt>>
    BY <1>7 DEF request
  <2>1. TypeOK'
    BY <1>0, <2>a DEF TypeOK
  <2>2. NonceSpent'
    BY <1>0, <2>a DEF NonceSpent
  <2>3. OneTokenPerNonce'
    BY <1>0, <2>a DEF OneTokenPerNonce
  <2>4. TokenOfItsAsker'
    BY <1>0, <2>a DEF TokenOfItsAsker
  <2>5. SignedInTime'
    BY <1>0, <2>a DEF SignedInTime
  <2>6. EnvelopeSound'
    <3> DEFINE verdict == canActivate(exemption, trusted, t)
               who == IF t \in tokens THEN t.account ELSE "nobody"
    <3>1. CASE Answered(trusted, exemption, who, "ok", [status |-> 200, code |-> "", own |-> TRUE])
      <4>1. answer'.envelope.status = 200 /\ answer'.envelope.code = ""
        BY <3>1 DEF Answered
      <4>2. Sound(answer'.envelope.status, answer'.envelope.code, answer'.envelope.own)
        <5> DEFINE code == answer'.envelope.code
        <5>1. /\ code # "UNAUTHENTICATED" /\ code # "FORBIDDEN" /\ code # "UNKNOWN_ID"
              /\ code # "INTERNAL"
          BY <4>1
        <5>2. answer'.envelope.status = 200
          BY <4>1
        <5> QED
          BY <5>1, <5>2 DEF Sound
      <4> QED
        BY <4>2 DEF EnvelopeSound, Sound
    <3>2. ASSUME NEW e \in Failures, Answered(trusted, exemption, who, e.kind, envelopeFor(e))
          PROVE  EnvelopeSound'
      <4>1. answer'.envelope = envelopeFor(e) /\ answer'.kind = e.kind
        BY <3>2 DEF Answered
      <4> QED
        BY <4>1, EnvelopeFacts DEF EnvelopeSound, Sound
    <3>3. CASE /\ verdict # "pass"
               /\ Answered(trusted, exemption, who, "denied", envelopeFor(Denial(verdict)))
      <4> HIDE DEF verdict
      <4>1. answer'.envelope = envelopeFor(Denial(verdict))
        BY <3>3 DEF Answered
      <4> QED
        BY <4>1, DenialFacts DEF EnvelopeSound, Sound
    <3> QED
      BY <1>7, <3>1, <3>2, <3>3 DEF request
  <2>7. PendingBounded'
    BY <1>0, <1>7 DEF request, PendingBounded
  <2> QED
    BY <2>1, <2>2, <2>3, <2>4, <2>5, <2>6, <2>7 DEF AdminInv
<1>8. CASE UNCHANGED vars
  <2>1. TypeOK' /\ NonceSpent' /\ OneTokenPerNonce' /\ TokenOfItsAsker'
        /\ PendingBounded' /\ SignedInTime' /\ EnvelopeSound'
    BY <1>0, <1>8
       DEF vars, TypeOK, NonceSpent, OneTokenPerNonce, TokenOfItsAsker, PendingBounded,
           SignedInTime, EnvelopeSound
  <2> QED
    BY <2>1 DEF AdminInv
<1> QED
  BY <1>1, <1>2, <1>3, <1>4, <1>5, <1>6, <1>7, <1>8 DEF Next

\* AdminAuthService and ErrorEnvelopeFilter: single-use nonces, tokens of the
\* account that asked, the limit of pending challenges and sound envelopes, in
\* whichever order calls, signature checks, expiry and restarts fall.
THEOREM AdminInvariance == Spec => []AdminInv
<1>1. Init => AdminInv
  BY InitInv
<1>2. AdminInv /\ [Next]_vars => AdminInv'
  BY NextInv
<1> QED
  BY <1>1, <1>2, PTL DEF Spec

\* What the guard has checked when it lets an external request through to a route
\* without exemption.
LEMMA ServedStep ==
  ASSUME AdminInv, NEW exemption \in Exemptions, NEW trusted \in BOOLEAN, NEW t,
         request(exemption, trusted, t), answer'.for = "none", answer'.kind # "denied"
  PROVE  /\ authMode = "corporation" /\ answer'.account \in allowedAccounts
         /\ signedAt[answer'.account] <= clock
         /\ clock <= signedAt[answer'.account] + TOKEN_TTL
<1> DEFINE who == IF t \in tokens THEN t.account ELSE "nobody"
<1>1. /\ canActivate(exemption, trusted, t) = "pass" /\ ~trusted /\ exemption = "none"
      /\ answer'.account = who
  <2>1. \E kind, envelope :
          /\ Answered(trusted, exemption, who, kind, envelope)
          /\ canActivate(exemption, trusted, t) = "pass" \/ kind = "denied"
    BY DEF request
  <2> HIDE DEF who
  <2> QED
    BY <2>1 DEF Answered, Exemptions
<1>2. /\ authMode = "corporation" /\ t \in tokens /\ resolvesAccount(t)
      /\ t.account \in allowedAccounts
  BY <1>1 DEF canActivate
<1>3. /\ t.account \in Accounts /\ t.expiresAt \in Nat /\ signedAt[t.account] \in Nat
      /\ clock \in Nat /\ TOKEN_TTL \in Nat
  BY <1>2, LimitsAssumption DEF AdminInv, TypeOK
<1> QED
  BY <1>1, <1>2, <1>3 DEF AdminInv, SignedInTime, resolvesAccount

\* V2AdminAuthGuard: an external request is served in corporation mode only, to
\* an allowed account that signed a challenge within TOKEN_TTL.
THEOREM ServedOnlyIfSigned == Spec => ServedIsSigned
<1> DEFINE Served == LET a == answer' IN
       a # Silent /\ answer = Silent /\ a.for = "none" /\ a.kind \notin {"denied"} =>
          /\ authMode = "corporation" /\ a.account \in allowedAccounts
          /\ signedAt[a.account] <= clock /\ clock <= signedAt[a.account] + TOKEN_TTL
<1>1. AdminInv /\ [Next]_vars => [Served]_vars
  <2> SUFFICES ASSUME AdminInv, Next, answer' # answer PROVE Served
    OBVIOUS
  <2>1. answerSent \/ \E exemption \in Exemptions, trusted \in BOOLEAN, t \in tokens \union {NoToken} :
                         request(exemption, trusted, t)
    BY DEF Next, tick, restart, createChallenge, issueToken, signatureChecked
  <2> QED
    BY <2>1, ServedStep DEF answerSent
<1>2. Spec => []AdminInv
  BY AdminInvariance
<1> QED
  BY <1>1, <1>2, PTL DEF Spec, ServedIsSigned
=============================================================================
