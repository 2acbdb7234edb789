----------------------------- MODULE StatusList -----------------------------
(***************************************************************************)
(* The Token Status Lists of the OpenID4VC issuer (StatusListService) and  *)
(* the offers that bind their indexes (IssuerService.createOffer,          *)
(* mapCredentialRequest).                                                  *)
(*                                                                         *)
(* Every write to a list, to its token or to one of its bindings runs      *)
(* alone on that list (`serialized'), so a task is one step; what a        *)
(* failure or a crash can cut off in the middle of a task is a step of its *)
(* own.  An offer takes several tasks.  Time is a small clock.  The        *)
(* content of a token is the set of indexes whose status is INVALID.       *)
(***************************************************************************)
EXTENDS Naturals, FiniteSets

CONSTANTS
    Lists, Offers,
    Size,        \* size of every list
    Faults,      \* subset of {"storage", "crash", "delete"}
    Lifetime,    \* STATUS_LIST_TOKEN_LIFETIME_SECONDS
    OfferTtl,    \* the time Credo gives an offer
    CredTtl,     \* ttlSeconds of the offers
    MaxTime      \* bound of the clock

VARIABLES
    list,    \* per list: its record with the stored token
    entry,   \* per list and index: its binding
    offer,   \* per offer: what the call and the issuance session have reached
    chain,   \* the certificate chain the issuer signs with
    served,  \* the token last served, and when
    now

vars == <<list, entry, offer, chain, served, now>>

Indexes == 0..(Size - 1)
Chains  == {1, 2}

NoList  == [state |-> "none", revoked |-> {}, chain |-> 1, iat |-> 0]
Unbound == [bound |-> FALSE, expiresAt |-> 0, revoked |-> FALSE]
NoOffer == [pc |-> "none", l |-> CHOOSE l \in Lists : TRUE, i |-> 0, expiresAt |-> 0, exp |-> 0]

\* isLive: without an expiresAt (0) a binding is live until it is revoked.
isLive(e) == e.bound /\ ~e.revoked /\ (e.expiresAt = 0 \/ e.expiresAt > now)

statusListTokenNearsExpiry(t) == 2 * now >= 2 * t.iat + Lifetime

statusListTokenChainDiffers(t) == t.chain # chain

Init ==
    /\ list = [l \in Lists |-> NoList]
    /\ entry = [l \in Lists |-> [i \in Indexes |-> Unbound]]
    /\ offer = [o \in Offers |-> NoOffer]
    /\ chain = 1
    /\ served = [chain |-> 1, iat |-> 0, at |-> 0, current |-> TRUE]
    /\ now = 0

-----------------------------------------------------------------------------
\* The lists.

createStatusList(l) ==
    /\ list[l].state = "none"
    /\ list' = [list EXCEPT ![l] = [state |-> "live", revoked |-> {},
                                    chain |-> chain, iat |-> now]]
    /\ UNCHANGED <<entry, offer, chain, served, now>>

\* Mutant: a token that is created anew starts from the bindings.
publishFromBindings(l, newly) ==
    [list[l] EXCEPT
        !.revoked = newly \cup (IF statusListTokenChainDiffers(list[l])
                                THEN {i \in Indexes : entry[l][i].revoked}
                                ELSE list[l].revoked),
        !.chain = chain, !.iat = now]

\* publish: an update of the token keeps its header, so a chain that changed
\* creates the token anew, from the statuses of the token it replaces.
publish(l, newly) ==
    [list[l] EXCEPT !.revoked = @ \cup newly, !.chain = chain, !.iat = now]

Dead(l) == {i \in Indexes : entry[l][i].bound /\ ~isLive(entry[l][i])}

\* deleteStatusList: refused while a binding is live.  The bindings go first,
\* so a failure in between leaves the list with some of them gone.
deleteStatusList(l) ==
    /\ list[l].state = "live"
    /\ \A i \in Indexes : ~isLive(entry[l][i])
    /\ \/ /\ list' = [list EXCEPT ![l].state = "deleted"]
          /\ entry' = [entry EXCEPT ![l] = [i \in Indexes |-> Unbound]]
       \/ /\ "delete" \in Faults
          /\ \E gone \in (SUBSET Dead(l)) \ {{}} :
                entry' = [entry EXCEPT ![l] =
                    [i \in Indexes |-> IF i \in gone THEN Unbound ELSE entry[l][i]]]
          /\ UNCHANGED list
    /\ UNCHANGED <<offer, chain, served, now>>

\* revokeCredential: publish, then the binding; the second can fail.
revokeCredential(l, i) ==
    /\ list[l].state = "live" /\ entry[l][i].bound /\ ~entry[l][i].revoked
    /\ list' = [list EXCEPT ![l] = publish(l, {i})]
    /\ \/ entry' = [entry EXCEPT ![l][i].revoked = TRUE]
       \/ "storage" \in Faults /\ UNCHANGED entry
    /\ UNCHANGED <<offer, chain, served, now>>

Serve(t) == served' = [chain |-> t.chain, iat |-> t.iat, at |-> now,
                       current |-> t.chain = chain]

\* Mutant: only the age of the token makes it stale.
getTokenByAge(l) ==
    /\ list[l].state = "live"
    /\ LET stale == statusListTokenNearsExpiry(list[l])
           t == IF stale THEN publish(l, {}) ELSE list[l]
       IN  list' = [list EXCEPT ![l] = t] /\ Serve(t)
    /\ UNCHANGED <<entry, offer, chain, now>>

\* getStatusListToken: a stale token is signed again before it is served.
getStatusListToken(l) ==
    /\ list[l].state = "live"
    /\ LET stale == statusListTokenNearsExpiry(list[l]) \/ statusListTokenChainDiffers(list[l])
           t == IF stale THEN publish(l, {}) ELSE list[l]
       IN  list' = [list EXCEPT ![l] = t] /\ Serve(t)
    /\ UNCHANGED <<entry, offer, chain, now>>

-----------------------------------------------------------------------------
\* createOffer: bind the index, create the session, complete the binding.

Move(o, pc) == offer' = [offer EXCEPT ![o].pc = pc]

\* bindIndex: a duplicate id refuses the second binding.
bindIndex(o, l, i) ==
    /\ offer[o].pc = "none" /\ list[l].state = "live" /\ ~entry[l][i].bound
    /\ entry' = [entry EXCEPT ![l][i] = [Unbound EXCEPT !.bound = TRUE]]
    /\ offer' = [offer EXCEPT ![o] = [NoOffer EXCEPT !.pc = "bound", !.l = l, !.i = i]]
    /\ UNCHANGED <<list, chain, served, now>>

\* createCredentialOffer and the tags of its session.
createCredentialOffer(o) ==
    /\ offer[o].pc = "bound"
    /\ \/ offer' = [offer EXCEPT ![o].pc = "session", ![o].expiresAt = now + OfferTtl]
       \/ "storage" \in Faults /\ Move(o, "release")
       \/ "storage" \in Faults /\ Move(o, "discard")   \* with a session
    /\ UNCHANGED <<list, entry, chain, served, now>>

\* updateEntry: nothing happens when the binding is gone.
updateEntry(l, i, e) ==
    entry' = IF entry[l][i].bound THEN [entry EXCEPT ![l][i].expiresAt = e] ELSE entry

completeBinding(o) ==
    /\ offer[o].pc = "session"
    /\ \/ Move(o, "offered") /\ updateEntry(offer[o].l, offer[o].i, offer[o].expiresAt)
       \/ "storage" \in Faults /\ Move(o, "discard") /\ UNCHANGED entry
    /\ UNCHANGED <<list, chain, served, now>>

\* discardFailedOffer: the session first; an index that a surviving session
\* names stays bound.
discardFailedOffer(o) ==
    /\ offer[o].pc = "discard"
    /\ Move(o, "release") \/ Move(o, "survives")
    /\ UNCHANGED <<list, entry, chain, served, now>>

releaseIndex(o) ==
    /\ offer[o].pc = "release"
    /\ Move(o, "failed")
    /\ entry' = [entry EXCEPT ![offer[o].l][offer[o].i] = Unbound]
    /\ UNCHANGED <<list, chain, served, now>>

deleteIssuanceSession(o) ==
    /\ offer[o].pc = "offered"
    /\ Move(o, "failed")
    /\ UNCHANGED <<list, entry, chain, served, now>>

-----------------------------------------------------------------------------
\* The wallet.  Credo refuses an expired session, then calls the mapper, which
\* reads the type metadata before it records the issuance.
credentialRequest(o) ==
    /\ offer[o].pc = "offered" /\ now < offer[o].expiresAt
    /\ Move(o, "mapping")
    /\ UNCHANGED <<list, entry, chain, served, now>>

mapCredentialRequest(o) ==
    /\ offer[o].pc = "mapping"
    /\ offer' = [offer EXCEPT ![o].pc = "recorded", ![o].exp = now + CredTtl]
    /\ updateEntry(offer[o].l, offer[o].i, now + CredTtl)
    /\ UNCHANGED <<list, chain, served, now>>

signCredential(o) ==
    /\ offer[o].pc = "recorded"
    /\ Move(o, "issued")
    /\ UNCHANGED <<list, entry, chain, served, now>>

-----------------------------------------------------------------------------
\* A crash ends every call; the next start may load another certificate.
restart ==
    /\ "crash" \in Faults
    /\ \E c \in Chains : chain' = c
    /\ offer' = [o \in Offers |->
          CASE offer[o].pc \in {"bound", "release"} -> [offer[o] EXCEPT !.pc = "failed"]
            [] offer[o].pc \in {"session", "discard"} -> [offer[o] EXCEPT !.pc = "survives"]
            [] offer[o].pc \in {"mapping", "recorded"} -> [offer[o] EXCEPT !.pc = "offered"]
            [] OTHER -> offer[o]]
    /\ UNCHANGED <<list, entry, served, now>>

Tick ==
    /\ now < MaxTime /\ now' = now + 1
    /\ UNCHANGED <<list, entry, offer, chain, served>>

Next ==
    \/ \E l \in Lists : createStatusList(l) \/ deleteStatusList(l) \/ getStatusListToken(l)
    \/ \E l \in Lists, i \in Indexes : revokeCredential(l, i)
    \/ \E o \in Offers, l \in Lists, i \in Indexes : bindIndex(o, l, i)
    \/ \E o \in Offers :
         \/ createCredentialOffer(o) \/ completeBinding(o)
         \/ discardFailedOffer(o) \/ releaseIndex(o) \/ deleteIssuanceSession(o)
         \/ credentialRequest(o) \/ mapCredentialRequest(o) \/ signCredential(o)
    \/ restart \/ Tick

Spec == Init /\ [][Next]_vars

-----------------------------------------------------------------------------
TypeOK ==
    /\ list \in [Lists -> [state : {"none", "live", "deleted"}, revoked : SUBSET Indexes,
                           chain : Chains, iat : 0..MaxTime]]
    /\ entry \in [Lists -> [Indexes -> [bound : BOOLEAN, revoked : BOOLEAN,
                                        expiresAt : 0..(MaxTime + OfferTtl + CredTtl)]]]
    /\ chain \in Chains /\ now \in 0..MaxTime
    /\ \A l \in Lists, i \in Indexes : ~entry[l][i].bound => entry[l][i] = Unbound

Issued(o) == offer[o].pc = "issued"

\* A published revocation is never taken back, whatever re-signs the list:
\* statusListTokenRevokedIndexes, "a revocation that reached the token but
\* not its binding is never lost".
RevocationKept ==
    [][\A l \in Lists : list'[l].state = "live" => list[l].revoked \subseteq list'[l].revoked]_vars

\* A served token has not expired and carries the chain that signs the
\* credentials ([VSA-PUB-OID-1], publish and getStatusListToken).
ServedUsable == served.current /\ served.at < served.iat + Lifetime

\* No two credentials are issued on one index: bindIndex, "so two offers can
\* never share it".
IndexBacksOne ==
    \A o, p \in Offers :
        (o # p /\ Issued(o) /\ Issued(p)) => <<offer[o].l, offer[o].i>> # <<offer[p].l, offer[p].i>>

\* A list is deleted only when every credential issued on it has expired or
\* was revoked ([VSA-ADM-OID-SL-DELETE]).
DeletedListIsDeadStep ==
    \A o \in Offers, l \in Lists :
      (list[l].state = "live" /\ list'[l].state = "deleted" /\ Issued(o) /\ offer[o].l = l)
          => offer[o].exp <= now \/ offer[o].i \in list[l].revoked
DeletedListIsDead == [][DeletedListIsDeadStep]_vars

\* mapCredentialRequest: "a binding never claims less than the credential it
\* backs".
BindingCoversCredential ==
    \A o \in Offers : Issued(o) =>
        LET e == entry[offer[o].l][offer[o].i]
        IN  (offer[o].exp > now /\ offer[o].i \notin list[offer[o].l].revoked)
                => e.bound /\ (e.expiresAt = 0 \/ e.expiresAt >= offer[o].exp)
=============================================================================
