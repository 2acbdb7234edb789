--------------------------- MODULE AnonCredsTrust ---------------------------
(***************************************************************************)
(* The trust checks of AnonCreds requests: which CredentialSchema a        *)
(* credential definition or schema belongs to (cached once it is known),   *)
(* and whether a DID holds an active participant for it (never cached).    *)
(* A call is a prover that answers a presentation request, the one that    *)
(* makes the most checks, or this agent that offers a credential or asks   *)
(* for a presentation, which checks its own participant.                   *)
(***************************************************************************)
EXTENDS Naturals, FiniteSets

CONSTANTS
    Refs,            \* credential definitions and schemas a request names
    Schemas,         \* CredentialSchemas of the chain
    skipsOwnAuthorization, \* AGENT_UNSAFE_SKIP_OWN_AUTHORIZATION
    MaxChanges       \* bound: changes of the world

VARIABLES
    up,              \* services that answer
    bound,           \* CredentialSchema the VTJSC of a reference names, "none" if no VTJSC
    owned,           \* CredentialSchemas whose Ecosystem issued the VTJSC
    active,          \* CredentialSchemas the checked DID holds an active participant for
    local,           \* references of which this agent holds the record with its tag
    derivations,     \* cached answers
    call,            \* the call in progress
    during,          \* ghost: CredentialSchemas that were active since the call began
    outcome,         \* how the last call ended
    changes

world == <<up, bound, owned, active, local>>
vars == <<world, derivations, call, during, outcome, changes>>

Services == {"registry", "vtjsc", "indexer"}
NoCall == [kind |-> "none", groups |-> {}, refs |-> {}, schemas |-> {}]
Unknown == "unknown"

Init ==
    /\ up \in SUBSET Services /\ bound \in [Refs -> Schemas \cup {"none"}]
    /\ owned \in SUBSET Schemas /\ active \in SUBSET Schemas /\ local \in SUBSET Refs
    /\ derivations = [r \in Refs |-> Unknown]
    /\ call = NoCall /\ during = {} /\ outcome = "none" /\ changes = 0

-----------------------------------------------------------------------------
\* The world changes while a call runs.
worldChanges ==
    /\ changes < MaxChanges /\ changes' = changes + 1
    /\ \/ \E x \in Services : up' = (up \ {x}) \cup ({x} \ up) /\ UNCHANGED <<owned, active>>
       \/ \E s \in Schemas : active' = (active \ {s}) \cup ({s} \ active) /\ UNCHANGED <<up, owned>>
       \/ \E s \in Schemas : owned' = (owned \ {s}) \cup ({s} \ owned) /\ UNCHANGED <<up, active>>
    /\ during' = IF call = NoCall THEN {} ELSE during \cup active'
    /\ UNCHANGED <<bound, local, derivations, call, outcome>>

End(result) == call' = NoCall /\ during' = {} /\ outcome' = result

-----------------------------------------------------------------------------
\* A call: the prover names its groups, each a set of restrictions.

\* acceptPresentationRequest: a verifier without a checkable DID, a request
\* without groups and a group without restrictions are refused.
acceptPresentationRequest ==
    /\ call = NoCall
    /\ \E groups \in SUBSET (SUBSET Refs), did \in {"established", "none", "unsupported"} :
        IF did # "established" \/ groups = {} \/ {} \in groups
        THEN outcome' = "not-authorized" /\ UNCHANGED <<call, during>>
        ELSE /\ call' = [kind |-> "present", groups |-> groups, refs |-> UNION groups, schemas |-> {}]
             /\ during' = active /\ outcome' = "none"
    /\ UNCHANGED <<world, derivations, changes>>

\* createCredentialOffer and createPresentationRequest check the own participant.
assertOwnAuthorization ==
    /\ call = NoCall
    /\ \E r \in Refs : call' = [kind |-> "mint", groups |-> {{r}}, refs |-> {r}, schemas |-> {}]
    /\ during' = active /\ outcome' = "none"
    /\ UNCHANGED <<world, derivations, changes>>

\* resolveAnonCredsObject: the own record, else the registry.
resolveAnonCredsObject(r) ==
    IF r \in local \/ "registry" \in up
    THEN (IF bound[r] = "none" THEN "not-derivable" ELSE "found")
    ELSE "unavailable"

\* resolveCredentialSchemaLink: the document and its proof, the CredentialSchema
\* and its Ecosystem, which must be the issuer of the document.
resolveCredentialSchemaLink(r) ==
    IF "vtjsc" \notin up THEN "unavailable"
    ELSE IF "indexer" \notin up THEN "unavailable"
    ELSE IF bound[r] \notin owned THEN "not-derivable"
    ELSE "found"

\* A cached answer is taken as it is; a new one is cached, a failure is not.
deriveCredentialSchema(r) ==
    LET object == resolveAnonCredsObject(r)
        link == resolveCredentialSchemaLink(r)
    IN /\ r \in call.refs
       /\ IF derivations[r] # Unknown
          THEN /\ call' = [call EXCEPT !.refs = @ \ {r}, !.schemas = @ \cup {derivations[r]}]
               /\ UNCHANGED <<derivations, during, outcome>>
          ELSE IF object # "found" THEN End(object) /\ UNCHANGED derivations
          ELSE IF link # "found" THEN End(link) /\ UNCHANGED derivations
          ELSE /\ derivations' = [derivations EXCEPT ![r] = bound[r]]
               /\ call' = [call EXCEPT !.refs = @ \ {r}, !.schemas = @ \cup {bound[r]}]
               /\ UNCHANGED <<during, outcome>>
       /\ UNCHANGED <<world, changes>>

\* Mutant: the participant is checked for one CredentialSchema of the request.
authorizeOne ==
    /\ call # NoCall /\ call.refs = {}
    /\ \E s \in call.schemas :
        IF "indexer" \in up /\ s \in active THEN End("allowed") ELSE End("not-authorized")
    /\ UNCHANGED <<world, derivations, changes>>

\* Every CredentialSchema of the request, one read of the indexer each.  The
\* demo switch excuses a missing own participant, not a read that failed.
assertAuthorized ==
    /\ call # NoCall /\ call.refs = {}
    /\ \E s \in call.schemas :
        IF "indexer" \notin up THEN End("unavailable")
        ELSE IF s \notin active /\ ~(call.kind = "mint" /\ skipsOwnAuthorization) THEN End("not-authorized")
        ELSE IF call.schemas = {s} THEN End("allowed")
        ELSE call' = [call EXCEPT !.schemas = @ \ {s}] /\ UNCHANGED <<during, outcome>>
    /\ UNCHANGED <<world, derivations, changes>>

Step == assertAuthorized \/ \E r \in Refs : deriveCredentialSchema(r)

Next == worldChanges \/ acceptPresentationRequest \/ assertOwnAuthorization \/ Step

Spec == Init /\ [][Next]_vars

\* A call that was made comes to its end.
Fairness == WF_vars(Step) /\ WF_vars(assertOwnAuthorization)

FairSpec == Spec /\ Fairness

-----------------------------------------------------------------------------
TypeOK ==
    /\ derivations \in [Refs -> Schemas \cup {Unknown}]
    /\ call.refs \subseteq Refs /\ call.schemas \subseteq Schemas
    /\ outcome \in {"none", "allowed", "not-authorized", "not-derivable", "unavailable"}

Needed == {derivations[r] : r \in UNION call.groups}

\* acceptPresentationRequest and createCredentialOffer: what is shown or minted
\* is backed by an active participant, at a time since the call began, for every
\* CredentialSchema of every restriction, whatever the caches hold.
AllowedWasActiveStep ==
    (outcome # "allowed" /\ outcome' = "allowed" /\ (call.kind = "present" \/ ~skipsOwnAuthorization))
         => (Needed \subseteq during)
AllowedWasActive == [][AllowedWasActiveStep]_vars

\* assertOwnAuthorization: the demo switch excuses a missing participant, never
\* a check that could not run.
AllowedWasCheckedStep ==
    (outcome # "allowed" /\ outcome' = "allowed") => ("indexer" \in up)
AllowedWasChecked == [][AllowedWasCheckedStep]_vars

\* deriveCredentialSchema: a failure is not remembered: once the services answer
\* and the participants are active for good, calls are allowed again.
OutagePasses ==
    <>[](up = Services /\ owned = Schemas /\ active = Schemas /\ \A r \in Refs : bound[r] # "none")
        => []<>(outcome = "allowed")

=============================================================================
