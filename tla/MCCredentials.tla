------------------------------ MODULE MCCredentials -------------------------
(***************************************************************************)
(* Small instances of the parts behind the credential operations of the    *)
(* admin API: credential definitions and their schema (CredentialTypes),   *)
(* revocation registries (RevocationRegistry), credential exchanges        *)
(* (CredentialExchange), presentations (Presentation) and the trust        *)
(* decisions both ask for (AnonCredsTrust).                                *)
(*                                                                         *)
(* The parts are checked side by side: a behaviour runs one scenario, an   *)
(* instance of one part with its bounds, and leaves the others alone, so   *)
(* that the state spaces add up and do not multiply.                       *)
(***************************************************************************)
EXTENDS RevocationRegistry

CONSTANTS
    m1, m2, m3, m4,   \* distinct values
    MaxDefs, MaxRecs, MaxTypeStops,   \* CredentialTypes
    MaxExchangeStops,                 \* CredentialExchange
    Groups,                           \* Presentation
    Refs, Schemas, MaxWorldChanges    \* AnonCredsTrust

ASSUME TypeBounds == MaxDefs \in Nat /\ MaxRecs \in Nat \ {0} /\ MaxTypeStops \in Nat
\* A presentation request asks for something.
ASSUME GroupsAssumption == Groups # {}
\* No CredentialSchema is taken for none.
ASSUME SchemasAssumption == "none" \notin Schemas /\ "unknown" \notin Schemas

VARIABLES
    scenario,   \* what this behaviour runs
    \* CredentialTypes
    recs, served, defs, pub, typeCalls, second, exported, typeStops,
    \* CredentialExchange
    role, offerAutoAccept, exchangeState, error, peer, exchangeCall, issuerActive,
    flow, linked, kept, ends, exchangeStops,
    \* Presentation
    proofState, verified, meta, creating, autoAccept, presented, check, seen,
    decided, acked, cause,
    \* AnonCredsTrust
    up, bound, owned, active, local, derivations, gateCall, during, outcome,
    worldChanged

credentialTypesVars ==
    <<recs, served, defs, pub, typeCalls, second, exported, typeStops>>
credentialExchangeVars ==
    <<role, offerAutoAccept, exchangeState, error, peer, exchangeCall, issuerActive,
      flow, linked, kept, ends, exchangeStops>>
presentationVars ==
    <<proofState, verified, meta, creating, autoAccept, presented, check, seen,
      decided, acked, cause>>
anonCredsTrustVars ==
    <<up, bound, owned, active, local, derivations, gateCall, during, outcome,
      worldChanged>>

Definitions == INSTANCE CredentialTypes WITH
    Callers <- {m1}, Kinds <- {"create", "import", "export", "delete"},
    MaxCrashes <- MaxTypeStops, req <- typeCalls, crashes <- typeStops

Exchange == INSTANCE CredentialExchange WITH
    Atomic <- TRUE, MaxCrashes <- MaxExchangeStops, state <- exchangeState, call <- exchangeCall,
    autoAccept <- offerAutoAccept, active <- issuerActive, crashes <- exchangeStops

Proof == INSTANCE Presentation WITH
    SlowPeer <- TRUE, DuringCheck <- {"decline"}, state <- proofState

Gate == INSTANCE AnonCredsTrust WITH
    skipsOwnAuthorization <- FALSE, MaxChanges <- MaxWorldChanges, call <- gateCall,
    changes <- worldChanged
Skipping == INSTANCE AnonCredsTrust WITH
    Refs <- {m1}, Schemas <- {m3}, skipsOwnAuthorization <- TRUE, MaxChanges <- 3,
    call <- gateCall, changes <- worldChanged

Scenarios ==
    {"types", "registry", "exchange", "presentation",
     "gate", "skipping gate"}

\* A part that is not run stays in one of its initial states.
MCInit ==
    /\ scenario \in Scenarios
    /\ Definitions!Init
    /\ Init
    /\ CASE scenario = "exchange" -> Exchange!Init
         [] OTHER -> Exchange!Init /\ role = "issuer" /\ ~offerAutoAccept /\ ~issuerActive
    /\ CASE scenario = "presentation" -> Proof!Init
         [] OTHER -> Proof!Init /\ ~autoAccept /\ presented = [g \in Groups |-> "missing"]
    /\ CASE scenario = "gate" -> Gate!Init
         [] scenario = "skipping gate" -> Skipping!Init
         [] OTHER -> Gate!Init /\ up = {} /\ bound = [r \in Refs |-> "none"] /\ owned = {} /\ active = {} /\ local = {}

MCNext ==
    \/ /\ scenario = "types" /\ Definitions!Next
       /\ UNCHANGED <<scenario, vars, credentialExchangeVars, presentationVars, anonCredsTrustVars>>
    \/ /\ scenario = "registry" /\ Next
       /\ UNCHANGED <<scenario, credentialTypesVars, credentialExchangeVars, presentationVars, anonCredsTrustVars>>
    \/ /\ scenario = "exchange" /\ Exchange!Next
       /\ UNCHANGED <<scenario, credentialTypesVars, vars, presentationVars, anonCredsTrustVars>>
    \/ /\ scenario = "presentation" /\ Proof!Next
       /\ UNCHANGED <<scenario, credentialTypesVars, vars, credentialExchangeVars, anonCredsTrustVars>>
    \/ /\ \/ scenario = "gate" /\ Gate!Next
          \/ scenario = "skipping gate" /\ Skipping!Next
       /\ UNCHANGED <<scenario, credentialTypesVars, vars, credentialExchangeVars, presentationVars>>

allVars == <<scenario, credentialTypesVars, vars, credentialExchangeVars, presentationVars, anonCredsTrustVars>>

MCSpec == MCInit /\ [][MCNext]_allVars

\* Fairness as the parts state it, of the part that is run.
MCFairSpec ==
    /\ MCSpec
    /\ WF_credentialExchangeVars(scenario = "exchange" /\ Exchange!PeerStep)
    /\ WF_credentialExchangeVars(scenario = "exchange" /\ (Exchange!declineCredentialExchange /\ exchangeCall # Exchange!NoCall))
    /\ WF_presentationVars(scenario = "presentation" /\ Proof!Decide)
    /\ WF_anonCredsTrustVars(scenario = "skipping gate" /\ Skipping!Step)
    /\ WF_anonCredsTrustVars(scenario = "skipping gate" /\ Skipping!assertOwnAuthorization)

-----------------------------------------------------------------------------
\* Credential definitions and their schema keep their types, and:
\* - createCredentialDefinition: one administrator never creates a definition
\*   beside another that carries the tag, wherever the process stops.
\* - deleteCredentialDefinition: no keys and no resource are left without
\*   their record, also after a stop in the middle.
\* - publishAnonCredsSchemaForVtjsc: as long as the process does not stop, a
\*   call that ended without a failure leaves the schema served.
\* - exportCredentialDefinition: as long as it does not stop, the import
\*   accepts every package an export answers with.
DefinitionsSound ==
    /\ Definitions!TypeOK
    /\ Definitions!CreateMakesNoSecond
    /\ Definitions!NoOrphans
    /\ typeStops = 0 => Definitions!PassPublishes /\ Definitions!ExportImports

\* Presentations and credential exchanges keep their types, and:
\* - applyAnonCredsTrustDecision: no presentation is acknowledged whose
\*   issuers were not all found accredited.
\* - applyAnonCredsTrustDecision: a presentation whose issuers are all
\*   accredited is not abandoned for want of trust.
\* - abandonPresentation: once a check failed and the decision ended, the
\*   exchange does not stand as verified.
\* - deleteCredentialExchange: a trust credential flow never names an
\*   exchange that is gone, also after a stop in the middle.
PresentationSound ==
    /\ Proof!TypeOK
    /\ Exchange!TypeOK
    /\ Proof!AckNeedsDecision
    /\ Proof!HonestNotAbandoned
    /\ Proof!FailedNotVerified
    /\ Exchange!NoDangling

\* The trust decision behind a call keeps its types, and:
\* - assertOwnAuthorization: what is allowed was active for every schema at
\*   some time since the call began.
\* - With AGENT_UNSAFE_SKIP_OWN_AUTHORIZATION the schemas of what is allowed
\*   are still derived (assertOwnAuthorization).
GateSound ==
    /\ [](scenario = "gate" => Gate!TypeOK)
    /\ [][scenario = "gate" => Gate!AllowedWasActiveStep]_anonCredsTrustVars
    /\ [][scenario = "skipping gate" => Skipping!AllowedWasCheckedStep]_anonCredsTrustVars

\* Exchanges end once, and without a call when they are automatic:
\* - declineCredentialExchange: an exchange that ended does not end again in
\*   another way, and its end is announced once.
\* - createCredentialOffer with autoAccept: an exchange with a peer that
\*   answers ends without a call.
\* - With autoAccept a received presentation is acknowledged or ended without
\*   a call, whether the registry answers or not
\*   (applyAnonCredsTrustDecision).
\* - deriveCredentialSchema: a failure is not remembered: when the services
\*   answer again, calls are allowed again.
ExchangesEnd ==
    /\ Exchange!TerminalStays
    /\ scenario = "exchange" => Exchange!AutoAcceptEnds
    /\ scenario = "presentation" => Proof!AutoAcceptDecides
    /\ scenario = "skipping gate" => Skipping!OutagePasses
=============================================================================
