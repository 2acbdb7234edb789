------------------------------ MODULE MCTrust -------------------------------
(***************************************************************************)
(* Small instances of the parts that tie the agent to the chain: the       *)
(* published trust material (TrustStore), the onboarding at every start    *)
(* (EcsBootstrap), the cached authorizations (Authorization), the check of *)
(* the fee (FeePreflight) and the mirror of the chain (ChainMirror).       *)
(*                                                                         *)
(* The parts are checked side by side: a behaviour runs one scenario, an   *)
(* instance of one part with its bounds, and leaves the others alone, so   *)
(* that the state spaces add up and do not multiply.                       *)
(***************************************************************************)
EXTENDS Authorization

CONSTANTS
    m1, m2,   \* distinct values
    Scenarios,
    Schemas, Endpoints, MaxStoreChanges, MaxStoreFaults, MaxStoreEdits,   \* TrustStore
    Trusted, Modes, Onboarding, MaxEntries,                     \* EcsBootstrap
    MaxBootCrashes, MaxBootFails, MaxBootEvents,
    MaxAmount, MaxTime, MaxFeeChanges,                          \* FeePreflight
    Owners, MaxMirrorEvents, MaxMirrorStops, MaxRequestFails    \* ChainMirror

ASSUME BootBounds ==
    /\ Trusted \in Nat /\ MaxEntries \in Nat
    /\ MaxBootCrashes \in Nat /\ MaxBootFails \in Nat /\ MaxBootEvents \in Nat
ASSUME FeeBounds == MaxAmount \in Nat /\ MaxTime \in Nat /\ MaxFeeChanges \in Nat
ASSUME MirrorBounds ==
    MaxMirrorEvents \in Nat /\ MaxMirrorStops \in Nat /\ MaxRequestFails \in Nat

VARIABLES
    scenario,   \* what this behaviour runs
    \* TrustStore
    rec, version, owned, issuer, issuers, holder, onChain, anchored, storeNews,
    todo, copy, bound, pending, seen, stale, passed, changes, faults, edits,
    \* EcsBootstrap
    setting, usableEco, parts, view, flows, ready, handling, pc, pendingIds, plan,
    outcome, stops, txFails, chainEvents,
    \* FeePreflight
    grant, corp, own, now, step, granter, allow, fee, reason, fresh, paid,
    feeChanges,
    \* ChainMirror
    eco, cs, part, bumps, log, saved, mem, flow, hasCred, ever, reacted,
    mirrorStops, requestFails

trustStoreVars ==
    <<rec, version, owned, issuer, issuers, holder, onChain, anchored, storeNews,
      todo, copy, bound, pending, seen, stale, passed, changes, faults, edits>>
ecsBootstrapVars ==
    <<setting, usableEco, parts, view, flows, ready, handling, pc, pendingIds, plan,
      outcome, stops, txFails, chainEvents>>
feePreflightVars ==
    <<grant, corp, own, now, step, granter, allow, fee, reason, fresh, paid,
      feeChanges>>
chainMirrorVars ==
    <<eco, cs, part, bumps, log, saved, mem, flow, hasCred, ever, reacted,
      mirrorStops, requestFails>>

Store == INSTANCE TrustStore WITH
    Serial <- TRUE, MaxChanges <- MaxStoreChanges, MaxFaults <- MaxStoreFaults,
    MaxEdits <- MaxStoreEdits, news <- storeNews
Resolver == INSTANCE TrustStore WITH
    Serial <- TRUE, MaxChanges <- MaxStoreChanges, MaxFaults <- 0, MaxEdits <- 0,
    news <- storeNews

Bootstrap == INSTANCE EcsBootstrap WITH
    MaxCrashes <- MaxBootCrashes, MaxFails <- MaxBootFails, MaxEvents <- MaxBootEvents,
    todo <- pendingIds, crashes <- stops, fails <- txFails, events <- chainEvents,
    flow <- flows
Restarts == INSTANCE EcsBootstrap WITH
    Trusted <- 1, Onboarding <- {"OPEN"},
    MaxCrashes <- 1, MaxFails <- 1, MaxEvents <- 2,
    todo <- pendingIds, crashes <- stops, fails <- txFails, events <- chainEvents,
    flow <- flows

Seed == INSTANCE Authorization WITH
    Participants <- {m1}, SeedFirst <- FALSE, MaxBlocks <- 2, MaxTimeouts <- 1

Fee == INSTANCE FeePreflight WITH
    MaxChanges <- MaxFeeChanges, changes <- feeChanges

Mirror == INSTANCE ChainMirror WITH
    Dids <- Owners, MaxEvents <- MaxMirrorEvents, MaxCrashes <- MaxMirrorStops,
    MaxFails <- MaxRequestFails, Prompt <- TRUE, crashes <- mirrorStops,
    fails <- requestFails

BootstrapRest ==
    CHOOSE s \in Bootstrap!Settings :
        s.mode = "standalone" /\ s.verified /\ s.parentEco = Bootstrap!Unlisted

\* A part that is not run stays in one of its initial states.
MCInit ==
    /\ scenario \in Scenarios
    /\ CASE scenario = "store" -> Store!Init
         [] scenario = "resolver" -> Resolver!Init
         [] OTHER -> Store!Init /\ version = [s \in Schemas |-> 0] /\ ~owned /\ issuer = 0
    /\ CASE scenario = "bootstrap" -> Bootstrap!Init
         [] scenario = "restarts" -> Restarts!Init
         [] OTHER -> Bootstrap!Init /\ setting = BootstrapRest
    /\ CASE scenario = "cache" -> Init
         [] scenario = "seed" -> Seed!Init
         [] OTHER -> Init /\ hist = <<NoCache>>
    /\ CASE scenario = "fee" -> Fee!Init
         [] OTHER -> Fee!Init /\ grant = Fee!NoGrant /\ corp = 0 /\ own = 0 /\ ~granter
    /\ Mirror!Init

MCNext ==
    \/ /\ \/ scenario = "store" /\ Store!Next
          \/ scenario = "resolver" /\ Resolver!Next
       /\ UNCHANGED <<scenario, ecsBootstrapVars, vars, feePreflightVars, chainMirrorVars>>
    \/ /\ \/ scenario = "bootstrap" /\ Bootstrap!Next
          \/ scenario = "restarts" /\ Restarts!Next
       /\ UNCHANGED <<scenario, trustStoreVars, vars, feePreflightVars, chainMirrorVars>>
    \/ /\ \/ scenario = "cache" /\ Next
          \/ scenario = "seed" /\ Seed!Next
       /\ UNCHANGED <<scenario, trustStoreVars, ecsBootstrapVars, feePreflightVars, chainMirrorVars>>
    \/ /\ scenario = "fee" /\ Fee!Next
       /\ UNCHANGED <<scenario, trustStoreVars, ecsBootstrapVars, vars, chainMirrorVars>>
    \/ /\ scenario = "mirror" /\ Mirror!Next
       /\ UNCHANGED <<scenario, trustStoreVars, ecsBootstrapVars, vars, feePreflightVars>>

allVars == <<scenario, trustStoreVars, ecsBootstrapVars, vars, feePreflightVars, chainMirrorVars>>

MCSpec == MCInit /\ [][MCNext]_allVars

\* Fairness as the parts state it, of the part that is run.
MCFairSpec ==
    /\ MCSpec
    /\ WF_trustStoreVars(scenario = "resolver" /\ Resolver!dispatch)
    /\ WF_trustStoreVars(scenario = "resolver" /\ Resolver!sendTrigger)
    /\ \A t \in Resolver!Threads : WF_trustStoreVars(scenario = "resolver" /\ Resolver!ThreadStep(t))
    /\ WF_ecsBootstrapVars(scenario = "restarts" /\ Restarts!Bootstrap)
    /\ WF_ecsBootstrapVars(scenario = "restarts" /\ Restarts!startParticipantOPAutoFlow)
    /\ \A i \in Restarts!Ids : WF_ecsBootstrapVars(scenario = "restarts" /\ Restarts!autoAccept(i))
    /\ WF_vars(scenario = "seed" /\ Seed!project)
    /\ WF_vars(scenario = "seed" /\ Seed!tick)
    /\ WF_vars(scenario = "seed" /\ Seed!Refresh)
    /\ WF_vars(scenario = "seed" /\ Seed!seedAsks)
    /\ WF_vars(scenario = "seed" /\ Seed!seedEnds)

-----------------------------------------------------------------------------
\* The published trust material keeps its types, and:
\* - Whatever the DID document announces is served: no linked presentation
\*   names an entry that is gone (trustCredentialStore).
\* - reconcile: a pass during which the chain stood still and nothing failed
\*   leaves the document announcing the schemas of the controlled ecosystem,
\*   and no other.
\* Until the agent stops in the middle or an operation fails, also:
\* - removeHolderTrustCredentialIfRevoked: a revoked HOLDER's credential is
\*   gone once its notification is handled.
\* - rebindEcsCredentialSchema: a published self-issued credential is backed
\*   by the active ISSUER participant.
PublishedIsBacked ==
    /\ scenario = "store" => Store!TypeOK
    /\ scenario = "store" => Store!AnnouncedIsServed
    /\ scenario = "store" => Store!PassPublishes
    /\ scenario = "store" /\ faults = 0 => Store!RevokedHolderWithdrawn
    /\ scenario = "store" /\ faults = 0 => Store!SelfIssuedIsBacked

\* The onboarding at a start keeps its types, and:
\* - isUsableParticipant: whatever is interrupted and restarted, the agent
\*   never holds two entries of one role for one schema that could both
\*   become active.
OneEntry ==
    /\ Bootstrap!TypeOK
    /\ Bootstrap!OneEntry

\* The check of the fee keeps its types, and:
\* - preflightFee: a transaction that passed the check is not refused for its
\*   fee, if nothing changed since.
\* - feeAllowanceOf: the check stops no transaction whose fee the chain would
\*   take.
\* - feeGranterFor: whatever changed since the check, the named payer pays or
\*   nobody does.
FeeSound ==
    /\ Fee!TypeOK
    /\ Fee!CheckedFeeIsPaid
    /\ Fee!StopIsJustified
    /\ Fee!NamedPayerPays

\* The mirror of the chain keeps its types, and:
\* - applyStateMutation: when every notification is handled the mirror agrees
\*   with the chain, although handlers saw later states and ran again after a
\*   crash.
\* - defaultHandlers: the flow of a revoked participant ends, with the first
\*   outcome.
\* - reconcileVtFlowRecordsOnCancel: a cancelled renewal leaves the flow that
\*   has its credential COMPLETED.
MirrorAgrees ==
    /\ Mirror!TypeOK
    /\ Mirror!MirrorConverges
    /\ Mirror!RevokedFlowEnds
    /\ Mirror!CancelRestores

\* What was published or ended stays so:
\* - A VTJSC that was served stays served and its type metadata keeps its
\*   bytes (trustCredentialStore).
\* - resumeOnboarding: a flow that a peer ended on purpose is not begun again
\*   by a later start.
\* - terminateByChainEvent: revoked and slashed are final for a flow until a
\*   new onboarding begins.
OutcomesStay ==
    /\ Store!ServedStays
    /\ Bootstrap!EndedStays
    /\ Mirror!ChainOutcomeStays

\* What a start owes to the entries it finds:
\* - ensureSelfIssuedParticipant: an entry the agent validates itself is
\*   validated in the end, also after a stop between its two transactions.
\* - resumePendingOnboardings: every entry that is PENDING at a start gets a
\*   flow again.
\* - acceptPendingOffers: an offer or a credential that waited while the
\*   agent was down is answered.
OnboardingResumes ==
    /\ scenario = "restarts" => Restarts!SelfValidates
    /\ scenario = "restarts" => Restarts!ResumedAtBoot
    /\ scenario = "restarts" => Restarts!OffersRedriven

\* Resolver and cache catch up:
\* - triggerResolver: the resolver is told of every change of the published
\*   material in the end.
\* - delegationPage: a refresh that does not give up ends, and the cache then
\*   holds the change that asked for it.
\* - runWithRetries: however the first attempts fail, the cache comes to hold
\*   the authorizations the agent started with.
TrustCatchesUp ==
    /\ scenario = "resolver" => Resolver!ResolverCatchesUp
    /\ scenario = "seed" => Seed!RefreshEnds
    /\ scenario = "seed" => Seed!SeedCovers
=============================================================================
