------------------------------ MODULE MCOpenId ------------------------------
(***************************************************************************)
(* Small instances of the parts of the OpenID4VC plugin: the status lists  *)
(* and the offers that bind their indexes (StatusList), the set-up of the  *)
(* capabilities and the advertised types (OidIssuer), and the trust        *)
(* decision of the verifier (OidVerifier).                                 *)
(*                                                                         *)
(* The parts are checked side by side: a behaviour runs one scenario, an   *)
(* instance of one part with its bounds, and leaves the others alone, so   *)
(* that the state spaces add up and do not multiply.                       *)
(***************************************************************************)
EXTENDS OidVerifier

\* The bounds of the parts, as their modules name them.  The configuration
\* gives them their values; IssuanceSound is proved for all of them.
CONSTANTS
    Lists, Offers, Size, Lifetime, OfferTtl, CredTtl, MaxTime,   \* StatusList
    Types, MaxRegistrations, MaxRestarts                         \* OidIssuer

\* There is a list to bind an index of, time is counted in whole numbers, and
\* a status list token is not born expired.
ASSUME StatusListBounds ==
    /\ Lists # {}
    /\ Size \in Nat \ {0} /\ Lifetime \in Nat \ {0}
    /\ OfferTtl \in Nat /\ CredTtl \in Nat /\ MaxTime \in Nat

VARIABLES
    scenario,   \* what this behaviour runs
    \* StatusList
    list, entry, offer, chain, served, now,
    \* OidIssuer
    issuerAt, record, cert, doc, lock, accredited, news, options, metadata, extra,
    queue, derived, registrations, restarts

statusListVars ==
    <<list, entry, offer, chain, served, now>>
oidIssuerVars ==
    <<issuerAt, record, cert, doc, lock, accredited, news, options, metadata, extra,
      queue, derived, registrations, restarts>>

StatusLists == INSTANCE StatusList WITH
    Faults <- {"storage", "crash", "delete"}
Bindings == INSTANCE StatusList WITH
    Faults <- {"storage", "crash"}

Issuer == INSTANCE OidIssuer WITH
    Demo <- TRUE, Faults <- TRUE, MaxChanges <- MaxRegistrations,
    pc <- issuerAt, changes <- registrations
CalmIssuer == INSTANCE OidIssuer WITH
    Demo <- TRUE, Faults <- FALSE, MaxChanges <- 2, MaxRestarts <- 0,
    pc <- issuerAt, changes <- registrations

\* The module that is extended is the verifier of the scenario "verifier".
Reader == INSTANCE OidVerifier WITH
    MaxChanges <- 1

Scenarios ==
    {"status list", "bindings", "issuer", "calm issuer", "verifier", "reader"}

\* A part that is not run stays in one of its initial states.
MCInit ==
    /\ scenario \in Scenarios
    /\ CASE scenario = "bindings" -> Bindings!Init
         [] OTHER -> StatusLists!Init
    /\ CASE scenario = "issuer" -> Issuer!Init
         [] scenario = "calm issuer" -> CalmIssuer!Init
         [] OTHER -> Issuer!Init /\ accredited = {}
    /\ CASE scenario = "reader" -> Reader!Init
         [] OTHER -> Init

MCNext ==
    \/ /\ \/ scenario = "status list" /\ StatusLists!Next
          \/ scenario = "bindings" /\ Bindings!Next
       /\ UNCHANGED <<scenario, oidIssuerVars, vars>>
    \/ /\ \/ scenario = "issuer" /\ Issuer!Next
          \/ scenario = "calm issuer" /\ CalmIssuer!Next
       /\ UNCHANGED <<scenario, statusListVars, vars>>
    \/ /\ \/ scenario = "verifier" /\ Next
          \/ scenario = "reader" /\ Reader!Next
       /\ UNCHANGED <<scenario, statusListVars, oidIssuerVars>>

allVars == <<scenario, statusListVars, oidIssuerVars, vars>>

MCSpec == MCInit /\ [][MCNext]_allVars

\* Fairness as the parts state it, of the part that is run.
MCFairSpec ==
    /\ MCSpec
    /\ \A r \in CalmIssuer!Roles : WF_oidIssuerVars(scenario = "calm issuer" /\ CalmIssuer!InitStep(r))
    /\ WF_oidIssuerVars(scenario = "calm issuer" /\ CalmIssuer!DeriveStep)
    /\ WF_oidIssuerVars(scenario = "calm issuer" /\ CalmIssuer!refreshCredentialConfigurations)
    /\ \A c \in Callers :
         /\ WF_vars(scenario = "reader" /\ Reader!decide(c))
         /\ WF_vars(scenario = "reader" /\ Reader!DecisionStep(c))
    /\ \A s \in Sessions : WF_vars(scenario = "reader" /\ \E c \in Callers : Reader!findOwnedSession(c, s))

-----------------------------------------------------------------------------
\* Status lists and the set-up of issuer and verifier keep their types, and:
\* - getStatusListToken: a served token has not expired and carries the chain
\*   that signs the credentials.
\* - bindIndex: no two credentials are issued on one index of a list.
\* - publishDevelopmentSigningKey: both keys stay in the DID document once
\*   their capability is ready.
\* - setCredentialConfigurations: between two replacements the issuer redeems
\*   exactly what it advertises.
IssuanceSound ==
    /\ scenario = "status list" => StatusLists!TypeOK
    /\ scenario = "status list" => StatusLists!ServedUsable
    /\ scenario = "bindings" => Bindings!IndexBacksOne
    /\ scenario = "issuer" => Issuer!TypeOK
    /\ scenario = "issuer" => Issuer!ReadyKeyPublished
    /\ scenario = "issuer" => Issuer!AdvertisedIsServed

\* What was published is not taken back:
\* - statusListTokenRevokedIndexes: a published revocation stays, whatever
\*   signs the list again.
\* - deleteStatusList: a list goes only when every credential issued on it
\*   has expired or was revoked.
NothingTakenBack ==
    /\ StatusLists!RevocationKept
    /\ [][scenario = "bindings" => Bindings!DeletedListIsDeadStep]_statusListVars

\* What is open is settled:
\* - refreshCredentialConfigurations: the advertised types end up the
\*   accredited ones, wherever notifications fall.
\* - decide: RESOLVER_UNAVAILABLE is never the last word on a session that is
\*   read again.
OpenIsSettled ==
    /\ scenario = "calm issuer" => CalmIssuer!Converges
    /\ scenario = "reader" => Reader!Decided
=============================================================================
