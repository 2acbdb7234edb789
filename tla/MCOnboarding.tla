------------------------------ MODULE MCOnboarding --------------------------
(***************************************************************************)
(* Small instances of the parts that carry one onboarding: the validation  *)
(* of the flow (FlowValidation), for what must happen in the end, the      *)
(* protocol of the two parties (VtFlow), the anchoring and delivery of the *)
(* credential (FlowIssuance) and the view of the operator (FlowDesk).      *)
(*                                                                         *)
(* The parts are checked side by side: a behaviour runs one scenario, an   *)
(* instance of one part with its bounds, and leaves the others alone, so   *)
(* that the state spaces add up and do not multiply.                       *)
(***************************************************************************)
EXTENDS FlowIssuance

CONSTANTS
    m1, m2, Handler, Accept, Reconnect, NoTx, NoProc,   \* distinct values
    MaxStarts, MaxExchanges, MaxAdmin, MaxLost,         \* bounds of VtFlow
    MaxEdits, MaxLinks, MaxFails, MaxDowns              \* bounds of FlowDesk

ASSUME OnboardingBounds ==
    /\ m1 \in Admins
    /\ MaxStarts \in Nat /\ MaxExchanges \in Nat /\ MaxAdmin \in Nat /\ MaxLost \in Nat
    /\ MaxEdits \in Nat /\ MaxLinks \in Nat /\ MaxFails \in Nat /\ MaxDowns \in Nat

VARIABLES
    scenario,   \* what this behaviour runs
    \* FlowValidation
    state, terminated, validation, flowEntry, flowIndexed, txs, late, feed, at, loc,
    lock, line, offers, open, calls, reconnects, readFails, flowCrashes,
    \* VtFlow
    rec, xs, msgs, todo, entry, news, onboarding, starts, admin, lost,
    \* FlowDesk
    deskRec, conn, deskEntry, editing, issuing, offered, edits, links, fails, downs

flowValidationVars ==
    <<state, terminated, validation, flowEntry, flowIndexed, txs, late, feed, at, loc,
      lock, line, offers, open, calls, reconnects, readFails, flowCrashes>>
vtFlowVars ==
    <<rec, xs, msgs, todo, entry, news, onboarding, starts, admin, lost>>
flowDeskVars ==
    <<deskRec, conn, deskEntry, editing, issuing, offered, edits, links, fails,
      downs>>

Flow == INSTANCE FlowValidation WITH
    Admins <- {m1}, Txs <- {m2}, Holder <- TRUE, MaxCalls <- 1, MaxReattach <- 0,
    MaxReadFails <- 0, MaxCrashes <- 1, entry <- flowEntry, indexed <- flowIndexed,
    crashes <- flowCrashes

Round == INSTANCE VtFlow WITH Faults <- TRUE
NoAdminNorLoss == admin' = 0 /\ lost' = 0
Calm == INSTANCE VtFlow WITH Faults <- FALSE, MaxAdmin <- 0, MaxLost <- 0
Reject == INSTANCE VtFlow WITH Faults <- FALSE, MaxAdmin <- 3, MaxLost <- 0

Settling == INSTANCE FlowIssuance WITH Faults <- FALSE
OneIssuer == \A c \in Admins \ {m1} : call'[c] = Idle
TwoTx == tx'[MaxTx] = "none"

Desk == INSTANCE FlowDesk WITH
    Overlap <- FALSE, rec <- deskRec, entry <- deskEntry
Steady == INSTANCE FlowDesk WITH
    Overlap <- FALSE, MaxDowns <- 0, rec <- deskRec, entry <- deskEntry

Scenarios ==
    {"flow", "renewal", "direct issuance", "calm onboarding", "rejection",
     "anchoring", "one issuer", "settling", "desk", "steady desk"}

\* A part that is not run stays in one of its initial states.
MCInit ==
    /\ scenario \in Scenarios
    /\ Flow!Init
    /\ CASE scenario = "calm onboarding" -> Calm!Init
         [] scenario = "rejection" -> Reject!Init
         [] OTHER -> Round!Init
    /\ onboarding = (scenario \notin {"direct issuance", "rejection"})
    /\ Init
    /\ CASE scenario = "desk" -> Desk!Init
         [] scenario = "steady desk" -> Steady!Init
         [] OTHER -> Desk!Init /\ deskRec.claims = "bad"

MCNext ==
    \/ /\ scenario = "flow" /\ Flow!Next
       /\ UNCHANGED <<scenario, vtFlowVars, vars, flowDeskVars>>
    \/ /\ \/ scenario = "renewal" /\ Round!Next /\ NoAdminNorLoss
          \/ scenario = "direct issuance" /\ Round!Next
          \/ scenario = "calm onboarding" /\ Calm!Next
          \/ scenario = "rejection" /\ Reject!Next
       /\ UNCHANGED <<scenario, flowValidationVars, vars, flowDeskVars>>
    \/ /\ \/ scenario = "anchoring" /\ Next /\ TwoTx
          \/ scenario = "one issuer" /\ Next /\ OneIssuer
          \/ scenario = "settling" /\ Settling!Next /\ OneIssuer
       /\ UNCHANGED <<scenario, flowValidationVars, vtFlowVars, flowDeskVars>>
    \/ /\ \/ scenario = "desk" /\ Desk!Next
          \/ scenario = "steady desk" /\ Steady!Next
       /\ UNCHANGED <<scenario, flowValidationVars, vtFlowVars, vars>>

allVars == <<scenario, flowValidationVars, vtFlowVars, vars, flowDeskVars>>

MCSpec == MCInit /\ [][MCNext]_allVars

\* Fairness as the parts state it, of the part that is run.
MCFairSpec ==
    /\ MCSpec
    /\ WF_flowValidationVars(scenario = "flow" /\ Flow!Index)
    /\ WF_flowValidationVars(scenario = "flow" /\ Flow!HandlerStep)
    /\ \A t \in {m2} :
         /\ WF_flowValidationVars(scenario = "flow" /\ Flow!Expire(t))
         /\ WF_flowValidationVars(scenario = "flow" /\ Flow!LookupStep(t))
    /\ \A p \in Flow!Procs :
         WF_flowValidationVars(scenario = "flow" /\ (Flow!IssuanceStep(p) \/ Flow!MarkStep(p)))
    /\ WF_vtFlowVars(scenario = "calm onboarding" /\ \E m \in msgs : Calm!Receive(m))
    /\ WF_vtFlowVars(scenario = "calm onboarding" /\ \E c \in todo : Calm!Automatic(c))
    /\ \A p \in Calm!Parties : WF_vtFlowVars(scenario = "calm onboarding" /\ Calm!onValidated(p))
    /\ WF_vtFlowVars(scenario = "rejection" /\ \E m \in msgs : Reject!Receive(m))
    /\ WF_vtFlowVars(scenario = "rejection" /\ \E c \in todo : Reject!Automatic(c))
    /\ \A p \in Reject!Parties : WF_vtFlowVars(scenario = "rejection" /\ Reject!onValidated(p))
    /\ \A c \in Settling!Calls : WF_vars(scenario = "settling" /\ Settling!CallStep(c))
    /\ WF_flowDeskVars(scenario = "steady desk" /\ Steady!Agent)
    /\ WF_flowDeskVars(scenario = "steady desk" /\ Steady!txSettles)
    /\ WF_flowDeskVars(scenario = "steady desk" /\ Steady!linkExpires)
    /\ WF_flowDeskVars(scenario = "steady desk" /\ Steady!reattach)
    /\ WF_flowDeskVars(scenario = "steady desk" /\ (Steady!Asked /\ Steady!validateFlow))
    /\ WF_flowDeskVars(scenario = "steady desk" /\ (Steady!Asked /\ Steady!reissue))
    /\ WF_flowDeskVars(scenario = "steady desk" /\ (Steady!Asked /\ Steady!repair))
    /\ WF_flowDeskVars(scenario = "steady desk" /\ (Steady!Asked /\ Steady!operatorSubmits))

-----------------------------------------------------------------------------
\* The two parties of a flow and the view of the operator keep their types,
\* and:
\* - onSubprotocolStateChanged: a COMPLETED flow was completed by a
\*   credential of its current round, not by a late answer to an exchange it
\*   gave up.
\* - checkParticipantId: the applicant holds an offer or a credential only
\*   for an entry that was VALIDATED, in whichever order offer and
\*   notification come.
\* - anchor: a record that says FAILED belongs to a credential that was not
\*   delivered, if admin calls do not overlap.
\* - pendingActionOf: when the view names the validator, an operation of the
\*   admin API moves the flow.
\* - editCredentialClaims: the claims on the record are those of the
\*   credential that was offered.
OnboardingSound ==
    /\ scenario \in {"renewal", "direct issuance"} =>
           Round!TypeOK /\ Round!CompletedThisRound /\ Round!OfferNeedsEntry
    /\ scenario = "one issuer" => OneCall /\ FailedIsUndelivered
    /\ scenario = "desk" => Desk!TypeOK
    /\ scenario = "desk" => Desk!ValidatorCanAct
    /\ scenario = "desk" => Desk!OfferedIsRecorded

\* What an onboarding owes:
\* - The listeners of VtFlowModule bring a first request to a credential once
\*   the entry is VALIDATED, in whichever order request, notification and
\*   offer come.
\* - rejectFlow: when the validator rejects, the applicant's record ends too.
\* - anchor: a restart looks a SUBMITTED anchoring up and never sends it
\*   again.
\* - resumeIssuanceSubmissions: an anchoring left SUBMITTED is settled by the
\*   call that sent it or by the next start.
\* - pendingActionOf: an operator who acts only when the view says VALIDATOR
\*   brings the flow to its end or to the applicant.
OnboardingProgress ==
    /\ scenario = "calm onboarding" => Calm!RequestCompletes
    /\ scenario = "rejection" => Reject!EndIsShared
    /\ [][scenario = "one issuer" => NotBroadcastTwiceStep]_vars
    /\ scenario = "settling" => Settling!SubmittedSettles
    /\ scenario = "steady desk" => Steady!ViewDrivesFlow

\* resolveValidationTx: a flow does not stay in VALIDATION_TX_SUBMITTED, a
\* restart included.
SubmissionResolved == scenario = "flow" => Flow!SubmissionResolved
=============================================================================

