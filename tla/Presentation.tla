---------------------------- MODULE Presentation ----------------------------
(***************************************************************************)
(* One presentation exchange over DIDComm with this agent as verifier: the *)
(* request and what it records of the CredentialSchemas it asks for, the   *)
(* trust decision on the presentation, which runs as a middleware of the   *)
(* message and reads registry and indexer, the acknowledgement, and the    *)
(* calls of the admin API.                                                 *)
(***************************************************************************)
EXTENDS Naturals, FiniteSets

CONSTANTS
    Groups,      \* groups of attributes a request asks for
    SlowPeer,    \* the presentation arrives after the request is recorded
    DuringCheck  \* admin calls that run while the trust decision does

VARIABLES
    state,       \* of the exchange record
    verified,    \* isVerified of the record
    meta,        \* groups whose CredentialSchema the record names
    creating,    \* createPresentationRequest sent the request and did not record it yet
    autoAccept,
    presented,   \* what the presentation holds for each group
    check,       \* the trust decision: "idle", "running", "abandon", "accept"
    seen,        \* the record as the trust decision read it
    decided,     \* ghost: outcome of the trust decision
    acked,       \* the presentation was acknowledged
    cause        \* code of the trust problem

vars == <<state, verified, meta, creating, autoAccept, presented, check, seen, decided, acked, cause>>

TERMINAL_STATES == {"done", "declined", "abandoned"}

\* What the check finds for a group: no sub-proof, a credential of another
\* CredentialSchema or without issuer, an issuer that is or is not accredited,
\* or a registry or indexer that does not answer.
Answers == {"missing", "otherSchema", "noIssuer", "accredited", "unaccredited", "unreachable"}

NoRecord == [state |-> "none", verified |-> FALSE, meta |-> {}]

Init ==
    /\ state = "none" /\ verified = FALSE /\ meta = {} /\ creating = FALSE
    /\ autoAccept \in BOOLEAN /\ presented \in [Groups -> Answers]
    /\ check = "idle" /\ seen = NoRecord /\ decided = "none" /\ acked = FALSE /\ cause = "none"

\* uniqueKey: two entries that resolve to schemas of one name are two groups.
uniqueKey == Groups

-----------------------------------------------------------------------------

\* The request is sent, then the CredentialSchemas are recorded, with the record
\* as it was when it was sent.
createPresentationRequest ==
    \/ /\ state = "none" /\ state' = "request-sent" /\ creating' = TRUE
       /\ UNCHANGED <<verified, meta, autoAccept, presented, check, seen, decided, acked, cause>>
    \/ /\ creating /\ creating' = FALSE /\ meta' = uniqueKey /\ state' = "request-sent"
       /\ UNCHANGED <<verified, autoAccept, presented, check, seen, decided, acked, cause>>

\* The presentation is verified when it arrives; an invalid one ends the exchange.
presentationArrives ==
    /\ state = "request-sent" /\ check = "idle" /\ (SlowPeer => ~creating)
    /\ \E valid \in BOOLEAN :
        /\ verified' = valid
        /\ state' = IF valid THEN "presentation-received" ELSE "abandoned"
        /\ check' = IF valid THEN "running" ELSE "idle"
        /\ seen' = IF valid THEN [state |-> state', verified |-> valid, meta |-> meta] ELSE NoRecord
    /\ UNCHANGED <<meta, creating, autoAccept, presented, decided, acked, cause>>

problemReportArrives ==
    /\ state = "request-sent" /\ ~creating /\ check = "idle" /\ state' = "abandoned"
    /\ UNCHANGED <<verified, meta, creating, autoAccept, presented, check, seen, decided, acked, cause>>

-----------------------------------------------------------------------------
\* The trust decision.

Unaccredited == {g \in seen.meta : presented[g] \in {"missing", "otherSchema", "noIssuer", "unaccredited"}}
Unchecked == {g \in seen.meta : presented[g] = "unreachable"}

\* A request that recorded no CredentialSchema cannot be checked.
applyAnonCredsTrustDecision ==
    /\ check = "running"
    /\ LET code == IF Unaccredited # {} THEN "issuer-not-authorized"
                   ELSE IF Unchecked # {} \/ seen.meta = {} THEN "trust-resolution-unavailable"
                   ELSE "none" IN
       /\ cause' = code
       /\ check' = IF code = "none" THEN "accept" ELSE "abandon"
       /\ decided' = IF code = "none" THEN "passed" ELSE "failed"
    /\ UNCHANGED <<state, verified, meta, creating, autoAccept, presented, seen, acked>>

\* The problem report is sent, then the record that was read is written.
abandonPresentation ==
    /\ check = "abandon" /\ check' = "idle"
    /\ verified' = FALSE /\ state' = "abandoned" /\ meta' = seen.meta /\ seen' = NoRecord
    /\ UNCHANGED <<creating, autoAccept, presented, decided, acked, cause>>

\* Mutant: the presentation is acknowledged before the decision.
ackFirst ==
    /\ check \in {"running", "accept"} /\ state = "presentation-received"
    /\ check' = "idle" /\ seen' = NoRecord /\ state' = "done" /\ acked' = TRUE
    /\ UNCHANGED <<verified, meta, creating, autoAccept, presented, decided, cause>>

\* The middleware acknowledges what passed, if the request said so.
registerAnonCredsTrustDecision ==
    /\ check = "accept" /\ check' = "idle" /\ seen' = NoRecord
    /\ IF autoAccept /\ seen.state = "presentation-received" /\ state = "presentation-received"
       THEN state' = "done" /\ acked' = TRUE
       ELSE UNCHANGED <<state, acked>>
    /\ UNCHANGED <<verified, meta, creating, autoAccept, presented, decided, cause>>

-----------------------------------------------------------------------------
\* Admin calls.

acceptPresentation ==
    /\ state = "presentation-received" /\ (check # "idle" => "accept" \in DuringCheck)
    /\ state' = "done" /\ acked' = TRUE
    /\ UNCHANGED <<verified, meta, creating, autoAccept, presented, check, seen, decided, cause>>

\* Its read and its write are one step here: CredentialExchange splits the
\* same code at its await.
declinePresentationExchange ==
    /\ state \notin TERMINAL_STATES \cup {"none", "deleted"} /\ ~creating
    /\ check # "idle" => "decline" \in DuringCheck
    /\ state' = "declined"
    /\ UNCHANGED <<verified, meta, creating, autoAccept, presented, check, seen, decided, acked, cause>>

deletePresentation ==
    /\ state \notin {"none", "deleted"} /\ ~creating /\ check = "idle" /\ state' = "deleted"
    /\ UNCHANGED <<verified, meta, creating, autoAccept, presented, check, seen, decided, acked, cause>>

Decide == applyAnonCredsTrustDecision \/ abandonPresentation \/ registerAnonCredsTrustDecision

Next ==
    \/ createPresentationRequest \/ presentationArrives \/ problemReportArrives
    \/ Decide \/ acceptPresentation \/ declinePresentationExchange \/ deletePresentation

Spec == Init /\ [][Next]_vars

\* The trust decision that runs comes to its end.
Fairness == WF_vars(Decide)

FairSpec == Spec /\ Fairness

-----------------------------------------------------------------------------
TypeOK ==
    /\ state \in TERMINAL_STATES \cup {"none", "request-sent", "presentation-received", "deleted"}
    /\ meta \subseteq Groups /\ check \in {"idle", "running", "abandon", "accept"}
    /\ decided \in {"none", "passed", "failed"} /\ {verified, acked} \subseteq BOOLEAN
    /\ check # "idle" => seen.state # "none"

\* "The proof and the trust decision both succeeded, so the agent acknowledges
\* the presentation": no presentation is acknowledged whose issuers were not
\* all found accredited.
AckNeedsDecision == acked => decided = "passed"

\* applyAnonCredsTrustDecision: a presentation whose issuers are all accredited
\* is not abandoned for want of trust: the request recorded what it asks for.
HonestNotAbandoned ==
    cause # "none" => \E g \in Groups : presented[g] # "accredited"

\* abandonPresentation: once a check failed and the decision ended, the exchange
\* does not stand as verified.
FailedNotVerified ==
    (decided = "failed" /\ check = "idle") => ~verified /\ state # "presentation-received"

\* autoAccept: a presentation that was received is acknowledged or ended without
\* a call, whether registry and indexer answer or not.
AutoAcceptDecides ==
    (autoAccept /\ state = "presentation-received") ~> (state # "presentation-received")

=============================================================================
