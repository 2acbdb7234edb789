------------------------- MODULE CredentialExchange -------------------------
(***************************************************************************)
(* One credential exchange over DIDComm, with this agent as issuer or as   *)
(* holder: the admin calls that create, accept, decline and delete it, the *)
(* messages of the peer, and the events of its end.  The admin calls read  *)
(* the record, await, and write it; the messages of the peer are handled   *)
(* in between.                                                             *)
(***************************************************************************)
EXTENDS Naturals, Sequences, FiniteSets

CONSTANTS
    Atomic,      \* no message of the peer between the read and the write of a decline
    MaxCrashes   \* bound: stops of the process

VARIABLES
    role,        \* "issuer" or "holder"
    autoAccept,  \* of the offer
    state,       \* of the exchange record, "none" before and "deleted" after it
    error,       \* the record has an error message
    peer,        \* what the peer did last
    call,        \* the admin call in progress
    active,      \* the issuer of the offer holds an active ISSUER participant
    flow,        \* trust credential flow that names the exchange: "none", "live", "ended"
    linked,      \* the flow names the exchange
    kept,        \* credential id the flow keeps for itself
    ends,        \* CredentialReceptionMessage events sent
    crashes

vars == <<role, autoAccept, state, error, peer, call, active, flow, linked, kept, ends, crashes>>
flowVars == <<flow, linked, kept>>

TERMINAL_STATES == {"done", "declined", "abandoned"}
IssuerStates == {"offer-sent", "request-received", "credential-issued"}
HolderStates == {"offer-received", "request-sent", "credential-received"}
NoCall == [op |-> "none", saw |-> "none"]

Init ==
    /\ role \in {"issuer", "holder"} /\ autoAccept \in BOOLEAN
    /\ state = "none" /\ error = FALSE /\ peer = "none" /\ call = NoCall
    /\ active \in BOOLEAN /\ flow = "none" /\ linked = FALSE /\ kept = FALSE
    /\ ends = <<>> /\ crashes = 0

Start(op) == call = NoCall /\ call' = [op |-> op, saw |-> state]

\* baseMessageEvents: a terminal state becomes a CredentialReceptionMessage, and
\* an exchange the peer refused is reported as declined.
DidCommCredentialStateChanged(s, refused) ==
    ends' = IF s \notin TERMINAL_STATES THEN ends
            ELSE Append(ends, IF s = "abandoned" /\ refused THEN "declined" ELSE s)

SetState(s) == state' = s /\ DidCommCredentialStateChanged(s, FALSE)

-----------------------------------------------------------------------------
\* Issuer.

\* createCredentialOffer: the checks of the body and of the own participant
\* come before the record (AnonCredsTrust models the latter).
createCredentialOffer ==
    /\ role = "issuer" /\ state = "none" /\ active
    /\ SetState("offer-sent") /\ peer' = "offered"
    /\ UNCHANGED <<role, autoAccept, error, call, active, flowVars, crashes>>

requestArrives ==
    /\ role = "issuer" /\ state = "offer-sent" /\ peer = "offered"
    /\ SetState(IF autoAccept THEN "credential-issued" ELSE "request-received")
    /\ peer' = IF autoAccept THEN "issued" ELSE "requested"
    /\ UNCHANGED <<role, autoAccept, error, call, active, flowVars, crashes>>

acceptCredentialRequest ==
    /\ role = "issuer" /\ state = "request-received" /\ call = NoCall
    /\ SetState("credential-issued") /\ peer' = "issued"
    /\ UNCHANGED <<role, autoAccept, error, call, active, flowVars, crashes>>

ackArrives ==
    /\ role = "issuer" /\ state = "credential-issued" /\ peer = "issued"
    /\ Atomic => call.op # "decline"
    /\ SetState("done") /\ peer' = "acked"
    /\ UNCHANGED <<role, autoAccept, error, call, active, flowVars, crashes>>

-----------------------------------------------------------------------------
\* Holder.

offerArrives ==
    /\ role = "holder" /\ state = "none" /\ SetState("offer-received") /\ peer' = "offered"
    /\ flow' \in {"none", "live"} /\ linked' = (flow' = "live") /\ UNCHANGED kept
    /\ UNCHANGED <<role, autoAccept, error, call, active, crashes>>

\* acceptCredentialOffer: the state, then the participant of the issuer, which
\* is read with awaits, then acceptOffer on the record as it is by then.
acceptCredentialOffer ==
    \/ /\ role = "holder" /\ state = "offer-received" /\ Start("acceptOffer")
       /\ UNCHANGED <<role, autoAccept, state, error, peer, active, flowVars, ends, crashes>>
    \/ /\ call.op = "acceptOffer" /\ call' = NoCall
       /\ IF active /\ state = "offer-received"
          THEN SetState("request-sent") /\ peer' = "requested"
          ELSE UNCHANGED <<state, ends, peer>>
       /\ UNCHANGED <<role, autoAccept, error, active, flowVars, crashes>>

credentialArrives ==
    /\ role = "holder" /\ state = "request-sent" /\ peer = "requested"
    /\ SetState("credential-received") /\ peer' = "issued"
    /\ UNCHANGED <<role, autoAccept, error, call, active, flowVars, crashes>>

acceptCredential ==
    /\ role = "holder" /\ state = "credential-received" /\ call = NoCall
    /\ SetState("done") /\ peer' = "acked"
    /\ UNCHANGED <<role, autoAccept, error, call, active, flowVars, crashes>>

-----------------------------------------------------------------------------
\* The peer gives up: a problem report ends the exchange in abandoned.
problemReportArrives ==
    /\ state \in IssuerStates \cup HolderStates /\ peer # "acked"
    /\ Atomic => call.op # "decline"
    /\ state' = "abandoned" /\ error' = TRUE /\ peer' = "refused"
    /\ DidCommCredentialStateChanged("abandoned", TRUE)
    /\ UNCHANGED <<role, autoAccept, call, active, flowVars, crashes>>

\* Mutant: the state is not looked at.
declineAny ==
    \/ /\ state # "none" /\ state # "deleted" /\ Start("decline")
       /\ UNCHANGED <<role, autoAccept, state, error, peer, active, flowVars, ends, crashes>>
    \/ /\ call.op = "decline" /\ call' = NoCall /\ state # "deleted" /\ SetState("declined")
       /\ UNCHANGED <<role, autoAccept, error, peer, active, flowVars, crashes>>

\* declineCredentialExchange: the record is read, the report is sent, and the
\* record that was read is written with the new state.  An offer that was
\* received is declined by the library, on the record as it is by then.
declineCredentialExchange ==
    \/ /\ state \notin TERMINAL_STATES \cup {"none", "deleted"} /\ Start("decline")
       /\ UNCHANGED <<role, autoAccept, state, error, peer, active, flowVars, ends, crashes>>
    \/ /\ call.op = "decline" /\ call' = NoCall
       /\ IF state = "deleted" \/ (call.saw = "offer-received" /\ state # call.saw)
          THEN UNCHANGED <<state, ends, error>>
          ELSE SetState("declined") /\ error' \in BOOLEAN
       /\ UNCHANGED <<role, autoAccept, peer, active, flowVars, crashes>>

\* deleteCredentialExchange: refused while a flow is live; the flow keeps the
\* credential id and lets go of the exchange, then the record is deleted.
deleteCredentialExchange ==
    \/ /\ state \notin {"none", "deleted"} /\ flow # "live" /\ Start("delete")
       /\ linked' = FALSE /\ kept' = (kept \/ linked)
       /\ UNCHANGED <<role, autoAccept, state, error, peer, active, flow, ends, crashes>>
    \/ /\ call.op = "delete" /\ call' = NoCall /\ state' = "deleted"
       /\ UNCHANGED <<role, autoAccept, error, peer, active, flowVars, ends, crashes>>

-----------------------------------------------------------------------------
flowEnds ==
    /\ flow = "live" /\ flow' = "ended"
    /\ UNCHANGED <<role, autoAccept, state, error, peer, call, active, linked, kept, ends, crashes>>

participantChanges ==
    /\ state = "none" /\ active' = ~active
    /\ UNCHANGED <<role, autoAccept, state, error, peer, call, flowVars, ends, crashes>>

crash ==
    /\ crashes < MaxCrashes /\ crashes' = crashes + 1 /\ call' = NoCall
    /\ UNCHANGED <<role, autoAccept, state, error, peer, active, flowVars, ends>>

PeerStep == requestArrives \/ ackArrives

Next ==
    \/ createCredentialOffer \/ PeerStep \/ acceptCredentialRequest
    \/ offerArrives \/ acceptCredentialOffer \/ credentialArrives \/ acceptCredential
    \/ problemReportArrives \/ declineCredentialExchange \/ deleteCredentialExchange
    \/ flowEnds \/ participantChanges \/ crash

Spec == Init /\ [][Next]_vars

\* The peer answers, and a call of the admin API comes to its end.
Fairness ==
    WF_vars(PeerStep) /\ WF_vars(declineCredentialExchange /\ call # NoCall)

FairSpec == Spec /\ Fairness

-----------------------------------------------------------------------------
TypeOK ==
    /\ state \in IssuerStates \cup HolderStates \cup TERMINAL_STATES \cup {"none", "deleted"}
    /\ {error, active, linked, kept, autoAccept} \subseteq BOOLEAN
    /\ flow \in {"none", "live", "ended"}
    /\ (role = "issuer" => state \notin HolderStates) /\ (role = "holder" => state \notin IssuerStates)

\* declineCredentialExchange, "The exchange is in a terminal state" is its 409:
\* an exchange that ended does not end again in another way, and its end is
\* announced once.
TerminalStays ==
    [][(state \in TERMINAL_STATES) => (state' \in {state, "deleted"} /\ ends' = ends)]_vars

\* deleteCredentialExchange, [VSA-VT-LVP-3]: a flow never names an exchange that
\* is gone, also after a stop in the middle.
NoDangling == linked => state # "deleted"

\* createCredentialOffer with autoAccept: the issuer steps need no call, so an
\* exchange with a peer that answers ends.
AutoAcceptEnds ==
    (role = "issuer" /\ autoAccept /\ state = "offer-sent") ~> (state \in TERMINAL_STATES \cup {"deleted"})

=============================================================================
