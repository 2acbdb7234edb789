------------------------------ MODULE FlowDesk ------------------------------
(***************************************************************************)
(* What the admin API tells the operator of a validator about one flow of  *)
(* a HOLDER, and what it lets the operator do: pendingActionOf names the   *)
(* party that must act, connectionStateOf the state of the connection, and *)
(* sendOobLink, startValidation, editCredentialClaims, validateFlow and    *)
(* rejectFlow each accept the flow in states of their own.                 *)
(*                                                                         *)
(* updateClaims reads the record and writes all of it back in two calls.   *)
(* The transaction itself is in FlowValidation, the anchoring in           *)
(* FlowIssuance; both are one step here.                                   *)
(***************************************************************************)
EXTENDS Naturals

CONSTANTS
    Overlap,         \* an edit of the claims can overlap with other calls
    MaxEdits,        \* bound: edits that do not repair the claims
    MaxLinks,        \* bound: oob-links
    MaxFails,        \* bound: transactions that fail
    MaxDowns         \* bound: times the connection is lost

VARIABLES
    rec,             \* the flow record: state, claims, oobLink, issuance.tx
    conn,            \* the connection is ready
    entry,           \* op_state of the applicant's entry
    editing,         \* updateClaims under way: the record as read, the new claims
    issuing,         \* continueAfterValidated under way: the claims it has read
    offered,         \* the claims of the credential that was offered
    edits, links, fails, downs

vars == <<rec, conn, entry, editing, issuing, offered, edits, links, fails, downs>>
bounds == <<edits, links, fails, downs>>

\* Two sets of claims satisfy the schema, and one does not.
Good == {"a", "b"}
Claims == Good \cup {"bad"}
VtFlowValidatedFromStates ==
    {"AWAITING_OR", "VALIDATING", "OOB_PENDING", "AWAITING_VALIDATION_TX",
     "VALIDATION_TX_SUBMITTED", "VALIDATION_TX_FAILED"}
EDIT_CLAIMS_STATES == (VtFlowValidatedFromStates \ {"AWAITING_OR"}) \cup {"VALIDATED_PENDING_CLAIMS"}
REJECT_STATES == VtFlowValidatedFromStates \ {"VALIDATION_TX_SUBMITTED"}
VALIDATOR_STATES ==
    {"VALIDATING", "AWAITING_VALIDATION_TX", "VALIDATION_TX_FAILED", "VALIDATED_PENDING_CLAIMS"}
Ended == {"COMPLETED", "TERMINATED_BY_VALIDATOR"}

NoEdit == [at |-> "idle", copy |-> "none", claims |-> "none"]
Quiet == editing = NoEdit
Alone == Overlap \/ (Quiet /\ issuing.at = "idle")

\* updateState: leaving OOB_PENDING clears the link.
Moved(r, s) == [r EXCEPT !.state = s, !.link = IF r.state = "OOB_PENDING" /\ s # "OOB_PENDING" THEN "none" ELSE @]
Move(s) == rec' = Moved(rec, s)

\* pendingActionOf, for the validator's record of a HOLDER.
pendingActionOf(r) ==
    CASE r.state \in Ended -> "NONE"
      [] r.state \in {"AWAITING_OR", "VALIDATED"} -> "AGENT"
      [] r.state = "OOB_PENDING" -> IF r.link = "expired" THEN "VALIDATOR" ELSE "APPLICANT"
      [] r.state \in VALIDATOR_STATES -> "VALIDATOR"
      [] r.state = "VALIDATION_TX_SUBMITTED" -> "CHAIN"
      [] r.state = "CRED_OFFERED" -> IF r.tx = "FAILED" THEN "VALIDATOR" ELSE "AGENT"

connectionStateOf(r) ==
    IF r.state \in Ended \ {"COMPLETED"} THEN "TERMINATED" ELSE IF conn THEN "ESTABLISHED" ELSE "NOT_CONNECTED"

Init ==
    /\ \E c \in Claims : rec = [state |-> "AWAITING_OR", claims |-> c, link |-> "none", tx |-> "none"]
    /\ conn = TRUE /\ entry = "PENDING" /\ editing = NoEdit
    /\ issuing = [at |-> "idle", claims |-> "none"] /\ offered = "none"
    /\ edits = 0 /\ links = 0 /\ fails = 0 /\ downs = 0

\* The agent accepts the request by itself.
acceptOnboardingRequest ==
    /\ rec.state = "AWAITING_OR" /\ entry = "PENDING" /\ Move("VALIDATING")
    /\ UNCHANGED <<conn, entry, editing, issuing, offered, bounds>>

\* sendOobLink, with a time after which the link expires or without.
sendOobLink ==
    /\ Alone /\ conn /\ rec.state \in {"VALIDATING", "OOB_PENDING"} /\ links < MaxLinks /\ links' = links + 1
    /\ \E l \in {"open", "expires"} : rec' = [rec EXCEPT !.state = "OOB_PENDING", !.link = l]
    /\ UNCHANGED <<conn, entry, editing, issuing, offered, edits, fails, downs>>
linkExpires ==
    /\ rec.link = "expires" /\ Quiet /\ rec' = [rec EXCEPT !.link = "expired"]
    /\ UNCHANGED <<conn, entry, editing, issuing, offered, bounds>>
startValidation ==
    /\ Alone /\ conn /\ rec.state = "OOB_PENDING" /\ Move("VALIDATING")
    /\ UNCHANGED <<conn, entry, editing, issuing, offered, bounds>>

\* editCredentialClaims: the checks and the read of updateClaims.
editCredentialClaims(c) ==
    /\ Alone /\ Quiet /\ conn /\ rec.state \in EDIT_CLAIMS_STATES /\ c # rec.claims
    /\ IF rec.claims = "bad" THEN UNCHANGED edits ELSE edits < MaxEdits /\ edits' = edits + 1
    /\ editing' = [at |-> "write", copy |-> rec, claims |-> c]
    /\ UNCHANGED <<rec, conn, entry, issuing, offered, links, fails, downs>>
\* The record as it was read is written back, with the new claims.
updateClaims ==
    /\ editing.at = "write" /\ rec' = [editing.copy EXCEPT !.claims = editing.claims]
    /\ editing' = NoEdit /\ UNCHANGED <<conn, entry, issuing, offered, bounds>>

Issue == issuing' = [at |-> "read", claims |-> "none"]
\* validateFlow's checks: the state, for the entry as it is, and the claims.
ValidateStates ==
    {"VALIDATING", "OOB_PENDING", "VALIDATION_TX_FAILED", "VALIDATED_PENDING_CLAIMS"}
        \cup (IF entry = "VALIDATED" THEN {"AWAITING_OR", "AWAITING_VALIDATION_TX", "VALIDATION_TX_SUBMITTED", "VALIDATED"}
              ELSE {})
ReissueAccepted == rec.state = "CRED_OFFERED" /\ rec.tx = "FAILED"
ValidateAccepted ==
    rec.state \in ValidateStates /\ rec.claims \in Good /\ (rec.state = "OOB_PENDING" => conn)

\* validateFlow: resume into issuance, leave it to an operator of the
\* Corporation, or submit the transaction, whose broadcast may fail.
validateFlow ==
    /\ Alone /\ ValidateAccepted /\ issuing.at = "idle"
    /\ IF rec.state = "VALIDATED_PENDING_CLAIMS" THEN Issue /\ UNCHANGED <<rec, fails>>
       ELSE IF entry = "VALIDATED" THEN Move("VALIDATED") /\ Issue /\ UNCHANGED fails
       ELSE /\ \/ Move("AWAITING_VALIDATION_TX") /\ UNCHANGED fails
               \/ Move("VALIDATION_TX_SUBMITTED") /\ UNCHANGED fails
               \/ fails < MaxFails /\ fails' = fails + 1 /\ Move("VALIDATION_TX_FAILED")
            /\ UNCHANGED issuing
    /\ UNCHANGED <<conn, entry, editing, offered, edits, links, downs>>

\* validateFlow of an offered credential whose anchoring failed.
reissue ==
    /\ Alone /\ ReissueAccepted /\ rec' = [rec EXCEPT !.tx = "none"]
    /\ UNCHANGED <<conn, entry, editing, issuing, offered, bounds>>

rejectFlow ==
    /\ Alone /\ rec.state \in REJECT_STATES /\ entry = "PENDING" /\ Move("TERMINATED_BY_VALIDATOR")
    /\ UNCHANGED <<conn, entry, editing, issuing, offered, bounds>>

\* An operator of the Corporation submits the transaction.
operatorSubmits ==
    /\ rec.state = "AWAITING_VALIDATION_TX" /\ entry = "PENDING" /\ entry' = "VALIDATED"
    /\ UNCHANGED <<rec, conn, editing, issuing, offered, bounds>>
\* The transaction of the agent is included, or it fails.
txSettles ==
    /\ rec.state = "VALIDATION_TX_SUBMITTED" /\ entry = "PENDING"
    /\ \/ entry' = "VALIDATED" /\ UNCHANGED <<rec, fails>>
       \/ Quiet /\ fails < MaxFails /\ fails' = fails + 1 /\ Move("VALIDATION_TX_FAILED") /\ UNCHANGED entry
    /\ UNCHANGED <<conn, editing, issuing, offered, edits, links, downs>>
\* The notification, or the lookup of the transaction: markValidated, and on
\* to the issuance.
markValidated ==
    /\ entry = "VALIDATED" /\ rec.state \in VtFlowValidatedFromStates /\ Alone
    /\ Move("VALIDATED") /\ Issue /\ UNCHANGED <<conn, entry, editing, offered, bounds>>

\* issuanceAfterValidated: the record is read; without good claims it waits
\* for them, and without a connection the offer throws and nothing follows.
issuanceAfterValidated ==
    /\ issuing.at = "read"
    /\ IF rec.state \notin {"VALIDATED", "VALIDATED_PENDING_CLAIMS"}
       THEN issuing' = [at |-> "idle", claims |-> "none"] /\ UNCHANGED rec
       ELSE IF rec.claims = "bad"
       THEN Move("VALIDATED_PENDING_CLAIMS") /\ issuing' = [at |-> "idle", claims |-> "none"]
       ELSE UNCHANGED rec /\ issuing' = IF conn THEN [at |-> "attach", claims |-> rec.claims]
                                        ELSE [at |-> "idle", claims |-> "none"]
    /\ UNCHANGED <<conn, entry, editing, offered, bounds>>
\* The offer is out; attachCredentialExchangeRecord, if the state still allows it.
attach ==
    /\ issuing.at = "attach" /\ issuing' = [at |-> "idle", claims |-> "none"]
    /\ offered' = issuing.claims
    /\ IF rec.state \in {"VALIDATED", "VALIDATED_PENDING_CLAIMS"}
       THEN rec' = [Moved(rec, "CRED_OFFERED") EXCEPT !.tx = "none"] ELSE UNCHANGED rec
    /\ UNCHANGED <<conn, entry, editing, bounds>>
\* The credential is anchored and accepted, or the anchoring fails.
anchor ==
    /\ rec.state = "CRED_OFFERED" /\ rec.tx = "none" /\ Quiet
    /\ \/ Move("COMPLETED") /\ UNCHANGED fails
       \/ fails < MaxFails /\ fails' = fails + 1 /\ rec' = [rec EXCEPT !.tx = "FAILED"]
    /\ UNCHANGED <<conn, entry, editing, issuing, offered, edits, links, downs>>

loseConnection ==
    /\ conn /\ downs < MaxDowns /\ downs' = downs + 1 /\ conn' = FALSE
    /\ UNCHANGED <<rec, entry, editing, issuing, offered, edits, links, fails>>
\* The applicant is back and sends its request again: an offer is released.
reattach ==
    /\ ~conn /\ conn' = TRUE /\ Quiet
    /\ rec' = IF rec.state = "CRED_OFFERED" THEN [Moved(rec, "VALIDATED") EXCEPT !.tx = "none"] ELSE rec
    /\ UNCHANGED <<entry, editing, issuing, offered, bounds>>

Agent == acceptOnboardingRequest \/ updateClaims \/ markValidated \/ issuanceAfterValidated \/ attach \/ anchor
Asked == pendingActionOf(rec) = "VALIDATOR"
repair == rec.claims = "bad" /\ \E c \in Good : editCredentialClaims(c)
Next ==
    \/ Agent \/ sendOobLink \/ linkExpires \/ startValidation \/ validateFlow \/ reissue \/ rejectFlow
    \/ (\E c \in Claims : editCredentialClaims(c))
    \/ operatorSubmits \/ txSettles \/ loseConnection \/ reattach
Spec == Init /\ [][Next]_vars
\* The agent does its part, the chain settles transactions, a link expires,
\* the applicant reconnects, and the operator acts when the view asks for it.
Fairness ==
    /\ WF_vars(Agent) /\ WF_vars(txSettles) /\ WF_vars(linkExpires)
    /\ WF_vars(reattach)
    /\ WF_vars(Asked /\ validateFlow) /\ WF_vars(Asked /\ reissue)
    /\ WF_vars(Asked /\ repair) /\ WF_vars(Asked /\ operatorSubmits)

FairSpec == Spec /\ Fairness

-----------------------------------------------------------------------------
\* The record, and the calls that work on it, are well formed; a link is on
\* the record exactly while it is outstanding ("Cleared on every transition
\* out of OOB_PENDING").
TypeOK ==
    /\ rec.state \in VtFlowValidatedFromStates \cup Ended \cup {"VALIDATED", "VALIDATED_PENDING_CLAIMS", "CRED_OFFERED"}
    /\ rec.claims \in Claims /\ rec.tx \in {"none", "FAILED"}
    /\ (rec.link # "none") <=> (rec.state = "OOB_PENDING")
    /\ issuing.at \in {"idle", "read", "attach"} /\ editing.at \in {"idle", "write"}
    /\ offered \in Good \cup {"none"} /\ entry \in {"PENDING", "VALIDATED"}

\* When the view says that the validator must act and the connection is
\* established, some call moves the flow on: a flow never waits for an
\* operator whom every operation refuses.
Repairable == rec.claims \in Good \/ rec.state \in EDIT_CLAIMS_STATES
ValidatorCanAct ==
    (Asked /\ connectionStateOf(rec) = "ESTABLISHED") =>
        \/ ReissueAccepted \/ rec.state = "AWAITING_VALIDATION_TX"
        \/ rec.state \in ValidateStates /\ Repairable

\* The claims on the record are the ones of the credential that was offered:
\* the operator replaces them "before the credential is offered" only.
OfferedIsRecorded == rec.state \in {"CRED_OFFERED", "COMPLETED"} => rec.claims = offered

\* pendingAction is "the party that must act for the flow to progress": with
\* an operator who acts only when it says VALIDATOR, the flow ends or waits
\* for the applicant.
ViewDrivesFlow == <>[](rec.state \in Ended \/ pendingActionOf(rec) = "APPLICANT")
=============================================================================
