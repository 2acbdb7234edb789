------------------------------- MODULE VtFlow -------------------------------
(***************************************************************************)
(* The vt-flow protocol between one applicant and one validator, for one   *)
(* participant session of a HOLDER: the two flow records, the messages in  *)
(* flight, and the Issue Credential exchanges that run below the flow.     *)
(*                                                                         *)
(* One method of VtFlowService is one step.  A listener of VtFlowModule    *)
(* runs after the event that wakes it, so what it goes on to call is kept  *)
(* in `todo' and happens in a later step; offerCredentialForSession is two *)
(* steps, as the flow moves only after the offer was sent.                 *)
(*                                                                         *)
(* Messages are delivered in any order and can be lost.  The validator's   *)
(* own transaction, rejected flows and claims are in FlowValidation; the   *)
(* anchoring of the credential is one step here and is in FlowIssuance.    *)
(* The credential exchange is Credo's, modelled from how the flow uses it. *)
(***************************************************************************)
EXTENDS Naturals, FiniteSets

CONSTANTS
    Faults,       \* checks, anchoring and offers can fail; Credo can decline
    MaxStarts,    \* bound: calls of startOnboardingProcess
    MaxExchanges, \* bound: credential exchanges
    MaxAdmin,     \* bound: admin calls on the validator
    MaxLost       \* bound: lost messages

VARIABLES
    rec,     \* per party, its flow record
    xs,      \* per party and exchange, its credential exchange record
    msgs,    \* messages in flight
    todo,    \* calls the listeners go on to make
    entry,   \* op_state of the applicant's entry on the chain; RENEWED is a
             \* PENDING that follows a VALIDATED
    news,    \* per party, the chain notifications it has yet to handle
    onboarding, \* the variant of the flow: onboarding process, else direct
                \* issuance; no step changes it
    starts, admin, lost

bounds == <<onboarding, starts, admin, lost>>
chain  == <<entry, news>>
vars   == <<rec, xs, msgs, todo, chain, bounds>>

Parties == {"applicant", "validator"}
Peer(p) == IF p = "applicant" THEN "validator" ELSE "applicant"
Exchanges == 1..MaxExchanges
PendingEntry == {"PENDING", "RENEWED"}

VtFlowTerminalStates ==
    {"TERMINATED_BY_VALIDATOR", "TERMINATED_BY_APPLICANT", "ERROR",
     "PARTICIPANT_REVOKED"}

VtFlowState ==
    VtFlowTerminalStates \cup
    {"NONE", "OR_SENT", "AWAITING_OR", "IR_SENT", "AWAITING_IR",
     "OOB_PENDING", "VALIDATING", "VALIDATED", "VALIDATED_PENDING_CLAIMS",
     "CRED_OFFERED", "COMPLETED", "CRED_REVOKED"}

\* isVtFlowRenewable, for a HOLDER
isVtFlowRenewable(r) == r.state \in {"COMPLETED", "CRED_REVOKED"}

isRunning(r) ==
    r.state \notin VtFlowTerminalStates \cup {"NONE"} /\ ~isVtFlowRenewable(r)

\* VT_FLOW_ERROR_INFO, the codes that the agents send, and
\* resolveErrorFlowState: the state the receiver moves to, or "unchanged".
VT_FLOW_ERROR_INFO ==
    [InvalidParticipantId        |-> "unchanged",
     InvalidParticipantSessionId |-> "unchanged",
     NotAVerifiableService       |-> "ERROR",
     ValidationRefused           |-> "TERMINATED_BY_VALIDATOR",
     InternalError               |-> "ERROR",
     ParticipantRevoked          |-> "PARTICIPANT_REVOKED"]

NoRecord   == [state |-> "NONE", thread |-> 0, xchg |-> 0]
NoExchange == [state |-> "none", parent |-> 0]

Msg(to, type, thread) ==
    [to |-> to, type |-> type, thread |-> thread, x |-> 0, code |-> "none", n |-> 0]

Report(to, code, thread) ==
    [Msg(to, "problem-report", thread) EXCEPT !.code = code]

ExchangeMsg(to, type, thread, x) == [Msg(to, type, thread) EXCEPT !.x = x]

Call(p, name, x) == [who |-> p, call |-> name, x |-> x]

-----------------------------------------------------------------------------
\* Mutant: an offer is accepted only on the way from VALIDATING.
AutoChainFromValidating(p, a, b) ==
    IF p = "applicant" /\ b = "CRED_OFFERED" /\ a # "VALIDATING" THEN {}
    ELSE {Call(p, n, 0) : n \in
            (IF p = "applicant" /\ b = "CRED_OFFERED" THEN {"acceptOffer"} ELSE {})
            \cup (IF p = "validator" /\ b = "AWAITING_OR" THEN {"acceptOR"} ELSE {})
            \cup (IF p = "validator" /\ b = "AWAITING_IR" THEN {"acceptIR"} ELSE {})
            \cup (IF p = "validator" /\ b = "VALIDATING" /\ ~onboarding
                  THEN {"offer"} ELSE {})}

\* The auto-chain listener: what a change of state from a to b sets off.
AutoChain(p, a, b) ==
    (IF p = "applicant" /\ b = "CRED_OFFERED" THEN {Call(p, "acceptOffer", 0)} ELSE {})
    \cup
    (IF p = "validator" /\ b = "AWAITING_OR"
            /\ a \in {"NONE", "AWAITING_OR", "COMPLETED", "VALIDATED"}
     THEN {Call(p, "acceptOR", 0)} ELSE {})
    \cup
    (IF p = "validator" /\ b = "AWAITING_IR" /\ a = "NONE"
     THEN {Call(p, "acceptIR", 0)} ELSE {})
    \cup
    (IF p = "validator" /\ b = "VALIDATING" /\ ~onboarding /\ a # "OOB_PENDING"
     THEN {Call(p, "offer", 0)} ELSE {})

\* updateState: store r in state s, and emit the change unless there is none.
\* `calls' is todo without the call that is being made.
updateState(p, r, s, calls) ==
    /\ rec' = [rec EXCEPT ![p] = [r EXCEPT !.state = s]]
    /\ todo' = calls \cup (IF r.state = s THEN {} ELSE AutoChain(p, r.state, s))

\* assertCanOfferCredential
CanOffer == {"VALIDATED", "VALIDATED_PENDING_CLAIMS", "COMPLETED"}
                \cup (IF onboarding THEN {} ELSE {"VALIDATING"})

\* releaseCredentialExchange: the exchange forgets its parent thread.
Released(p) == IF rec[p].xchg = 0 THEN xs
               ELSE [xs EXCEPT ![p][rec[p].xchg].parent = 0]

Init ==
    /\ rec = [p \in Parties |-> NoRecord]
    /\ xs = [p \in Parties |-> [x \in Exchanges |-> NoExchange]]
    /\ msgs = {} /\ todo = {}
    /\ entry = "PENDING" /\ news = [p \in Parties |-> {}]
    /\ onboarding \in BOOLEAN /\ starts = 0 /\ admin = 0 /\ lost = 0

-----------------------------------------------------------------------------
\* The applicant opens, renews or re-attaches the flow.

\* createOnboardingProcessRecord: a first request or a renewal opens a new
\* thread, named by the number of the call.
sendOnboardingRequest ==
    /\ onboarding /\ starts < MaxStarts /\ entry # "REVOKED"
    /\ rec["applicant"].state = "NONE" \/ isVtFlowRenewable(rec["applicant"])
    /\ starts' = starts + 1
    /\ updateState("applicant", [rec["applicant"] EXCEPT !.thread = starts + 1],
                   "OR_SENT", todo)
    /\ msgs' = msgs \cup {[Msg("validator", "onboarding-request", starts + 1)
                              EXCEPT !.n = starts + 1]}
    /\ UNCHANGED <<xs, chain, onboarding, admin, lost>>

\* reattachOnboardingProcessRecord, once startOnboardingProcess finds the
\* request undelivered or the connection unusable.
resendOnboardingRequest ==
    /\ onboarding /\ starts < MaxStarts
    /\ isRunning(rec["applicant"])
    /\ Faults \/ (rec["applicant"].state = "OR_SENT" /\ entry \in PendingEntry)
    /\ starts' = starts + 1
    /\ msgs' = msgs \cup {[Msg("validator", "onboarding-request", rec["applicant"].thread)
                              EXCEPT !.n = starts + 1]}
    /\ IF rec["applicant"].state = "CRED_OFFERED"
       THEN /\ xs' = Released("applicant")
            /\ updateState("applicant", [rec["applicant"] EXCEPT !.xchg = 0], "VALIDATING", todo)
       ELSE UNCHANGED <<rec, xs, todo>>
    /\ UNCHANGED <<chain, onboarding, admin, lost>>

sendIssuanceRequest ==
    /\ ~onboarding /\ rec["applicant"].state = "NONE"
    /\ updateState("applicant", [NoRecord EXCEPT !.thread = 1], "IR_SENT", todo)
    /\ msgs' = msgs \cup {Msg("validator", "issuance-request", 1)}
    /\ UNCHANGED <<xs, chain, bounds>>

-----------------------------------------------------------------------------
\* The validator receives a request.

\* checkRequestFromVerifiableService fails: the flow ends, unless it has.
RefuseRequest(m) ==
    /\ Faults
    /\ IF rec["validator"].state \in VtFlowTerminalStates
       THEN UNCHANGED <<rec, todo>>
       ELSE updateState("validator",
                IF rec["validator"].state = "NONE"
                THEN [NoRecord EXCEPT !.thread = m.thread] ELSE rec["validator"],
                "ERROR", todo)
    /\ msgs' = (msgs \ {m}) \cup {Report("applicant", "NotAVerifiableService", m.thread)}
    /\ UNCHANGED xs

\* assertNotTerminated
RequestForEndedFlow(m) ==
    /\ rec["validator"].state \in VtFlowTerminalStates
    /\ msgs' = (msgs \ {m}) \cup {Report("applicant", "InvalidParticipantSessionId", m.thread)}
    /\ UNCHANGED <<rec, xs, todo>>

\* A flow in AWAITING_OR is signalled again, so that its checks run again.
processReceiveOnboardingRequest(m) ==
    LET r == [rec["validator"] EXCEPT !.thread = m.thread] IN
    \/ RefuseRequest(m)
    \/ RequestForEndedFlow(m)
    \/ /\ r.state \notin VtFlowTerminalStates
       /\ msgs' = msgs \ {m}
       /\ CASE r.state = "NONE" \/ isVtFlowRenewable(r) ->
                 updateState("validator", r, "AWAITING_OR", todo) /\ UNCHANGED xs
            [] r.state = "CRED_OFFERED" ->
                 /\ xs' = Released("validator")
                 /\ updateState("validator", [r EXCEPT !.xchg = 0], "VALIDATED", todo)
            [] OTHER ->
                 /\ rec' = [rec EXCEPT !["validator"] = r]
                 /\ todo' = todo \cup (IF r.state = "AWAITING_OR"
                                       THEN {Call("validator", "acceptOR", 0)} ELSE {})
                 /\ UNCHANGED xs

\* One request per session: the applicant never sends a second one.
processReceiveIssuanceRequest(m) ==
    \/ RefuseRequest(m)
    \/ RequestForEndedFlow(m)
    \/ /\ rec["validator"].state = "NONE"
       /\ msgs' = msgs \ {m}
       /\ updateState("validator", [NoRecord EXCEPT !.thread = m.thread],
                      "AWAITING_IR", todo)
       /\ UNCHANGED xs

\* acceptOnboardingRequest with its checkParticipantId hook, which settles a
\* request whose entry is VALIDATED by itself.
acceptOnboardingRequest(c) ==
    /\ c.call = "acceptOR"
    /\ LET r == rec["validator"] IN
        \/ /\ r.state = "AWAITING_OR" /\ entry \in PendingEntry
           /\ updateState("validator", r, "VALIDATING", todo \ {c})
           /\ msgs' = msgs \cup {Msg("applicant", "validating", r.thread)}
        \/ /\ r.state = "AWAITING_OR" /\ entry = "VALIDATED"
           /\ updateState("validator", r, "VALIDATED",
                  (todo \ {c}) \cup {Call("validator", "offer", 0)})
           /\ UNCHANGED msgs
        \/ /\ r.state = "AWAITING_OR" /\ entry = "REVOKED"
           /\ todo' = todo \ {c}
           /\ msgs' = msgs \cup {Report("applicant", "InvalidParticipantId", r.thread)}
           /\ UNCHANGED rec
        \/ /\ r.state # "AWAITING_OR"
           /\ todo' = todo \ {c} /\ UNCHANGED <<rec, msgs>>
    /\ UNCHANGED xs

acceptIssuanceRequest(c) ==
    /\ c.call = "acceptIR"
    /\ IF rec["validator"].state = "AWAITING_IR"
       THEN /\ updateState("validator", rec["validator"], "VALIDATING", todo \ {c})
            /\ msgs' = msgs \cup {Msg("applicant", "validating", rec["validator"].thread)}
       ELSE todo' = todo \ {c} /\ UNCHANGED <<rec, msgs>>
    /\ UNCHANGED xs

-----------------------------------------------------------------------------
\* Mutant: the listener takes the flow of the connection.
LinkedByConnection(p, x) == rec[p].state # "NONE"

\* Below, `Listen' is the listener of credential exchange events: it finds
\* the flow by the parent thread of the exchange and takes the exchange over.
Linked(p, x) == xs[p][x].parent # 0 /\ xs[p][x].parent = rec[p].thread

\* onSubprotocolStateChanged, with the state s of the flow that follows.
\* Unlinked, it adds no call to todo and drops only the one being made.
Listen(p, x, s, calls) ==
    IF Linked(p, x)
    THEN updateState(p, [rec[p] EXCEPT !.xchg = x], s, calls)
    ELSE todo' = todo \cap calls /\ UNCHANGED rec

\* offerCredentialForSession up to the send.  The flow may have moved, the
\* claims may not fit the schema, and the offer may not be possible.
offerCredentialForSession(c) ==
    /\ c.call = "offer"
    /\ \E x \in Exchanges :
        /\ xs["validator"][x].state = "none"
        /\ \A y \in Exchanges : y < x => xs["validator"][y].state # "none"
        /\ rec["validator"].state \in CanOffer
        /\ LET t == rec["validator"].thread IN
            /\ xs' = [xs EXCEPT !["validator"][x] = [state |-> "OfferSent", parent |-> t]]
            /\ msgs' = msgs \cup {ExchangeMsg("applicant", "offer", t, x)}
        /\ todo' = (todo \ {c}) \cup {Call("validator", "attach", x)}
    /\ UNCHANGED rec

offerRefused(c) ==
    /\ c.call = "offer"
    /\ Faults \/ rec["validator"].state \notin CanOffer
    /\ todo' = todo \ {c}
    /\ \/ UNCHANGED rec
       \/ /\ Faults /\ onboarding /\ rec["validator"].state = "VALIDATED"
          /\ rec' = [rec EXCEPT !["validator"].state = "VALIDATED_PENDING_CLAIMS"]
    /\ UNCHANGED <<xs, msgs>>

attachCredentialExchangeRecord(c) ==
    /\ c.call = "attach"
    /\ IF rec["validator"].state \in CanOffer
       THEN updateState("validator", [rec["validator"] EXCEPT !.xchg = c.x],
                        "CRED_OFFERED", todo \ {c})
       ELSE todo' = todo \ {c} /\ UNCHANGED rec
    /\ UNCHANGED <<xs, msgs>>

\* The applicant's exchange begins.  The offer can beat the notification
\* that the entry is VALIDATED, so the flow passes through VALIDATED.
receiveOffer(m) ==
    /\ m.type = "offer"
    /\ xs' = [xs EXCEPT !["applicant"][m.x] =
                  [state |-> "OfferReceived", parent |-> m.thread]]
    /\ msgs' = msgs \ {m}
    /\ IF rec["applicant"].thread = m.thread
       THEN updateState("applicant", [rec["applicant"] EXCEPT !.xchg = m.x],
                        "CRED_OFFERED", todo)
       ELSE UNCHANGED <<rec, todo>>

\* acceptCredentialOffer, for the exchange that the record names by then;
\* Credo refuses one that is not in OfferReceived.
acceptCredentialOffer(c) ==
    LET x == rec["applicant"].xchg
        open == \E y \in Exchanges : y = x /\ xs["applicant"][y].state = "OfferReceived"
    IN
    /\ c.call = "acceptOffer"
    /\ \/ /\ open
          /\ xs' = [xs EXCEPT !["applicant"][x].state = "RequestSent"]
          /\ msgs' = msgs \cup {ExchangeMsg("validator", "request", 0, x)}
          /\ todo' = todo \ {c} /\ UNCHANGED rec
       \/ /\ Faults /\ open
          /\ xs' = [xs EXCEPT !["applicant"][x].state = "Declined"]
          /\ msgs' = msgs \cup {ExchangeMsg("validator", "decline", 0, x)}
          /\ Listen("applicant", x, "ERROR", todo \ {c})
       \/ ~open /\ todo' = todo \ {c} /\ UNCHANGED <<rec, xs, msgs>>

receiveRequest(m) ==
    /\ m.type = "request"
    /\ xs["validator"][m.x].state = "OfferSent"
    /\ xs' = [xs EXCEPT !["validator"][m.x].state = "RequestReceived"]
    /\ msgs' = msgs \ {m}
    /\ Listen("validator", m.x, rec["validator"].state,
              todo \cup {Call("validator", "issue", m.x)})

receiveDecline(m) ==
    /\ m.type = "decline"
    /\ xs' = [xs EXCEPT !["validator"][m.x].state = "Abandoned"]
    /\ msgs' = msgs \ {m}
    /\ Listen("validator", m.x, "ERROR", todo)

Deliver(x) == ExchangeMsg("applicant", "credential", 0, x)

\* issueCredentialForSession asserts only the role.  The anchoring succeeds,
\* fails and leaves the credential undelivered, or throws, and then the
\* listener ends the flow if terminateByValidator allows it.
issueCredentialForSession(c) ==
    /\ c.call = "issue"
    /\ LET r == rec["validator"]
           x == c.x IN
        \/ /\ xs' = [xs EXCEPT !["validator"][x].state = "CredentialIssued"]
           /\ msgs' = msgs \cup {Deliver(x)}
           /\ todo' = todo \ {c} /\ UNCHANGED rec
        \/ /\ Faults
           /\ xs' = [xs EXCEPT !["validator"][x].state = "Unanchored"]
           /\ todo' = todo \ {c} /\ UNCHANGED <<rec, msgs>>
        \/ /\ Faults
           /\ IF r.state \in {"AWAITING_OR", "AWAITING_IR", "VALIDATING",
                              "OOB_PENDING", "CRED_OFFERED", "COMPLETED"}
              THEN /\ updateState("validator", r, "TERMINATED_BY_VALIDATOR", todo \ {c})
                   /\ msgs' = msgs \cup {Report("applicant", "InternalError", r.thread)}
              ELSE todo' = todo \ {c} /\ UNCHANGED <<rec, msgs>>
           /\ xs' = [xs EXCEPT !["validator"][x].state = "Unanchored"]

receiveCredential(m) ==
    /\ m.type = "credential"
    /\ xs["applicant"][m.x].state = "RequestSent"
    /\ xs' = [xs EXCEPT !["applicant"][m.x].state = "CredentialReceived"]
    /\ msgs' = msgs \ {m}
    /\ Listen("applicant", m.x, rec["applicant"].state,
              todo \cup {Call("applicant", "verify", m.x)})

\* The verifyCredential hook, then acceptCredential or nothing.
verifyCredential(c) ==
    /\ c.call = "verify"
    /\ \/ /\ xs' = [xs EXCEPT !["applicant"][c.x].state = "Done"]
          /\ msgs' = msgs \cup {ExchangeMsg("validator", "ack", 0, c.x)}
          /\ Listen("applicant", c.x, "COMPLETED", todo \ {c})
       \/ Faults /\ todo' = todo \ {c} /\ UNCHANGED <<rec, xs, msgs>>

receiveAck(m) ==
    /\ m.type = "ack"
    /\ xs' = [xs EXCEPT !["validator"][m.x].state = "Done"]
    /\ msgs' = msgs \ {m}
    /\ Listen("validator", m.x, "COMPLETED", todo)

-----------------------------------------------------------------------------
\* The other messages of the protocol, found by their thread.

processReceiveOobLink(m) ==
    /\ m.type = "oob-link"
    /\ msgs' = msgs \ {m}
    /\ LET r == rec["applicant"] IN
       IF r.thread = m.thread
          /\ r.state \in {"OR_SENT", "IR_SENT", "VALIDATING", "OOB_PENDING"}
       THEN updateState("applicant", r, "OOB_PENDING", todo)
       ELSE UNCHANGED <<rec, todo>>
    /\ UNCHANGED xs

processReceiveValidating(m) ==
    /\ m.type = "validating"
    /\ msgs' = msgs \ {m}
    /\ LET r == rec["applicant"] IN
       IF r.thread = m.thread /\ r.state \in {"OR_SENT", "IR_SENT", "OOB_PENDING"}
       THEN updateState("applicant", r, "VALIDATING", todo)
       ELSE UNCHANGED <<rec, todo>>
    /\ UNCHANGED xs

\* The state of the flow is not looked at.
processReceiveCredentialStateChange(m) ==
    /\ m.type = "credential-state-change"
    /\ msgs' = msgs \ {m}
    /\ IF rec["applicant"].thread = m.thread
       THEN updateState("applicant", rec["applicant"], "CRED_REVOKED", todo)
       ELSE UNCHANGED <<rec, todo>>
    /\ UNCHANGED xs

processReceiveProblemReport(m) ==
    /\ m.type = "problem-report"
    /\ msgs' = msgs \ {m}
    /\ LET r == rec[m.to]
           s == VT_FLOW_ERROR_INFO[m.code] IN
       IF r.thread = m.thread /\ r.state \notin VtFlowTerminalStates /\ s # "unchanged"
       THEN updateState(m.to, r, s, todo)
       ELSE UNCHANGED <<rec, todo>>
    /\ UNCHANGED xs

Receive(m) ==
    /\ \/ m.type = "onboarding-request" /\ processReceiveOnboardingRequest(m)
       \/ m.type = "issuance-request" /\ processReceiveIssuanceRequest(m)
       \/ receiveOffer(m)      \/ receiveRequest(m) \/ receiveDecline(m)
       \/ receiveCredential(m) \/ receiveAck(m)
       \/ processReceiveOobLink(m) \/ processReceiveValidating(m)
       \/ processReceiveCredentialStateChange(m) \/ processReceiveProblemReport(m)
    /\ UNCHANGED <<chain, bounds>>

\* A message is lost, or its send fails after the flow has moved.
Lose(m) ==
    /\ lost < MaxLost /\ lost' = lost + 1
    /\ msgs' = msgs \ {m}
    /\ UNCHANGED <<rec, xs, todo, chain, onboarding, starts, admin>>

Automatic(c) ==
    /\ \/ acceptOnboardingRequest(c) \/ acceptIssuanceRequest(c)
       \/ offerCredentialForSession(c) \/ offerRefused(c)
       \/ attachCredentialExchangeRecord(c)
       \/ acceptCredentialOffer(c) \/ issueCredentialForSession(c)
       \/ verifyCredential(c)
    /\ UNCHANGED <<chain, bounds>>

-----------------------------------------------------------------------------
\* Admin calls on the validator (VtFlowsService) and revocation.

ValidatorSends(s, m) ==
    /\ updateState("validator", rec["validator"], s, todo)
    /\ msgs' = msgs \cup {m}
    /\ UNCHANGED xs

sendOobLink ==
    /\ rec["validator"].state \in {"VALIDATING", "OOB_PENDING"}
    /\ ValidatorSends("OOB_PENDING",
                      Msg("applicant", "oob-link", rec["validator"].thread))

startValidation ==
    /\ rec["validator"].state = "OOB_PENDING"
    /\ ValidatorSends("VALIDATING",
                      Msg("applicant", "validating", rec["validator"].thread))

rejectFlow ==
    /\ rec["validator"].state \in
          {IF onboarding THEN "AWAITING_OR" ELSE "AWAITING_IR",
           "OOB_PENDING", "VALIDATING"}
    /\ ValidatorSends("TERMINATED_BY_VALIDATOR",
                      Report("applicant", "ValidationRefused", rec["validator"].thread))

\* validateFlow, where it leads to an offer without a transaction
validateFlow ==
    /\ IF onboarding
       THEN /\ entry = "VALIDATED"
            /\ rec["validator"].state \in {"VALIDATED", "VALIDATED_PENDING_CLAIMS"}
       ELSE rec["validator"].state = "VALIDATING"
    /\ todo' = todo \cup {Call("validator", "offer", 0)}
    /\ UNCHANGED <<rec, xs, msgs>>

\* validateFlow in CRED_OFFERED: the signed credential is anchored again and
\* delivered.
reissueCredential ==
    /\ rec["validator"].state = "CRED_OFFERED" /\ rec["validator"].xchg # 0
    /\ LET x == rec["validator"].xchg IN
        /\ xs["validator"][x].state = "Unanchored"
        /\ xs' = [xs EXCEPT !["validator"][x].state = "CredentialIssued"]
        /\ msgs' = msgs \cup {Deliver(x)}
    /\ UNCHANGED <<rec, todo>>

notifyCredentialStateChange ==
    /\ rec["validator"].state \in {"COMPLETED", "CRED_REVOKED"}
    /\ ValidatorSends("CRED_REVOKED",
          Msg("applicant", "credential-state-change", rec["validator"].thread))

AdminCall ==
    /\ admin < MaxAdmin /\ admin' = admin + 1
    /\ \/ sendOobLink \/ startValidation \/ rejectFlow \/ validateFlow
       \/ reissueCredential \/ notifyCredentialStateChange
    /\ UNCHANGED <<chain, onboarding, starts, lost>>

-----------------------------------------------------------------------------
\* The chain and its notifications.

SetEntry(from, to, note) ==
    /\ onboarding /\ entry \in from
    /\ entry' = to
    /\ news' = IF note = "none" THEN news
               ELSE [p \in Parties |-> news[p] \cup {note}]
    /\ UNCHANGED <<rec, xs, msgs, todo, bounds>>

Validate == SetEntry(PendingEntry, "VALIDATED", "validated")
Renew    == SetEntry({"VALIDATED"}, "RENEWED", "none")
Revoke   == Faults /\ SetEntry({"VALIDATED"}, "REVOKED", "revoked")

\* markVtFlowRecordsValidated and markApplicantVtFlowRecordsValidated
onValidated(p) ==
    /\ "validated" \in news[p]
    /\ news' = [news EXCEPT ![p] = @ \ {"validated"}]
    /\ LET r == rec[p] IN
       IF r.state \in (IF p = "applicant" THEN {"OR_SENT", "VALIDATING", "OOB_PENDING"}
                       ELSE {"AWAITING_OR", "VALIDATING", "OOB_PENDING"})
       THEN updateState(p, r, "VALIDATED",
               IF p = "validator" THEN todo \cup {Call(p, "offer", 0)} ELSE todo)
       ELSE UNCHANGED <<rec, todo>>
    /\ UNCHANGED <<xs, msgs, entry, bounds>>

\* The record ends whatever its state was, and the peer is told.
terminateByChainEvent(p) ==
    /\ updateState(p, rec[p], "PARTICIPANT_REVOKED", todo)
    /\ msgs' = msgs \cup {Report(Peer(p), "ParticipantRevoked", rec[p].thread)}

\* setVtFlowRecordsParticipantRevoked, from every state but this one
onRevoked(p) ==
    /\ "revoked" \in news[p] /\ "validated" \notin news[p]
    /\ news' = [news EXCEPT ![p] = @ \ {"revoked"}]
    /\ IF rec[p].state \notin {"NONE", "PARTICIPANT_REVOKED"}
       THEN terminateByChainEvent(p)
       ELSE UNCHANGED <<rec, todo, msgs>>
    /\ UNCHANGED <<xs, entry, bounds>>

Next ==
    \/ sendOnboardingRequest \/ resendOnboardingRequest \/ sendIssuanceRequest
    \/ \E m \in msgs : Receive(m) \/ Lose(m)
    \/ \E c \in todo : Automatic(c)
    \/ AdminCall
    \/ Validate \/ Renew \/ Revoke
    \/ \E p \in Parties : onValidated(p) \/ onRevoked(p)

Spec == Init /\ [][Next]_vars

\* A running agent handles what it receives and makes the calls of its
\* listeners.  Nothing makes the applicant, an admin or the chain act.
Fairness ==
    /\ WF_vars(\E m \in msgs : Receive(m))
    /\ WF_vars(\E c \in todo : Automatic(c))
    /\ \A p \in Parties : WF_vars(onValidated(p))

FairSpec == Spec /\ Fairness

-----------------------------------------------------------------------------
TypeOK ==
    /\ rec \in [Parties -> [state : VtFlowState, thread : 0..MaxStarts + 1,
                            xchg : 0..MaxExchanges]]
    /\ \A p \in Parties, x \in Exchanges : xs[p][x].parent \in 0..MaxStarts + 1
    /\ \A c \in todo : c.who \in Parties /\ c.x \in 0..MaxExchanges
    /\ \A m \in msgs : m.to \in Parties
    /\ entry \in PendingEntry \cup {"VALIDATED", "REVOKED"}
    /\ news \in [Parties -> SUBSET {"validated", "revoked"}] /\ onboarding \in BOOLEAN

\* A flow that is COMPLETED was completed by a credential of its current
\* round: the exchange the applicant accepted was opened on the thread that
\* the record names, so a late answer to an exchange of an earlier round, or
\* to one that a re-attached request released, does not complete it
\* (onSubprotocolStateChanged, releaseCredentialExchange).
CompletedThisRound ==
    \A p \in Parties :
        rec[p].state = "COMPLETED" =>
            \E x \in Exchanges :
                /\ xs["applicant"][x].state = "Done"
                /\ xs[p][x].state = "Done"
                /\ xs[p][x].parent = rec[p].thread

\* The applicant holds an offer or a credential only for an entry that was
\* VALIDATED, also when the offer beats the notification that says so
\* (onSubprotocolStateChanged: "an Onboarding Process offers only from
\* VALIDATED", checkParticipantId).
OfferNeedsEntry ==
    onboarding /\ entry = "PENDING" =>
        /\ rec["applicant"].state \notin {"VALIDATED", "CRED_OFFERED", "COMPLETED"}
        /\ \A x \in Exchanges : xs["applicant"][x].state = "none"

\* Without faults, losses and admin calls a first request ends with the
\* credential accepted once the entry is VALIDATED, whichever of the request,
\* the notification and the offer comes first, unless the entry is renewed
\* or the request is resent meanwhile; a direct one needs no entry (the
\* listeners of VtFlowModule).
RequestCompletes ==
    (/\ rec["applicant"].state \in {"OR_SENT", "IR_SENT"}
     /\ rec["applicant"].thread = 1
     /\ onboarding => entry = "VALIDATED")
        ~> \/ rec["applicant"].state = "COMPLETED"
           \/ onboarding /\ (entry # "VALIDATED" \/ starts > 1)

\* When the validator rejects the flow the applicant's record ends too, in
\* whatever order the messages before it arrive, unless an offer that was
\* under way revives the validator's record (rejectFlow,
\* processReceiveProblemReport).
EndIsShared ==
    rec["validator"].state = "TERMINATED_BY_VALIDATOR"
        ~> \/ rec["applicant"].state \in VtFlowTerminalStates
           \/ rec["validator"].state # "TERMINATED_BY_VALIDATOR"

\* A flow in a terminal state is not completed (markCompleted: "VtFlow record
\* is in terminal state ...; cannot complete it").
TerminalNotCompleted ==
    [][\A p \in Parties :
          rec[p].state \in VtFlowTerminalStates => rec'[p].state # "COMPLETED"]_vars

\* A renewal runs the finished flow again: the validator answers it without
\* waiting for anything else (processReceiveOnboardingRequest: "A finished
\* flow re-entered with a new OR is a renewal: re-run it").
RenewalRuns ==
    rec["validator"].state = "AWAITING_OR" ~> rec["validator"].state # "AWAITING_OR"
=============================================================================
