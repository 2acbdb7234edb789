--------------------------- MODULE FlowValidation ---------------------------
(***************************************************************************)
(* The validator's side of one onboarding flow, from the onboarding        *)
(* request to the credential offer (VtFlowOrchestrator, the admin calls of *)
(* VtFlowsService, the notification handlers of stateMutations).           *)
(*                                                                         *)
(* Several procedures run on the same stored record at once: admin calls,  *)
(* one lookup per broadcast transaction, the handler of chain              *)
(* notifications, the check of a received request and the issuance after a *)
(* reconnect.  Each one reads the record, awaits the chain, the indexer or *)
(* the peer, and writes back.  A step here is what a procedure does        *)
(* between two such awaits; one method of VtFlowService (read, assert,     *)
(* update) is one step.                                                    *)
(*                                                                         *)
(* Scope: the first round of the flow, with no newer flow of the same      *)
(* applicant.  Renewal and the anchoring of the credential are left out.   *)
(***************************************************************************)
EXTENDS Naturals, Sequences

CONSTANTS
    Admins,       \* the admin callers; each has at most one call open
    Txs,          \* bound: the validation transactions the agent can broadcast
    Handler,      \* the notification handler (one event at a time)
    Accept,       \* the acceptance of a received onboarding request
    Reconnect,    \* the issuance started by a reconnect
    NoTx, NoProc,
    Holder,       \* the applicant's role is HOLDER
    MaxCalls,     \* bound: admin calls
    MaxReattach,  \* bound: reconnects of the applicant
    MaxReadFails, \* bound: indexer reads that throw
    MaxCrashes    \* bound: crashes of the agent

\* One lookup runs per transaction, so the lookups are named by them.
Procs == Admins \cup Txs \cup {Handler, Accept, Reconnect}

ASSUME ProcsAssumption ==
    /\ Admins \cap (Txs \cup {Handler, Accept, Reconnect}) = {}
    /\ Txs \cap {Handler, Accept, Reconnect} = {}
    /\ Handler # Accept /\ Handler # Reconnect /\ Accept # Reconnect
    /\ NoTx \notin Procs /\ NoProc \notin Procs

ASSUME BoundsAssumption ==
    /\ Holder \in BOOLEAN
    /\ MaxCalls \in Nat /\ MaxReattach \in Nat
    /\ MaxReadFails \in Nat /\ MaxCrashes \in Nat

VARIABLES
    state, terminated, validation,  \* the stored record
    entry,        \* op_state of the applicant's entry on the chain
    indexed,      \* the indexer shows the entry VALIDATED
    txs,          \* what became of each broadcast transaction
    late,         \* transactions whose lookup time is over
    feed,         \* notifications, the one being handled first
    at, loc,      \* per procedure: its next step and what it has read
    lock,         \* markingValidated
    line,         \* continuingAfterValidated
    offers,       \* history: credential offers sent
    open,         \* credential exchanges of the flow that have not ended
    calls, reconnects, readFails, crashes

record   == <<state, terminated, validation>>
chain    == <<entry, indexed, txs, late, feed>>
locks    == <<lock, line>>
exchange == <<offers, open>>
bounds   == <<calls, reconnects, readFails, crashes>>
vars == <<record, chain, at, loc, locks, exchange, bounds>>

-----------------------------------------------------------------------------
VtFlowTerminalStates ==
    {"TERMINATED_BY_VALIDATOR", "TERMINATED_BY_APPLICANT", "ERROR",
     "PARTICIPANT_REVOKED"}

VtFlowValidatedFromStates ==
    {"AWAITING_OR", "VALIDATING", "OOB_PENDING", "AWAITING_VALIDATION_TX",
     "VALIDATION_TX_SUBMITTED", "VALIDATION_TX_FAILED"}

\* PARTICIPANT_REVOKED also stands for PARTICIPANT_SLASHED.
VtFlowState ==
    VtFlowTerminalStates \cup VtFlowValidatedFromStates \cup
    {"VALIDATED", "VALIDATED_PENDING_CLAIMS", "CRED_OFFERED", "COMPLETED"}

\* assertValidateState
ValidateStates(entryValidated) ==
    {"VALIDATING", "OOB_PENDING", "VALIDATION_TX_FAILED",
     "VALIDATED_PENDING_CLAIMS"}
    \cup (IF entryValidated
          THEN {"AWAITING_OR", "AWAITING_VALIDATION_TX",
                "VALIDATION_TX_SUBMITTED", "VALIDATED"}
          ELSE {})

REJECT_STATES ==
    {"AWAITING_OR", "OOB_PENDING", "VALIDATING", "AWAITING_VALIDATION_TX",
     "VALIDATION_TX_FAILED"}

\* The states terminateByValidator asserts.
TerminateStates == REJECT_STATES \cup {"CRED_OFFERED", "COMPLETED"}

\* assertCanOfferCredential, for an onboarding process
OfferStates == {"VALIDATED", "VALIDATED_PENDING_CLAIMS", "COMPLETED"}

NoValidation == [decided |-> FALSE, tx |-> NoTx, status |-> "NONE"]

Decided(t, s) == [decided |-> TRUE, tx |-> t, status |-> s]

NoLocals == [state |-> "AWAITING_OR", terminated |-> FALSE,
             seen |-> NoValidation, landed |-> NoTx, known |-> FALSE,
             goesOn |-> FALSE, txFailed |-> FALSE]

\* A procedure reads the record.
Snapshot == [NoLocals EXCEPT !.state = state, !.terminated = terminated,
                             !.seen = validation]

\* isRejectedInFlight, on the record that the procedure has read
isRejectedInFlight(r) == r.state = "TERMINATED_BY_VALIDATOR" /\ r.seen.decided

-----------------------------------------------------------------------------
Init ==
    /\ state = "AWAITING_OR" /\ terminated = FALSE /\ validation = NoValidation
    /\ entry = "PENDING" /\ indexed = FALSE
    /\ txs = [t \in Txs |-> "unsent"] /\ late = {} /\ feed = <<>>
    /\ at = [p \in Procs |-> IF p = Accept THEN "acceptFirst" ELSE "idle"]
    /\ loc = [p \in Procs |-> NoLocals]
    /\ lock = NoProc /\ line = <<>>
    /\ offers = 0 /\ open = 0
    /\ calls = 0 /\ reconnects = 0 /\ readFails = 0 /\ crashes = 0

Goto(p, step) == at' = [at EXCEPT ![p] = step] /\ UNCHANGED loc

GotoWith(p, step, l) ==
    at' = [at EXCEPT ![p] = step] /\ loc' = [loc EXCEPT ![p] = l]

\* The procedure returns or throws.  The feed then records its event.
Rest(p) == IF p = Handler THEN "save" ELSE "idle"
Finish(p) ==
    at' = [at EXCEPT ![p] = Rest(p)] /\ loc' = [loc EXCEPT ![p] = NoLocals]

\* getParticipant throws, and the procedure with it.
ReadFails(p) ==
    /\ readFails < MaxReadFails
    /\ readFails' = readFails + 1
    /\ Finish(p)
    /\ UNCHANGED <<record, chain, locks, exchange, calls, reconnects, crashes>>

\* Mutant: the flow takes the status of the transaction as its state.
recordValidationStatus(v, s) ==
    validation' = v /\ state' = v.status /\ UNCHANGED terminated

recordValidation(v, s) ==
    validation' = v /\ state' = s /\ UNCHANGED terminated

-----------------------------------------------------------------------------
\* The chain and its indexer.

\* The chain includes the transaction; only the first one can succeed.
IncludeTx(t) ==
    /\ txs[t] = "pending"
    /\ IF entry = "PENDING"
       THEN txs' = [txs EXCEPT ![t] = "ok"] /\ entry' = "VALIDATED"
       ELSE txs' = [txs EXCEPT ![t] = "failed"] /\ UNCHANGED entry
    /\ UNCHANGED <<record, indexed, late, feed, at, loc, locks, exchange, bounds>>

\* A pending transaction can also fail for its own reasons.
RefuseTx(t) ==
    /\ txs[t] = "pending"
    /\ txs' = [txs EXCEPT ![t] = "failed"]
    /\ UNCHANGED <<record, entry, indexed, late, feed, at, loc, locks, exchange, bounds>>

\* An operator submits SetParticipantOPtoValidated without the agent.
OperatorValidates ==
    /\ entry = "PENDING"
    /\ entry' = "VALIDATED"
    /\ UNCHANGED <<record, indexed, txs, late, feed, at, loc, locks, exchange, bounds>>

\* The indexer indexes the validation and notifies the agent.
Index ==
    /\ entry = "VALIDATED" /\ ~indexed
    /\ indexed' = TRUE
    /\ \E t \in Txs \cup {NoTx} :
        /\ IF t \in Txs THEN txs[t] = "ok" ELSE \A u \in Txs : txs[u] # "ok"
        /\ feed' = Append(feed, [msg |-> "validated", tx |-> t])
    /\ UNCHANGED <<record, entry, txs, late, at, loc, locks, exchange, bounds>>

\* The applicant cancels its request, which only a PENDING entry allows.
Cancel ==
    /\ entry = "PENDING"
    /\ entry' = "TERMINATED"
    /\ feed' = Append(feed, [msg |-> "cancelled", tx |-> NoTx])
    /\ UNCHANGED <<record, indexed, txs, late, at, loc, locks, exchange, bounds>>

\* The validated participant is revoked or slashed; its op_state stays.
Revoke ==
    /\ indexed /\ entry = "VALIDATED"
    /\ entry' = "REVOKED"
    /\ feed' = Append(feed, [msg |-> "revoked", tx |-> NoTx])
    /\ UNCHANGED <<record, indexed, txs, late, at, loc, locks, exchange, bounds>>

\* TX_LOOKUP_TIMEOUT_MS have passed since the broadcast.
Expire(t) ==
    /\ txs[t] # "unsent" /\ t \notin late
    /\ late' = late \cup {t}
    /\ UNCHANGED <<record, entry, indexed, txs, feed, at, loc, locks, exchange, bounds>>

-----------------------------------------------------------------------------
\* markValidated and continueAfterValidated, called by every procedure.

\* The procedure queues its run of the issuance.
continueAfterValidated(p) == line' = Append(line, p) /\ Goto(p, "waiting")

markValidated(p) ==
    /\ at[p] = "mark"
    /\ IF lock # NoProc
       THEN Finish(p) /\ UNCHANGED lock
       ELSE lock' = p /\ Goto(p, "markRead")
    /\ UNCHANGED <<record, chain, line, exchange, bounds>>

markRead(p) ==
    /\ at[p] = "markRead"
    /\ IF state \in VtFlowValidatedFromStates \cup {"TERMINATED_BY_VALIDATOR"}
       THEN /\ GotoWith(p, "markSave", [loc[p] EXCEPT !.seen = validation])
            /\ UNCHANGED lock
       ELSE Finish(p) /\ lock' = NoProc
    /\ UNCHANGED <<record, chain, line, exchange, bounds>>

\* Mutant: any recorded transaction counts as the landed one.
markSaveAnyTx(p) ==
    /\ at[p] = "markSave"
    /\ recordValidation(
          Decided(loc[p].seen.tx,
                  IF loc[p].seen.tx # NoTx THEN "SUCCEEDED" ELSE loc[p].seen.status),
          "VALIDATED")
    /\ lock' = NoProc
    /\ IF loc[p].goesOn THEN continueAfterValidated(p) ELSE Finish(p) /\ UNCHANGED line
    /\ UNCHANGED <<chain, exchange, bounds>>

\* agentTx: the landed transaction is the recorded one.
markSave(p) ==
    /\ at[p] = "markSave"
    /\ LET old == loc[p].seen
           agentTx == loc[p].landed # NoTx /\ old.tx = loc[p].landed
       IN  recordValidation(
              Decided(old.tx, IF agentTx THEN "SUCCEEDED" ELSE old.status),
              "VALIDATED")
    /\ lock' = NoProc
    /\ IF loc[p].goesOn THEN continueAfterValidated(p) ELSE Finish(p) /\ UNCHANGED line
    /\ UNCHANGED <<chain, exchange, bounds>>

\* The run of p ends, and the next one in line begins.
Leave(p) == line' = Tail(line) /\ Finish(p) /\ UNCHANGED lock

issuanceAfterValidated(p) ==
    /\ at[p] = "waiting" /\ Head(line) = p
    /\ \/ /\ Holder /\ state \in {"VALIDATED", "VALIDATED_PENDING_CLAIMS"}
          /\ GotoWith(p, "checkClaims", [loc[p] EXCEPT !.state = state])
          /\ UNCHANGED locks
       \/ /\ ~Holder \/ state \notin {"VALIDATED", "VALIDATED_PENDING_CLAIMS"}
          /\ Leave(p)
    /\ UNCHANGED <<record, chain, exchange, bounds>>

\* The claims do not fit the schema.
markPendingClaims(p) ==
    /\ at[p] = "checkClaims"
    /\ loc[p].state = "VALIDATED"
    /\ state' = IF state = "VALIDATED" THEN "VALIDATED_PENDING_CLAIMS" ELSE state
    /\ Leave(p)
    /\ UNCHANGED <<terminated, validation, chain, exchange, bounds>>

\* They fit: offerOnboardingCredential up to the assertion of
\* offerCredentialForSession.  The indexer, the connection or the credential
\* may stop it.
offerCredential(p) ==
    /\ at[p] = "checkClaims"
    /\ \/ state \in OfferStates /\ Goto(p, "send") /\ UNCHANGED locks
       \/ Leave(p)
    /\ UNCHANGED <<record, chain, exchange, bounds>>

sendOffer(p) ==
    /\ at[p] = "send"
    /\ \/ /\ offers' = offers + 1 /\ open' = open + 1
          /\ Goto(p, "attach")
          /\ UNCHANGED locks
       \/ Leave(p) /\ UNCHANGED exchange
    /\ UNCHANGED <<record, chain, bounds>>

attachCredentialExchangeRecord(p) ==
    /\ at[p] = "attach"
    /\ state' = IF state \in OfferStates THEN "CRED_OFFERED" ELSE state
    /\ Leave(p)
    /\ UNCHANGED <<terminated, validation, chain, exchange, bounds>>

-----------------------------------------------------------------------------
\* validateFlow and submitValidation

validateFlow(p) ==
    /\ p \in Admins /\ at[p] = "idle"
    /\ calls < MaxCalls /\ calls' = calls + 1
    /\ GotoWith(p, "validate", Snapshot)
    /\ UNCHANGED <<record, chain, locks, exchange, reconnects, readFails, crashes>>

\* Where validateFlow goes once it has read the entry.
AfterEntry(s, entryValidated) ==
    IF s = "VALIDATED_PENDING_CLAIMS" \/ (entryValidated /\ s = "VALIDATED")
    THEN "continue"
    ELSE IF entryValidated THEN "mark" ELSE "submit"

\* The state, the claims or the terms may be refused.
validateEntry(p) ==
    /\ at[p] = "validate"
    /\ \/ Finish(p)
       \/ /\ indexed /\ isRejectedInFlight(loc[p])
          /\ Goto(p, "mark")
       \/ /\ ~(indexed /\ isRejectedInFlight(loc[p]))
          /\ loc[p].state \in ValidateStates(indexed)
          /\ ~loc[p].terminated
          /\ GotoWith(p,
                IF loc[p].state = "OOB_PENDING" THEN "sendValidating"
                ELSE AfterEntry(loc[p].state, indexed),
                [loc[p] EXCEPT !.known = indexed, !.goesOn = TRUE])
    /\ UNCHANGED <<record, chain, locks, exchange, bounds>>

\* sendValidatingForSession asserts OOB_PENDING; the send can fail after it.
validateSendsValidating(p) ==
    /\ at[p] = "sendValidating"
    /\ \/ /\ state = "OOB_PENDING"
          /\ state' = "VALIDATING"
          /\ \/ Goto(p, AfterEntry(loc[p].state, loc[p].known))
             \/ Finish(p)
       \/ Finish(p) /\ UNCHANGED state
    /\ UNCHANGED <<terminated, validation, chain, locks, exchange, bounds>>

validateContinues(p) ==
    /\ at[p] = "continue"
    /\ continueAfterValidated(p)
    /\ UNCHANGED <<record, chain, lock, exchange, bounds>>

\* submissionPath: the agent holds no grant, so an operator submits.
awaitOperator(p) ==
    /\ at[p] = "submit"
    /\ recordValidation(Decided(NoTx, "NONE"), "AWAITING_VALIDATION_TX")
    /\ Finish(p)
    /\ UNCHANGED <<chain, locks, exchange, bounds>>

\* The agent submits: preflight and broadcastWithoutWaiting.  An error does
\* not prove that the transaction was not accepted.
broadcast(p) ==
    /\ at[p] = "submit"
    /\ \/ Goto(p, "submitFailed") /\ UNCHANGED txs
       \/ \E t \in Txs :
            /\ txs[t] = "unsent"
            /\ txs' = [txs EXCEPT ![t] = "pending"]
            /\ \/ GotoWith(p, "submitted", [loc[p] EXCEPT !.landed = t])
               \/ Goto(p, "submitFailed")
    /\ UNCHANGED <<record, entry, indexed, late, feed, locks, exchange, bounds>>

submitFailed(p) ==
    /\ at[p] = "submitFailed"
    /\ recordValidation(Decided(NoTx, "FAILED"), "VALIDATION_TX_FAILED")
    /\ Finish(p)
    /\ UNCHANGED <<chain, locks, exchange, bounds>>

\* The call records its transaction, starts the lookup and returns.
recordSubmitted(p) ==
    /\ at[p] = "submitted"
    /\ recordValidation(Decided(loc[p].landed, "SUBMITTED"), "VALIDATION_TX_SUBMITTED")
    /\ at' = [at EXCEPT ![p] = "idle", ![loc[p].landed] = "resolve"]
    /\ loc' = [loc EXCEPT ![p] = NoLocals]
    /\ UNCHANGED <<chain, locks, exchange, bounds>>

-----------------------------------------------------------------------------
\* resolveValidationTx and failUnlessValidated

resolveValidationTx(r) ==
    /\ at[r] = "resolve"
    /\ IF state = "VALIDATION_TX_SUBMITTED" /\ validation.tx # NoTx
       THEN GotoWith(r, "findTx", [Snapshot EXCEPT !.known = loc[r].known])
       ELSE Finish(r)
    /\ UNCHANGED <<record, chain, locks, exchange, bounds>>

\* Mutant: the lookup has no timeout.
findTxForever(r) ==
    /\ at[r] = "findTx"
    /\ LET t == loc[r].seen.tx IN
        \/ /\ loc[r].known \/ txs[t] = "ok"
           /\ GotoWith(r, "lookupEntry", [loc[r] EXCEPT !.known = TRUE])
        \/ /\ ~loc[r].known /\ txs[t] = "failed"
           /\ GotoWith(r, "failEntry", [loc[r] EXCEPT !.txFailed = TRUE])
        \/ ~loc[r].known /\ txs[t] = "pending" /\ Goto(r, "resolve")
    /\ UNCHANGED <<record, chain, locks, exchange, bounds>>

\* known: an earlier round has seen the transaction land.
findTx(r) ==
    /\ at[r] = "findTx"
    /\ LET t == loc[r].seen.tx IN
        \/ /\ loc[r].known \/ txs[t] = "ok"
           /\ GotoWith(r, "lookupEntry", [loc[r] EXCEPT !.known = TRUE])
        \/ /\ ~loc[r].known /\ txs[t] = "failed"
           /\ GotoWith(r, "failEntry", [loc[r] EXCEPT !.txFailed = TRUE])
        \/ /\ ~loc[r].known /\ txs[t] = "pending"
           /\ Goto(r, IF t \in late THEN "failEntry" ELSE "resolve")
    /\ UNCHANGED <<record, chain, locks, exchange, bounds>>

\* The lookup itself fails, which counts as not found.
findTxFails(r) ==
    /\ at[r] = "findTx" /\ ~loc[r].known
    /\ readFails < MaxReadFails /\ readFails' = readFails + 1
    /\ Goto(r, IF loc[r].seen.tx \in late THEN "failEntry" ELSE "resolve")
    /\ UNCHANGED <<record, chain, locks, exchange, calls, reconnects, crashes>>

lookupEntry(r) ==
    /\ at[r] = "lookupEntry"
    /\ \/ /\ indexed
          /\ GotoWith(r, "mark", [loc[r] EXCEPT !.landed = loc[r].seen.tx,
                                                !.goesOn = TRUE])
       \/ ~indexed /\ loc[r].seen.tx \notin late /\ Goto(r, "resolve")
       \/ ~indexed /\ loc[r].seen.tx \in late /\ Finish(r)
    /\ UNCHANGED <<record, chain, locks, exchange, bounds>>

failUnlessValidated(r) ==
    /\ at[r] = "failEntry"
    /\ Goto(r, IF indexed THEN "failRecheck" ELSE "fail")
    /\ UNCHANGED <<record, chain, locks, exchange, bounds>>

failRecheck(r) ==
    /\ at[r] = "failRecheck"
    /\ IF state # "VALIDATION_TX_SUBMITTED" THEN Finish(r)
       ELSE GotoWith(r, IF loc[r].txFailed THEN "failKeep" ELSE "mark",
                     [loc[r] EXCEPT !.goesOn = TRUE])
    /\ UNCHANGED <<record, chain, locks, exchange, bounds>>

failKeep(r) ==
    /\ at[r] = "failKeep"
    /\ validation' = Decided(loc[r].seen.tx, "FAILED")
    /\ Goto(r, "mark")
    /\ UNCHANGED <<state, terminated, chain, locks, exchange, bounds>>

failRecord(r) ==
    /\ at[r] = "fail"
    /\ recordValidation(Decided(loc[r].seen.tx, "FAILED"), "VALIDATION_TX_FAILED")
    /\ Finish(r)
    /\ UNCHANGED <<chain, locks, exchange, bounds>>

-----------------------------------------------------------------------------
\* rejectFlow and the other admin calls

rejectFlow(p) ==
    /\ p \in Admins /\ at[p] = "idle"
    /\ calls < MaxCalls /\ calls' = calls + 1
    /\ state \in REJECT_STATES
    /\ GotoWith(p,
          IF state \in {"AWAITING_VALIDATION_TX", "VALIDATION_TX_FAILED"}
          THEN "rejectEntry" ELSE "terminate",
          [Snapshot EXCEPT !.goesOn = TRUE])
    /\ UNCHANGED <<record, chain, locks, exchange, reconnects, readFails, crashes>>

\* Mutant: the entry is not looked at.
rejectEntryUnread(p) ==
    /\ at[p] = "rejectEntry"
    /\ Goto(p, "mark")
    /\ UNCHANGED <<record, chain, locks, exchange, bounds>>

rejectEntry(p) ==
    /\ at[p] = "rejectEntry"
    /\ Goto(p, IF indexed THEN "mark" ELSE "terminate")
    /\ UNCHANGED <<record, chain, locks, exchange, bounds>>

terminateByValidator(p) ==
    /\ at[p] = "terminate"
    /\ IF state \in TerminateStates
       THEN state' = "TERMINATED_BY_VALIDATOR" /\ terminated' = TRUE
       ELSE UNCHANGED <<state, terminated>>
    /\ Finish(p)
    /\ UNCHANGED <<validation, chain, locks, exchange, bounds>>

sendOobLink(p) ==
    /\ p \in Admins /\ at[p] = "idle"
    /\ calls < MaxCalls /\ calls' = calls + 1
    /\ state \in {"VALIDATING", "OOB_PENDING"}
    /\ state' = "OOB_PENDING"
    /\ UNCHANGED <<terminated, validation, chain, at, loc, locks, exchange,
                   reconnects, readFails, crashes>>

startValidation(p) ==
    /\ p \in Admins /\ at[p] = "idle"
    /\ calls < MaxCalls /\ calls' = calls + 1
    /\ state = "OOB_PENDING"
    /\ state' = "VALIDATING"
    /\ UNCHANGED <<terminated, validation, chain, at, loc, locks, exchange,
                   reconnects, readFails, crashes>>

-----------------------------------------------------------------------------
\* The notification handler: one event at a time, recorded when it returned.

\* markVtFlowRecordsValidated
handleValidated ==
    /\ at[Handler] = "idle" /\ feed # <<>> /\ Head(feed).msg = "validated"
    /\ IF state \in VtFlowValidatedFromStates \/ isRejectedInFlight(Snapshot)
       THEN GotoWith(Handler, "mark",
                [Snapshot EXCEPT !.landed = Head(feed).tx,
                                 !.goesOn = ~isRejectedInFlight(Snapshot)])
       ELSE Finish(Handler)
    /\ UNCHANGED <<record, chain, locks, exchange, bounds>>

\* terminateByChainEvent
handleRevoked ==
    /\ at[Handler] = "idle" /\ feed # <<>> /\ Head(feed).msg = "revoked"
    /\ state' = "PARTICIPANT_REVOKED"
    /\ Finish(Handler)
    /\ UNCHANGED <<terminated, validation, chain, locks, exchange, bounds>>

\* reconcileVtFlowRecordsOnCancel; the entry was never VALIDATED.
handleCancelled ==
    /\ at[Handler] = "idle" /\ feed # <<>> /\ Head(feed).msg = "cancelled"
    /\ state' = IF state \in VtFlowTerminalStates THEN state
                ELSE "TERMINATED_BY_APPLICANT"
    /\ Finish(Handler)
    /\ UNCHANGED <<terminated, validation, chain, locks, exchange, bounds>>

saveEvent ==
    /\ at[Handler] = "save"
    /\ feed' = Tail(feed)
    /\ Goto(Handler, "idle")
    /\ UNCHANGED <<record, entry, indexed, txs, late, locks, exchange, bounds>>

-----------------------------------------------------------------------------
\* acceptOnboardingRequest with checkParticipantId.

\* The read that follows the request; known: validatedAtFirstRead.
checkParticipantId ==
    /\ at[Accept] \in {"acceptFirst", "acceptAgain"}
    /\ LET first == at[Accept] = "acceptFirst"
           settled == state # "AWAITING_OR" \/ lock # NoProc
           shown == indexed /\ entry = "VALIDATED"
       IN  \/ /\ entry \in {"PENDING", "VALIDATED"} /\ ~indexed
              /\ Goto(Accept, "acceptSave")
           \/ shown /\ settled /\ Finish(Accept)
           \/ /\ shown /\ ~settled /\ ~first /\ ~loc[Accept].known
              /\ GotoWith(Accept, "mark", [loc[Accept] EXCEPT !.goesOn = TRUE])
           \/ /\ shown /\ ~settled /\ first
              /\ GotoWith(Accept, "acceptAgain", [NoLocals EXCEPT !.known = TRUE])
           \/ Goto(Accept, "acceptRefuse")
    /\ UNCHANGED <<record, chain, locks, exchange, bounds>>

\* The indexer does not show the entry, or does not answer, at the first read.
checkParticipantIdWaits ==
    /\ at[Accept] = "acceptFirst"
    /\ Goto(Accept, "acceptAgain")
    /\ UNCHANGED <<record, chain, locks, exchange, bounds>>

acceptOnboardingRequest ==
    /\ at[Accept] = "acceptSave"
    /\ state' = IF state = "AWAITING_OR" THEN "VALIDATING" ELSE state
    /\ Finish(Accept)
    /\ UNCHANGED <<terminated, validation, chain, locks, exchange, bounds>>

\* rejectRequest with INVALID_PARTICIPANT_ID, which the applicant may retry
rejectRequest ==
    /\ at[Accept] = "acceptRefuse"
    /\ state' = IF state \in {"VALIDATING", "OOB_PENDING"} THEN "AWAITING_OR" ELSE state
    /\ Finish(Accept)
    /\ UNCHANGED <<terminated, validation, chain, locks, exchange, bounds>>

-----------------------------------------------------------------------------
\* Messages of the applicant.

\* processReceiveOnboardingRequest for a flow that exists; a finished flow
\* would be renewed, which is out of scope.
processReceiveOnboardingRequest ==
    /\ reconnects < MaxReattach /\ reconnects' = reconnects + 1
    /\ state \notin VtFlowTerminalStates \cup {"COMPLETED"}
    /\ Holder \/ state # "VALIDATED"
    /\ terminated' = FALSE
    /\ \/ /\ state = "CRED_OFFERED"
          /\ state' = "VALIDATED"
          /\ open' = IF open > 0 THEN open - 1 ELSE 0
          /\ UNCHANGED <<at, loc, line, offers>>
       \/ /\ state = "VALIDATED" /\ terminated /\ at[Reconnect] = "idle"
          /\ continueAfterValidated(Reconnect)
          /\ UNCHANGED <<state, exchange>>
       \/ /\ state = "AWAITING_OR" /\ at[Accept] = "idle"
          /\ GotoWith(Accept, "acceptFirst", NoLocals)
          /\ UNCHANGED <<state, line, exchange>>
       \/ /\ state \notin {"CRED_OFFERED", "AWAITING_OR"}
          /\ ~(state = "VALIDATED" /\ terminated)
          /\ UNCHANGED <<state, at, loc, line, exchange>>
    /\ UNCHANGED <<validation, chain, lock, calls, readFails, crashes>>

\* processReceiveProblemReport: the applicant reports an error that ends the
\* flow, its own termination or another one of the table.
applicantTerminates ==
    /\ state \notin VtFlowTerminalStates
    /\ state' \in VtFlowTerminalStates \ {"TERMINATED_BY_VALIDATOR"}
    /\ UNCHANGED <<terminated, validation, chain, at, loc, locks, exchange, bounds>>

\* onSubprotocolStateChanged: an exchange ends, whatever the state is.
exchangeEnds ==
    /\ open > 0 /\ open' = open - 1
    /\ state' \in {"COMPLETED", "ERROR"}
    /\ UNCHANGED <<terminated, validation, chain, at, loc, locks, offers, bounds>>

\* The applicant requests the credential and its issuance throws: VtFlowModule
\* ends the flow.
autoIssueThrows ==
    /\ open > 0 /\ open' = open - 1
    /\ IF state \in TerminateStates
       THEN state' = "TERMINATED_BY_VALIDATOR" /\ terminated' = TRUE
       ELSE UNCHANGED <<state, terminated>>
    /\ UNCHANGED <<validation, chain, at, loc, locks, offers, bounds>>

-----------------------------------------------------------------------------
\* The agent dies and starts anew: the record and the feed outlive it, and
\* resumeValidationSubmissions starts the lookup of a submitted transaction.
crashAndRestart ==
    /\ crashes < MaxCrashes /\ crashes' = crashes + 1
    /\ at' = [p \in Procs |->
                 IF state = "VALIDATION_TX_SUBMITTED" /\ p = validation.tx
                 THEN "resolve" ELSE "idle"]
    /\ loc' = [p \in Procs |-> NoLocals]
    /\ lock' = NoProc /\ line' = <<>>
    /\ UNCHANGED <<record, chain, exchange, calls, reconnects, readFails>>

-----------------------------------------------------------------------------
\* One step of a procedure that runs.
IssuanceStep(p) ==
    \/ issuanceAfterValidated(p) \/ markPendingClaims(p) \/ offerCredential(p)
    \/ sendOffer(p) \/ attachCredentialExchangeRecord(p)

MarkStep(p) == markValidated(p) \/ markRead(p) \/ markSave(p)

AdminStep(p) ==
    \/ validateEntry(p) \/ validateSendsValidating(p) \/ validateContinues(p)
    \/ awaitOperator(p) \/ broadcast(p) \/ submitFailed(p) \/ recordSubmitted(p)
    \/ rejectEntry(p) \/ terminateByValidator(p)

LookupStep(r) ==
    \/ resolveValidationTx(r) \/ findTx(r) \/ lookupEntry(r)
    \/ failUnlessValidated(r) \/ failRecheck(r) \/ failKeep(r) \/ failRecord(r)

HandlerStep ==
    handleValidated \/ handleRevoked \/ handleCancelled \/ saveEvent

AcceptStep ==
    \/ checkParticipantId \/ checkParticipantIdWaits
    \/ acceptOnboardingRequest \/ rejectRequest

AdminCall(p) ==
    validateFlow(p) \/ rejectFlow(p) \/ sendOobLink(p) \/ startValidation(p)

ChainStep ==
    \/ \E t \in Txs : IncludeTx(t) \/ RefuseTx(t) \/ Expire(t)
    \/ OperatorValidates \/ Index \/ Cancel \/ Revoke

ReadFailure(p) ==
    /\ \/ at[p] \in {"validate", "rejectEntry", "lookupEntry", "failEntry"}
       \/ at[p] = "mark" /\ p = Handler
    /\ ReadFails(p)

Next ==
    \/ ChainStep
    \/ \E p \in Procs : IssuanceStep(p) \/ MarkStep(p) \/ ReadFailure(p)
    \/ \E p \in Admins : AdminCall(p) \/ AdminStep(p)
    \/ \E r \in Txs : LookupStep(r) \/ findTxFails(r)
    \/ HandlerStep \/ AcceptStep
    \/ processReceiveOnboardingRequest \/ applicantTerminates \/ exchangeEnds
    \/ autoIssueThrows \/ crashAndRestart

Spec == Init /\ [][Next]_vars

\* Procedures run on, the 60 seconds pass, the indexer indexes and notifies.
\* Nothing is assumed of admins, of the applicant or of the inclusion of a
\* transaction.
Fairness ==
    /\ WF_vars(Index)
    /\ WF_vars(HandlerStep)
    /\ \A t \in Txs : WF_vars(Expire(t)) /\ WF_vars(LookupStep(t))
    /\ \A p \in Procs : WF_vars(IssuanceStep(p) \/ MarkStep(p))

FairSpec == Spec /\ Fairness

-----------------------------------------------------------------------------
\* Properties.

Validations == [decided : BOOLEAN, tx : Txs \cup {NoTx},
                status : {"NONE", "SUBMITTED", "SUCCEEDED", "FAILED"}]

Locals == [state : VtFlowState, terminated : BOOLEAN, seen : Validations,
           landed : Txs \cup {NoTx}, known : BOOLEAN, goesOn : BOOLEAN,
           txFailed : BOOLEAN]

Notices == [msg : {"validated", "revoked", "cancelled"}, tx : Txs \cup {NoTx}]

MarkSteps  == {"markRead", "markSave"}
IssueSteps == {"checkClaims", "send", "attach"}
Steps == {"idle", "save", "mark", "continue", "waiting", "validate",
          "sendValidating", "submit", "submitFailed",
          "submitted", "resolve", "findTx", "lookupEntry", "failEntry",
          "failRecheck", "failKeep", "fail", "rejectEntry", "terminate",
          "acceptFirst", "acceptAgain", "acceptSave",
          "acceptRefuse"} \cup MarkSteps \cup IssueSteps

\* Every variable has the type the code gives it.
TypeOK ==
    /\ state \in VtFlowState /\ terminated \in BOOLEAN /\ validation \in Validations
    /\ entry \in {"PENDING", "VALIDATED", "TERMINATED", "REVOKED"}
    /\ indexed \in BOOLEAN
    /\ txs \in [Txs -> {"unsent", "pending", "ok", "failed"}]
    /\ late \subseteq Txs /\ feed \in Seq(Notices)
    /\ at \in [Procs -> Steps] /\ loc \in [Procs -> Locals]
    /\ lock \in Procs \cup {NoProc} /\ line \in Seq(Procs)
    /\ offers \in Nat /\ open \in Nat
    /\ calls \in 0..MaxCalls /\ reconnects \in 0..MaxReattach
    /\ readFails \in 0..MaxReadFails /\ crashes \in 0..MaxCrashes

\* One procedure at a time moves the flow to VALIDATED (markingValidated), and
\* one at a time runs the issuance (continuingAfterValidated); an exception or
\* a crash leaves neither of them held.
OneRunPerFlow ==
    /\ \A p \in Procs : at[p] \in MarkSteps <=> lock = p
    /\ \A p \in Procs : at[p] \in IssueSteps => line # <<>> /\ Head(line) = p

EntryValidated == entry \in {"VALIDATED", "REVOKED"}

\* A flow that counts as VALIDATED, and every offer, rests on an entry that
\* is VALIDATED on the chain, whichever procedure moved the flow and however
\* long before it had read the entry.
OfferOnlyIfValidated ==
    \/ EntryValidated
    \/ /\ offers = 0
       /\ state \notin {"VALIDATED", "VALIDATED_PENDING_CLAIMS", "CRED_OFFERED"}

\* The inductive invariant behind the two properties above.

\* The line holds each procedure once, and exactly those that wait or run.
InvLine ==
    /\ \A p \in Procs :
          at[p] \in {"waiting"} \cup IssueSteps <=> \E i \in 1..Len(line) : line[i] = p
    /\ \A i, j \in 1..Len(line) : line[i] = line[j] => i = j

\* What a procedure has seen of the chain stays true.
InvSeen ==
    /\ indexed => EntryValidated
    /\ \A i \in 1..Len(feed) : feed[i].msg = "validated" => EntryValidated
    /\ \A p \in Procs :
        /\ at[p] \in {"mark", "continue", "waiting", "failRecheck", "failKeep"}
                      \cup MarkSteps \cup IssueSteps => EntryValidated
        /\ at[p] = "sendValidating" /\ loc[p].known => EntryValidated
        /\ loc[p].state \in {"VALIDATED", "VALIDATED_PENDING_CLAIMS"} => EntryValidated

Sent(t) == t \in Txs => txs[t] # "unsent"

\* A lookup starts once per transaction, after its broadcast.
InvLookup ==
    /\ Sent(validation.tx)
    /\ \A i \in 1..Len(feed) : Sent(feed[i].tx)
    /\ \A p \in Procs : Sent(loc[p].seen.tx) /\ Sent(loc[p].landed)
    /\ \A t \in Txs : at[t] # "idle" => txs[t] # "unsent"
    /\ \A p \in Procs :
          at[p] = "submitted" =>
              /\ p \in Admins
              /\ loc[p].landed \in Txs /\ at[loc[p].landed] = "idle"
              /\ \A q \in Procs :
                    at[q] = "submitted" /\ loc[q].landed = loc[p].landed => q = p

\* An event stays first in the feed until its handling has ended and is saved.
InvFeed == at[Handler] # "idle" => feed # <<>>

\* Every step of every procedure preserves the locks, the evidence behind a
\* VALIDATED flow, the one lookup per transaction and the event being handled.
FlowInv ==
    /\ OneRunPerFlow /\ OfferOnlyIfValidated /\ InvLine /\ InvSeen /\ InvLookup
    /\ InvFeed

\* The transaction of a record that says SUCCEEDED was included.
Included(t) == t \in Txs /\ txs[t] = "ok"
SucceededOk(v) == v.status = "SUCCEEDED" => Included(v.tx)

\* A transaction recorded SUCCEEDED is one that the chain included (markValidated).
SucceededIsIncluded == SucceededOk(validation)

\* Admin calls do not overlap.  When they do, a lookup that saw its transaction
\* land can take the transaction of the other call for it.
CallsInTurn == \A p, q \in Admins : at[p] # "idle" /\ at[q] # "idle" => p = q

LookupSteps == {"resolve", "findTx", "lookupEntry", "failEntry", "failRecheck", "failKeep", "fail"}

\* An admin call that can still broadcast, or record that it failed to.
MaySubmit(p) ==
    \/ at[p] \in {"submit", "submitted", "submitFailed"}
    \/ at[p] = "sendValidating" /\ ~loc[p].known
    \/ at[p] = "validate" /\ loc[p].state \in REJECT_STATES

\* While a lookup runs no call submits again, so that it is the only one.
InvOneLookup ==
    \A r \in Txs : at[r] \in LookupSteps =>
        /\ state \notin REJECT_STATES
        /\ \A p \in Admins : ~MaySubmit(p)
        /\ \A q \in Txs : at[q] \in LookupSteps => q = r

\* What a procedure takes for landed was included: what it has read, what a
\* notification names, and what the lookup remembers of an earlier round, which
\* is still the transaction of the record.
InvLanded ==
    /\ \A i \in 1..Len(feed) : feed[i].tx \in Txs => Included(feed[i].tx)
    /\ \A p \in Procs :
        /\ SucceededOk(loc[p].seen)
        /\ at[p] # "submitted" /\ loc[p].landed \in Txs => Included(loc[p].landed)
    /\ \A r \in Txs :
        /\ at[r] \in LookupSteps /\ loc[r].known => Included(loc[r].seen.tx)
        /\ at[r] = "idle" => ~loc[r].known
        /\ at[r] = "lookupEntry" => loc[r].known
        /\ at[r] = "findTx" => loc[r].seen.tx \in Txs
        /\ at[r] \in {"resolve", "findTx", "lookupEntry"} /\ state = "VALIDATION_TX_SUBMITTED"
               => \/ at[r] = "resolve" /\ ~loc[r].known
                  \/ validation.tx = loc[r].seen.tx

\* The inductive invariant behind it.
IncludedInv == SucceededIsIncluded /\ InvOneLookup /\ InvLanded

\* A flow does not stay in VALIDATION_TX_SUBMITTED: the lookup, its timeout or
\* the notification moves it, a restart included (resolveValidationTx).
SubmissionResolved ==
    state = "VALIDATION_TX_SUBMITTED" ~> state # "VALIDATION_TX_SUBMITTED"

\* resolveValidationTx: "Leaving VALIDATION_TX_SUBMITTED ends the loop, so the
\* notification handler moving the flow first wins the race."
NotificationWins ==
    [][\A r \in Txs :
         failRecord(r) => state \notin {"VALIDATED", "CRED_OFFERED"}]_vars

\* continueAfterValidated: "one run at a time per flow: two callers at once
\* would both read VALIDATED and offer twice".  No second offer is sent while
\* the exchange of the first one is open.
OfferedOnce == open <= 1

\* markVtFlowRecordsValidated: "the connection stays TERMINATED, so issuance
\* waits for the applicant to reconnect".
NoOfferWhileTerminated == [][offers' # offers => ~terminated]_vars
=============================================================================
