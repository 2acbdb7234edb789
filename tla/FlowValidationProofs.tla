------------------------- MODULE FlowValidationProofs -------------------------
(***************************************************************************)
(* Proofs about the validation of a flow (FlowValidation), for any sets of *)
(* admins and transactions and any bounds: its types, the invariant        *)
(* FlowInv of its locks, its evidence and its lookups; and that a          *)
(* transaction recorded SUCCEEDED was included, when calls do not overlap. *)
(*                                                                         *)
(* The first two are proved by one induction over IInv, their conjunction. *)
(* The type of the record depends on what a procedure has read before      *)
(* (TypeProcs), the lock of markValidated and the line of concludeFlow on  *)
(* how a procedure can move (LockMove, LineMove), the offer on a procedure *)
(* having seen the entry VALIDATED (NotSeen, as long as it is not), and    *)
(* the lookups on each transaction having one submitter (SubmitMove,       *)
(* WakeMove). Each of these is a lemma over all actions; NextInv puts them *)
(* together.                                                               *)
(*                                                                         *)
(* SUCCEEDED has an induction of its own over IncludedInv: no second       *)
(* lookup begins while one runs (InvOneLookup), and whatever a procedure   *)
(* takes for the landed transaction was included (InvLanded).              *)
(***************************************************************************)
EXTENDS MCFlowValidation, SequenceTheorems, TLAPS

\* The procedures of a flow are different from each other and from the values
\* that stand for none.
LEMMA ConstFacts ==
    /\ Txs \subseteq Procs /\ Admins \subseteq Procs
    /\ Handler \in Procs /\ Accept \in Procs /\ Reconnect \in Procs
    /\ Admins \cap Txs = {} /\ Handler \notin Txs /\ Accept \notin Txs /\ Reconnect \notin Txs
    /\ Handler \notin Admins /\ Accept \notin Admins /\ Reconnect \notin Admins
    /\ Handler # Accept /\ Handler # Reconnect /\ Accept # Reconnect
    /\ NoTx \notin Procs /\ NoProc \notin Procs
    /\ Holder \in BOOLEAN /\ MaxCalls \in Nat /\ MaxReattach \in Nat
    /\ MaxReadFails \in Nat /\ MaxCrashes \in Nat
BY ProcsAssumption, BoundsAssumption DEF Procs

\* The validationTx.status values of a record.
Statuses == {"NONE", "SUBMITTED", "SUCCEEDED", "FAILED"}

\* The states the procedures assign are states of a flow.
LEMMA StateFacts ==
    /\ VtFlowTerminalStates \subseteq VtFlowState
    /\ VtFlowValidatedFromStates \subseteq VtFlowState
    /\ {"TERMINATED_BY_VALIDATOR", "TERMINATED_BY_APPLICANT", "ERROR", "PARTICIPANT_REVOKED",
        "VALIDATED", "VALIDATED_PENDING_CLAIMS", "CRED_OFFERED", "COMPLETED",
        "AWAITING_OR", "VALIDATING", "OOB_PENDING", "AWAITING_VALIDATION_TX",
        "VALIDATION_TX_SUBMITTED", "VALIDATION_TX_FAILED"} \subseteq VtFlowState
BY DEF VtFlowState, VtFlowTerminalStates, VtFlowValidatedFromStates

\* What a procedure keeps across its awaits, and that each assignment to it
\* keeps its type.
LEMMA LocalsFacts ==
    /\ NoValidation \in Validations
    /\ NoLocals \in Locals
    /\ \A t \in Txs \cup {NoTx}, s \in Statuses : Decided(t, s) \in Validations
    /\ \A v \in Validations : v.tx \in Txs \cup {NoTx} /\ v.status \in Statuses
    /\ \A l \in Locals :
        /\ l.seen \in Validations /\ l.landed \in Txs \cup {NoTx}
        /\ \A b \in BOOLEAN : /\ [l EXCEPT !.known = b] \in Locals
                              /\ [l EXCEPT !.goesOn = b] \in Locals
                              /\ [l EXCEPT !.txFailed = b] \in Locals
        /\ \A t \in Txs \cup {NoTx} : [l EXCEPT !.landed = t] \in Locals
        /\ \A v \in Validations : [l EXCEPT !.seen = v] \in Locals
        /\ \A s \in VtFlowState : [l EXCEPT !.state = s] \in Locals
BY StateFacts DEF Locals, Validations, NoLocals, NoValidation, Decided, Statuses

\* The type invariant by the groups of variables that a step changes together:
\* the stored record,
TypeRecord == state \in VtFlowState /\ terminated \in BOOLEAN /\ validation \in Validations

\* the procedures and what each of them holds,
TypeProcs == at \in [Procs -> Steps] /\ loc \in [Procs -> Locals]

\* What a procedure reads of the record when it starts has the type of what it
\* holds.
LEMMA SnapshotType ==
  ASSUME TypeRecord PROVE Snapshot \in Locals
<1>1. [NoLocals EXCEPT !.state = state] \in Locals
  BY LocalsFacts DEF TypeRecord
<1>2. [NoLocals EXCEPT !.state = state, !.terminated = terminated] \in Locals
  BY <1>1 DEF TypeRecord, Locals, NoLocals
<1>3. Snapshot = [[NoLocals EXCEPT !.state = state, !.terminated = terminated]
                    EXCEPT !.seen = validation]
  BY DEF Snapshot
<1> QED
  BY <1>2, <1>3, LocalsFacts DEF TypeRecord

\* the chain, the entry and the feed of notifications,
TypeChain ==
    /\ entry \in {"PENDING", "VALIDATED", "TERMINATED", "REVOKED"}
    /\ indexed \in BOOLEAN
    /\ txs \in [Txs -> {"unsent", "pending", "ok", "failed"}]
    /\ late \subseteq Txs /\ feed \in Seq(Notices)

\* the lock of markValidated and the line of the flow,
TypeLocks == lock \in Procs \cup {NoProc} /\ line \in Seq(Procs)

\* and the counters of the bounds.
TypeCounts ==
    /\ offers \in Nat /\ open \in Nat
    /\ calls \in 0..MaxCalls /\ reconnects \in 0..MaxReattach
    /\ readFails \in 0..MaxReadFails /\ crashes \in 0..MaxCrashes

\* Every write of the record (updateState, the transaction fields) writes a
\* state of a flow and a known transaction.
LEMMA RecordStep ==
  ASSUME TypeRecord, TypeProcs, Next
  PROVE TypeRecord'
<1> USE ConstFacts, LocalsFacts DEF TypeRecord, TypeProcs
<1> USE DEF record, recordValidation
<1>1. CASE ChainStep
  BY <1>1
     DEF ChainStep, IncludeTx, RefuseTx, Expire, OperatorValidates, Index, Cancel,
         Revoke
<1>2. ASSUME NEW p \in Procs, IssuanceStep(p) PROVE TypeRecord'
  BY <1>2, StateFacts
     DEF IssuanceStep, issuanceAfterValidated, markPendingClaims, offerCredential,
         sendOffer, attachCredentialExchangeRecord
<1>3. ASSUME NEW p \in Procs, MarkStep(p) \/ ReadFailure(p) PROVE TypeRecord'
  <2>1. CASE markSave(p)
    <3>1. \E s \in Statuses : validation' = Decided(loc[p].seen.tx, s)
      BY <2>1 DEF markSave, Statuses
    <3> QED
      BY <2>1, <3>1, StateFacts DEF markSave
  <2> QED
    BY <2>1, <1>3 DEF MarkStep, markValidated, markRead, ReadFailure, ReadFails
<1>4. ASSUME NEW p \in Admins, AdminCall(p) PROVE TypeRecord'
  BY <1>4, StateFacts
     DEF AdminCall, validateFlow, rejectFlow, sendOobLink, startValidation
<1>5. ASSUME NEW p \in Admins, AdminStep(p) PROVE TypeRecord'
  <2>1. CASE awaitOperator(p) \/ submitFailed(p) \/ recordSubmitted(p)
    BY <2>1, StateFacts DEF awaitOperator, submitFailed, recordSubmitted, Statuses
  <2>2. CASE validateSendsValidating(p) \/ terminateByValidator(p)
    BY <2>2, StateFacts DEF validateSendsValidating, terminateByValidator
  <2> QED
    BY <2>1, <2>2, <1>5
       DEF AdminStep, validateEntry, validateContinues, broadcast, rejectEntry
<1>6. ASSUME NEW r \in Txs, LookupStep(r) \/ findTxFails(r) PROVE TypeRecord'
  BY <1>6, StateFacts
     DEF LookupStep, resolveValidationTx, findTx, lookupEntry, failUnlessValidated,
         failRecheck, failKeep, failRecord, findTxFails, Statuses
<1>7. CASE HandlerStep \/ AcceptStep
  BY <1>7, StateFacts
     DEF HandlerStep, AcceptStep, handleValidated, handleRevoked, handleCancelled,
         saveEvent, checkParticipantId, checkParticipantIdWaits,
         acceptOnboardingRequest, rejectRequest
<1>8. CASE processReceiveOnboardingRequest \/ applicantTerminates \/ exchangeEnds
           \/ autoIssueThrows \/ crashAndRestart
  BY <1>8, StateFacts
     DEF processReceiveOnboardingRequest, applicantTerminates, exchangeEnds,
         autoIssueThrows, crashAndRestart
<1> QED
  BY <1>1, <1>2, <1>3, <1>4, <1>5, <1>6, <1>7, <1>8 DEF Next

\* A notification is taken off the feed only when there is one.
LEMMA ChainTypeStep ==
  ASSUME TypeChain, InvFeed, Next
  PROVE TypeChain'
<1> USE DEF chain, TypeChain
<1>1. CASE ChainStep
  <2>1. CASE Index \/ Cancel \/ Revoke
    <3>1. \E n \in Notices : feed' = Append(feed, n)
      BY <2>1 DEF Index, Cancel, Revoke, Notices
    <3>2. feed' \in Seq(Notices)
      BY <3>1, AppendProperties
    <3> QED
      BY <2>1, <3>2 DEF Index, Cancel, Revoke
  <2> QED
    BY <1>1, <2>1 DEF ChainStep, IncludeTx, RefuseTx, Expire, OperatorValidates
<1>2. ASSUME NEW p \in Procs, IssuanceStep(p) PROVE TypeChain'
  BY <1>2
     DEF IssuanceStep, issuanceAfterValidated, markPendingClaims, offerCredential,
         sendOffer, attachCredentialExchangeRecord
<1>3. ASSUME NEW p \in Procs, MarkStep(p) \/ ReadFailure(p) PROVE TypeChain'
  BY <1>3 DEF MarkStep, markValidated, markRead, markSave, ReadFailure, ReadFails
<1>4. ASSUME NEW p \in Admins, AdminCall(p) PROVE TypeChain'
  BY <1>4 DEF AdminCall, validateFlow, rejectFlow, sendOobLink, startValidation
<1>5. ASSUME NEW p \in Admins, AdminStep(p) PROVE TypeChain'
  BY <1>5
     DEF AdminStep, validateEntry, validateSendsValidating, validateContinues,
         awaitOperator, broadcast, submitFailed, recordSubmitted, rejectEntry,
         terminateByValidator
<1>6. ASSUME NEW r \in Txs, LookupStep(r) \/ findTxFails(r) PROVE TypeChain'
  BY <1>6
     DEF LookupStep, resolveValidationTx, findTx, lookupEntry, failUnlessValidated,
         failRecheck, failKeep, failRecord, findTxFails
<1>7. CASE HandlerStep
  BY <1>7, HeadTailProperties
     DEF HandlerStep, handleValidated, handleRevoked, handleCancelled, saveEvent,
         InvFeed
<1>8. CASE AcceptStep
  BY <1>8
     DEF AcceptStep, checkParticipantId, checkParticipantIdWaits,
         acceptOnboardingRequest, rejectRequest
<1>9. CASE processReceiveOnboardingRequest \/ applicantTerminates \/ exchangeEnds
           \/ autoIssueThrows \/ crashAndRestart
  BY <1>9
     DEF processReceiveOnboardingRequest, applicantTerminates, exchangeEnds,
         autoIssueThrows, crashAndRestart
<1> QED
  BY <1>1, <1>2, <1>3, <1>4, <1>5, <1>6, <1>7, <1>8, <1>9 DEF Next

\* Each bounded event stays in its bound.
LEMMA CountsStep ==
  ASSUME TypeCounts, Next
  PROVE TypeCounts'
<1> USE DEF bounds, exchange, TypeCounts
<1> USE ConstFacts
<1>1. CASE ChainStep
  BY <1>1
     DEF ChainStep, IncludeTx, RefuseTx, Expire, OperatorValidates, Index, Cancel,
         Revoke
<1>2. ASSUME NEW p \in Procs, IssuanceStep(p) PROVE TypeCounts'
  BY <1>2
     DEF IssuanceStep, issuanceAfterValidated, markPendingClaims, offerCredential,
         sendOffer, attachCredentialExchangeRecord
<1>3. ASSUME NEW p \in Procs, MarkStep(p) \/ ReadFailure(p) PROVE TypeCounts'
  BY <1>3 DEF MarkStep, markValidated, markRead, markSave, ReadFailure, ReadFails
<1>4. ASSUME NEW p \in Admins, AdminCall(p) PROVE TypeCounts'
  BY <1>4 DEF AdminCall, validateFlow, rejectFlow, sendOobLink, startValidation
<1>5. ASSUME NEW p \in Admins, AdminStep(p) PROVE TypeCounts'
  BY <1>5
     DEF AdminStep, validateEntry, validateSendsValidating, validateContinues,
         awaitOperator, broadcast, submitFailed, recordSubmitted, rejectEntry,
         terminateByValidator
<1>6. ASSUME NEW r \in Txs, LookupStep(r) \/ findTxFails(r) PROVE TypeCounts'
  BY <1>6
     DEF LookupStep, resolveValidationTx, findTx, lookupEntry, failUnlessValidated,
         failRecheck, failKeep, failRecord, findTxFails
<1>7. CASE HandlerStep
  BY <1>7 DEF HandlerStep, handleValidated, handleRevoked, handleCancelled, saveEvent
<1>8. CASE AcceptStep
  BY <1>8
     DEF AcceptStep, checkParticipantId, checkParticipantIdWaits,
         acceptOnboardingRequest, rejectRequest
<1>9. CASE processReceiveOnboardingRequest \/ applicantTerminates \/ exchangeEnds
           \/ autoIssueThrows \/ crashAndRestart
  BY <1>9
     DEF processReceiveOnboardingRequest, applicantTerminates, exchangeEnds,
         autoIssueThrows, crashAndRestart
<1> QED
  BY <1>1, <1>2, <1>3, <1>4, <1>5, <1>6, <1>7, <1>8, <1>9 DEF Next

\* Every procedure stays at one of its steps, with locals of their type.
LEMMA ProcsStep ==
  ASSUME TypeRecord, TypeChain, TypeProcs, Next
  PROVE TypeProcs'
<1>0. Snapshot \in Locals
  BY SnapshotType
<1>a. ASSUME NEW p \in Procs, NEW s \in Steps, Goto(p, s) PROVE TypeProcs'
  BY <1>a DEF TypeProcs, Goto
<1>b. ASSUME NEW p \in Procs, NEW s \in Steps, NEW l \in Locals, GotoWith(p, s, l)
      PROVE  TypeProcs'
  BY <1>b DEF TypeProcs, GotoWith
<1>c. ASSUME NEW p \in Procs, Finish(p) PROVE TypeProcs'
  BY <1>c, LocalsFacts DEF TypeProcs, Finish, Rest, Steps
<1>1. CASE ChainStep
  BY <1>1
     DEF ChainStep, IncludeTx, RefuseTx, Expire, OperatorValidates, Index, Cancel,
         Revoke, TypeProcs
<1>2. ASSUME NEW p \in Procs, IssuanceStep(p) PROVE TypeProcs'
  BY <1>2, <1>a, <1>b, <1>c, LocalsFacts
     DEF TypeRecord, TypeProcs, Steps, IssueSteps, Leave, IssuanceStep,
         issuanceAfterValidated, markPendingClaims, offerCredential, sendOffer,
         attachCredentialExchangeRecord
<1>3. ASSUME NEW p \in Procs, MarkStep(p) \/ ReadFailure(p) PROVE TypeProcs'
  BY <1>3, <1>a, <1>b, <1>c, LocalsFacts
     DEF TypeRecord, TypeProcs, Steps, MarkSteps, continueAfterValidated, MarkStep,
         markValidated, markRead, markSave, ReadFailure, ReadFails
<1>4. ASSUME NEW p \in Admins, AdminCall(p) PROVE TypeProcs'
  BY <1>4, <1>a, <1>b, <1>c, <1>0, LocalsFacts, ConstFacts
     DEF TypeProcs, Steps, AdminCall, validateFlow, rejectFlow, sendOobLink,
         startValidation
<1>5. ASSUME NEW p \in Admins, AdminStep(p) PROVE TypeProcs'
  <2>1. AfterEntry(loc[p].state, indexed) \in Steps
        /\ AfterEntry(loc[p].state, loc[p].known) \in Steps
    BY DEF AfterEntry, Steps
  <2>2. [[loc[p] EXCEPT !.known = indexed] EXCEPT !.goesOn = TRUE] \in Locals
    BY LocalsFacts, ConstFacts DEF TypeChain, TypeProcs
  <2>3. CASE validateEntry(p)
    <3>1. [loc[p] EXCEPT !.known = indexed, !.goesOn = TRUE] \in Locals
      BY <2>2
    <3> QED
      BY <2>3, <3>1, <2>1, <1>a, <1>b, <1>c, ConstFacts DEF validateEntry, Steps
  <2>4. CASE validateSendsValidating(p)
    BY <2>4, <2>1, <1>a, <1>c, ConstFacts DEF validateSendsValidating
  <2>5. CASE broadcast(p)
    BY <2>5, <1>a, <1>b, LocalsFacts, ConstFacts DEF broadcast, Steps, TypeProcs
  <2>6. CASE recordSubmitted(p)
    BY <2>6, LocalsFacts, ConstFacts DEF recordSubmitted, Steps, TypeProcs
  <2> QED
    BY <2>3, <2>4, <2>5, <2>6, <1>5, <1>a, <1>c, ConstFacts
    DEF AdminStep, continueAfterValidated, validateContinues, awaitOperator,
        submitFailed, rejectEntry, terminateByValidator, Steps
<1>6. ASSUME NEW r \in Txs, LookupStep(r) \/ findTxFails(r) PROVE TypeProcs'
  <2>1. r \in Procs /\ loc[r] \in Locals
    BY ConstFacts DEF TypeProcs
  <2>2. CASE resolveValidationTx(r)
    <3>1. [Snapshot EXCEPT !.known = loc[r].known] \in Locals
      BY <2>1, <1>0 DEF Locals
    <3> QED
      BY <2>1, <2>2, <3>1, <1>b, <1>c DEF resolveValidationTx, Steps
  <2>3. CASE findTx(r) \/ findTxFails(r)
    BY <2>1, <2>3, <1>a, <1>b, LocalsFacts DEF findTx, findTxFails, Steps
  <2>4. CASE lookupEntry(r)
    <3>1. [[loc[r] EXCEPT !.landed = loc[r].seen.tx] EXCEPT !.goesOn = TRUE] \in Locals
      BY <2>1, LocalsFacts
    <3>2. [loc[r] EXCEPT !.landed = loc[r].seen.tx, !.goesOn = TRUE] \in Locals
      BY <3>1
    <3> QED
      BY <2>1, <2>4, <3>2, <1>a, <1>b, <1>c DEF lookupEntry, Steps
  <2> QED
    BY <2>1, <2>2, <2>3, <2>4, <1>6, <1>a, <1>b, <1>c, LocalsFacts
    DEF LookupStep, failUnlessValidated, failRecheck, failKeep, failRecord, Steps
<1>7. CASE HandlerStep
  <2>1. CASE handleValidated
    <3>1. Head(feed) \in Notices
      BY <2>1, HeadTailProperties DEF handleValidated, TypeChain
    <3>2. [Snapshot EXCEPT !.landed = Head(feed).tx,
                           !.goesOn = ~isRejectedInFlight(Snapshot)] \in Locals
      BY <3>1, <1>0 DEF Notices, Locals, isRejectedInFlight
    <3> QED
      BY <2>1, <3>2, <1>b, <1>c, ConstFacts DEF handleValidated, Steps
  <2> QED
    BY <2>1, <1>7, <1>a, <1>c, ConstFacts
    DEF HandlerStep, handleRevoked, handleCancelled, saveEvent, Steps
<1>8. CASE AcceptStep
  BY <1>8, <1>a, <1>b, <1>c, LocalsFacts, ConstFacts
     DEF TypeProcs, Steps, AcceptStep, checkParticipantId, checkParticipantIdWaits,
         acceptOnboardingRequest, rejectRequest
<1>9. CASE processReceiveOnboardingRequest
  BY <1>9, <1>a, <1>b, <1>c, LocalsFacts, ConstFacts
     DEF TypeProcs, Steps, continueAfterValidated, processReceiveOnboardingRequest
<1>10. CASE applicantTerminates \/ exchangeEnds \/ autoIssueThrows
  BY <1>10 DEF TypeProcs, applicantTerminates, exchangeEnds, autoIssueThrows
<1>11. CASE crashAndRestart
  BY <1>11, LocalsFacts DEF TypeProcs, Steps, crashAndRestart
<1> QED
  BY <1>1, <1>2, <1>3, <1>4, <1>5, <1>6, <1>7, <1>8, <1>9, <1>10, <1>11 DEF Next

\* The steps of a procedure that stands in the line of the flow.
Queued == {"waiting"} \cup IssueSteps

\* How a step changes the line: nobody joins or leaves, a procedure joins at the
\* end, the first one leaves, or a crash empties it.
LineMove ==
    \/ /\ line' = line
       /\ \A q \in Procs :
            /\ at'[q] \in Queued <=> at[q] \in Queued
            /\ at'[q] \in IssueSteps => at[q] \in IssueSteps \/ Head(line) = q
    \/ \E p \in Procs :
         at[p] \notin Queued /\ line' = Append(line, p)
         /\ at' = [at EXCEPT ![p] = "waiting"]
    \/ \E p \in Procs :
         /\ at[p] \in Queued /\ Head(line) = p
         /\ line' = Tail(line) /\ at' = [at EXCEPT ![p] = Rest(p)]
    \/ line' = <<>> /\ \A q \in Procs : at'[q] \notin Queued

\* How a step changes the lock of markValidated: not, taken by a procedure that
\* finds it free, released by its owner, or lost in a crash.
LockMove ==
    \/ lock' = lock /\ \A q \in Procs : at'[q] \in MarkSteps <=> at[q] \in MarkSteps
    \/ \E p \in Procs : lock = NoProc /\ lock' = p /\ at' = [at EXCEPT ![p] = "markRead"]
    \/ \E p \in Procs, s \in Steps \ MarkSteps :
         at[p] \in MarkSteps /\ lock' = NoProc /\ at' = [at EXCEPT ![p] = s]
    \/ lock' = NoProc /\ \A q \in Procs : at'[q] \notin MarkSteps

\* Every step of every procedure is one of these four moves of the line.
LEMMA LineMoves ==
  ASSUME TypeProcs, OneRunPerFlow, InvLookup, Next
  PROVE  LineMove
<1> USE DEF TypeProcs, locks, Goto, GotoWith, Finish, Leave, continueAfterValidated
<1>1. CASE ChainStep
  BY <1>1
     DEF LineMove, ChainStep, IncludeTx, RefuseTx, Expire, OperatorValidates, Index,
         Cancel, Revoke
<1>2. ASSUME NEW p \in Procs, IssuanceStep(p) PROVE LineMove
  BY <1>2
     DEF LineMove, Queued, IssueSteps, OneRunPerFlow, IssuanceStep,
         issuanceAfterValidated, markPendingClaims, offerCredential, sendOffer,
         attachCredentialExchangeRecord
<1>3. ASSUME NEW p \in Procs, MarkStep(p) \/ ReadFailure(p) PROVE LineMove
  BY <1>3
     DEF LineMove, Queued, IssueSteps, Rest, MarkStep, markValidated, markRead,
         markSave, ReadFailure, ReadFails
<1>4. ASSUME NEW p \in Admins, AdminCall(p) PROVE LineMove
  BY <1>4, ConstFacts
     DEF LineMove, Queued, IssueSteps, AdminCall, validateFlow, rejectFlow,
         sendOobLink, startValidation
<1>5. ASSUME NEW p \in Admins, AdminStep(p) PROVE LineMove
  BY <1>5, ConstFacts
     DEF LineMove, Queued, IssueSteps, InvLookup, Rest, AfterEntry, AdminStep,
         validateEntry, validateSendsValidating, validateContinues, awaitOperator,
         broadcast, submitFailed, recordSubmitted, rejectEntry, terminateByValidator
<1>6. ASSUME NEW r \in Txs, LookupStep(r) \/ findTxFails(r) PROVE LineMove
  BY <1>6, ConstFacts
     DEF LineMove, Queued, IssueSteps, Rest, LookupStep, resolveValidationTx, findTx,
         lookupEntry, failUnlessValidated, failRecheck, failKeep, failRecord,
         findTxFails
<1>7. CASE HandlerStep
  BY <1>7, ConstFacts
     DEF LineMove, Queued, IssueSteps, Rest, HandlerStep, handleValidated,
         handleRevoked, handleCancelled, saveEvent
<1>8. CASE AcceptStep
  BY <1>8, ConstFacts
     DEF LineMove, Queued, IssueSteps, Rest, AcceptStep, checkParticipantId,
         checkParticipantIdWaits, acceptOnboardingRequest, rejectRequest
<1>9. CASE processReceiveOnboardingRequest
  BY <1>9, ConstFacts DEF LineMove, Queued, IssueSteps, processReceiveOnboardingRequest
<1>10. CASE applicantTerminates \/ exchangeEnds \/ autoIssueThrows
  BY <1>10 DEF LineMove, applicantTerminates, exchangeEnds, autoIssueThrows
<1>11. CASE crashAndRestart
  BY <1>11 DEF LineMove, Queued, IssueSteps, crashAndRestart
<1> QED
  BY <1>1, <1>2, <1>3, <1>4, <1>5, <1>6, <1>7, <1>8, <1>9, <1>10, <1>11 DEF Next

\* Every step of every procedure is one of these four moves of the lock.
LEMMA LockMoves ==
  ASSUME TypeProcs, InvLookup, Next
  PROVE  LockMove
<1> USE DEF TypeProcs, locks, Goto, GotoWith, Finish, Leave, continueAfterValidated
<1>1. CASE ChainStep
  BY <1>1
     DEF LockMove, ChainStep, IncludeTx, RefuseTx, Expire, OperatorValidates, Index,
         Cancel, Revoke
<1>2. ASSUME NEW p \in Procs, IssuanceStep(p) PROVE LockMove
  BY <1>2
     DEF LockMove, MarkSteps, Rest, IssueSteps, IssuanceStep, issuanceAfterValidated,
         markPendingClaims, offerCredential, sendOffer, attachCredentialExchangeRecord
<1>3. ASSUME NEW p \in Procs, MarkStep(p) \/ ReadFailure(p) PROVE LockMove
  BY <1>3
     DEF LockMove, MarkSteps, Steps, Rest, MarkStep, markValidated, markRead, markSave,
         ReadFailure, ReadFails
<1>4. ASSUME NEW p \in Admins, AdminCall(p) PROVE LockMove
  BY <1>4, ConstFacts
     DEF LockMove, MarkSteps, AdminCall, validateFlow, rejectFlow, sendOobLink,
         startValidation
<1>5. ASSUME NEW p \in Admins, AdminStep(p) PROVE LockMove
  BY <1>5, ConstFacts
     DEF LockMove, MarkSteps, InvLookup, Rest, AfterEntry, AdminStep, validateEntry,
         validateSendsValidating, validateContinues, awaitOperator, broadcast,
         submitFailed, recordSubmitted, rejectEntry, terminateByValidator
<1>6. ASSUME NEW r \in Txs, LookupStep(r) \/ findTxFails(r) PROVE LockMove
  BY <1>6, ConstFacts
     DEF LockMove, MarkSteps, Rest, LookupStep, resolveValidationTx, findTx,
         lookupEntry, failUnlessValidated, failRecheck, failKeep, failRecord,
         findTxFails
<1>7. CASE HandlerStep
  BY <1>7, ConstFacts
     DEF LockMove, MarkSteps, Rest, HandlerStep, handleValidated, handleRevoked,
         handleCancelled, saveEvent
<1>8. CASE AcceptStep
  BY <1>8, ConstFacts
     DEF LockMove, MarkSteps, Rest, AcceptStep, checkParticipantId,
         checkParticipantIdWaits, acceptOnboardingRequest, rejectRequest
<1>9. CASE processReceiveOnboardingRequest
  BY <1>9, ConstFacts DEF LockMove, MarkSteps, processReceiveOnboardingRequest
<1>10. CASE applicantTerminates \/ exchangeEnds \/ autoIssueThrows
  BY <1>10 DEF LockMove, applicantTerminates, exchangeEnds, autoIssueThrows
<1>11. CASE crashAndRestart
  BY <1>11 DEF LockMove, MarkSteps, crashAndRestart
<1> QED
  BY <1>1, <1>2, <1>3, <1>4, <1>5, <1>6, <1>7, <1>8, <1>9, <1>10, <1>11 DEF Next

\* A move of the lock keeps markValidated exclusive: who is in it owns the lock.
LEMMA LockStep ==
  ASSUME TypeProcs, TypeLocks, OneRunPerFlow, LockMove, at' \in [Procs -> Steps]
  PROVE  /\ lock' \in Procs \cup {NoProc}
         /\ \A p \in Procs : at'[p] \in MarkSteps <=> lock' = p
<1> USE ConstFacts DEF TypeProcs, TypeLocks, OneRunPerFlow
<1>1. CASE lock' = lock /\ \A q \in Procs : at'[q] \in MarkSteps <=> at[q] \in MarkSteps
  BY <1>1
<1>2. ASSUME NEW p \in Procs, lock = NoProc, lock' = p, at' = [at EXCEPT ![p] = "markRead"]
      PROVE  \A q \in Procs : at'[q] \in MarkSteps <=> lock' = q
  BY <1>2 DEF MarkSteps
<1>3. ASSUME NEW p \in Procs, NEW s \in Steps \ MarkSteps,
             at[p] \in MarkSteps, lock' = NoProc, at' = [at EXCEPT ![p] = s]
      PROVE  \A q \in Procs : at'[q] \in MarkSteps <=> lock' = q
  BY <1>3
<1> QED
  BY <1>1, <1>2, <1>3 DEF LockMove

\* p stands in the line.
Standing(p) == \E i \in 1..Len(line) : line[i] = p

\* A move of the line keeps it a queue without duplicates of exactly the
\* procedures that wait or run, so the one that runs is the first.
LEMMA LineStep ==
  ASSUME TypeProcs, TypeLocks, OneRunPerFlow, InvLine, LineMove, at' \in [Procs -> Steps]
  PROVE  /\ line' \in Seq(Procs) /\ InvLine'
         /\ \A p \in Procs : at'[p] \in IssueSteps => line' # <<>> /\ Head(line') = p
<1> USE DEF TypeProcs, TypeLocks
<1>1. CASE /\ line' = line
           /\ \A q \in Procs :
                /\ at'[q] \in Queued <=> at[q] \in Queued
                /\ at'[q] \in IssueSteps => at[q] \in IssueSteps \/ Head(line) = q
  <2>1. InvLine'
    BY <1>1 DEF InvLine, Queued
  <2>2. ASSUME NEW p \in Procs, at'[p] \in IssueSteps PROVE line # <<>> /\ Head(line) = p
    <3>1. Standing(p)
      BY <1>1, <2>2 DEF InvLine, Queued, Standing
    <3> QED
      BY <3>1, <1>1, <2>2 DEF OneRunPerFlow, Standing
  <2> QED
    BY <1>1, <2>1, <2>2
<1>2. ASSUME NEW p \in Procs, at[p] \notin Queued, line' = Append(line, p),
             at' = [at EXCEPT ![p] = "waiting"]
      PROVE  /\ line' \in Seq(Procs) /\ InvLine'
             /\ \A q \in Procs : at'[q] \in IssueSteps => line' # <<>> /\ Head(line') = q
  <2>1. /\ line' \in Seq(Procs) /\ Len(line') = Len(line) + 1 /\ Len(line) \in Nat
        /\ \A i \in 1..Len(line) : line'[i] = line[i]
        /\ line'[Len(line) + 1] = p
    BY <1>2, AppendProperties, LenProperties
  <2>2. ~ \E i \in 1..Len(line) : line[i] = p
    BY <1>2 DEF InvLine, Queued
  <2>3. \A q \in Procs : at'[q] \in {"waiting"} \cup IssueSteps
                           <=> \E i \in 1..Len(line') : line'[i] = q
    <3>1. \A q \in Procs \ {p} : (\E i \in 1..Len(line') : line'[i] = q)
                             <=> \E i \in 1..Len(line) : line[i] = q
      BY <2>1
    <3>2. \A q \in Procs \ {p} : at'[q] = at[q]
      BY <1>2
    <3>3. at'[p] = "waiting" /\ \E i \in 1..Len(line') : line'[i] = p
      BY <1>2, <2>1
    <3> QED
      BY <3>1, <3>2, <3>3 DEF InvLine
  <2>4. \A i, j \in 1..Len(line') : line'[i] = line'[j] => i = j
    BY <2>1, <2>2 DEF InvLine
  <2>5. ASSUME NEW q \in Procs, at'[q] \in IssueSteps
        PROVE  line' # <<>> /\ Head(line') = q
    <3>1. at[q] \in IssueSteps
      BY <1>2, <2>5 DEF IssueSteps
    <3>2. line # <<>> /\ Head(line) = q
      BY <3>1 DEF OneRunPerFlow
    <3> QED
      BY <3>2, <1>2, AppendProperties
  <2> QED
    BY <2>1, <2>3, <2>4, <2>5 DEF InvLine
<1>3. ASSUME NEW p \in Procs, at[p] \in Queued, Head(line) = p, line' = Tail(line),
             at' = [at EXCEPT ![p] = Rest(p)]
      PROVE  /\ line' \in Seq(Procs) /\ InvLine'
             /\ \A q \in Procs : at'[q] \in IssueSteps => line' # <<>> /\ Head(line') = q
  <2>0. \E i \in 1..Len(line) : line[i] = p
    BY <1>3 DEF InvLine, Queued
  <2>1. /\ line' \in Seq(Procs) /\ Len(line) \in Nat /\ Len(line) > 0
        /\ Len(line') = Len(line) - 1
        /\ \A i \in 1..Len(line') : line'[i] = line[i + 1]
        /\ line[1] = p
    BY <1>3, <2>0, HeadTailProperties, LenProperties
  <2>2. ~ \E i \in 1..Len(line') : line'[i] = p
    BY <2>1 DEF InvLine
  <2>3. \A q \in Procs : at'[q] \in {"waiting"} \cup IssueSteps
                           <=> \E i \in 1..Len(line') : line'[i] = q
    <3>1. ASSUME NEW q \in Procs \ {p}, NEW i \in 1..Len(line), line[i] = q
          PROVE  \E j \in 1..Len(line') : line'[j] = q
      <4>1. i # 1 /\ i - 1 \in 1..Len(line') /\ line'[i - 1] = q
        BY <2>1, <3>1
      <4> QED
        BY <4>1
    <3>2. ASSUME NEW q \in Procs \ {p}, NEW i \in 1..Len(line'), line'[i] = q
          PROVE  \E j \in 1..Len(line) : line[j] = q
      BY <2>1, <3>2
    <3>3. \A q \in Procs \ {p} : at'[q] = at[q]
      BY <1>3
    <3>4. at'[p] \notin {"waiting"} \cup IssueSteps
      BY <1>3 DEF Rest, IssueSteps
    <3> QED
      BY <2>2, <3>1, <3>2, <3>3, <3>4 DEF InvLine
  <2>4. \A i, j \in 1..Len(line') : line'[i] = line'[j] => i = j
    BY <2>1 DEF InvLine
  <2>5. \A q \in Procs : at'[q] \notin IssueSteps
    BY <1>3 DEF OneRunPerFlow, Rest, IssueSteps
  <2> QED
    BY <2>1, <2>3, <2>4, <2>5 DEF InvLine
<1>4. CASE line' = <<>> /\ \A q \in Procs : at'[q] \notin Queued
  BY <1>4, EmptySeq DEF InvLine, Queued
<1> QED
  BY <1>1, <1>2, <1>3, <1>4 DEF LineMove

\* Once the entry was VALIDATED it stays a past fact, cancelled or revoked later.
LEMMA EntryStep ==
  ASSUME EntryValidated, Next
  PROVE  EntryValidated'
<1>1. CASE ChainStep
  BY <1>1
     DEF EntryValidated, chain, ChainStep, IncludeTx, RefuseTx, Expire,
         OperatorValidates, Index, Cancel, Revoke
<1>2. ASSUME NEW p \in Procs, IssuanceStep(p) PROVE EntryValidated'
  BY <1>2
     DEF EntryValidated, chain, IssuanceStep, issuanceAfterValidated,
         markPendingClaims, offerCredential, sendOffer, attachCredentialExchangeRecord
<1>3. ASSUME NEW p \in Procs, MarkStep(p) \/ ReadFailure(p) PROVE EntryValidated'
  BY <1>3
     DEF EntryValidated, chain, MarkStep, ReadFailure, markValidated, markRead,
         markSave, ReadFails
<1>4. ASSUME NEW p \in Admins, AdminCall(p) PROVE EntryValidated'
  BY <1>4
     DEF EntryValidated, chain, AdminCall, validateFlow, rejectFlow, sendOobLink,
         startValidation
<1>5. ASSUME NEW p \in Admins, AdminStep(p) PROVE EntryValidated'
  BY <1>5
     DEF EntryValidated, chain, AdminStep, validateEntry, validateSendsValidating,
         validateContinues, awaitOperator, broadcast, submitFailed, recordSubmitted,
         rejectEntry, terminateByValidator
<1>6. ASSUME NEW r \in Txs, LookupStep(r) \/ findTxFails(r) PROVE EntryValidated'
  BY <1>6
     DEF EntryValidated, chain, LookupStep, findTxFails, resolveValidationTx, findTx,
         lookupEntry, failUnlessValidated, failRecheck, failKeep, failRecord
<1>7. CASE HandlerStep
  BY <1>7
     DEF EntryValidated, chain, HandlerStep, handleValidated, handleRevoked,
         handleCancelled, saveEvent
<1>8. CASE AcceptStep
  BY <1>8
     DEF EntryValidated, chain, AcceptStep, checkParticipantId,
         checkParticipantIdWaits, acceptOnboardingRequest, rejectRequest
<1>9. CASE processReceiveOnboardingRequest
  BY <1>9 DEF EntryValidated, chain, processReceiveOnboardingRequest
<1>10. CASE applicantTerminates \/ exchangeEnds \/ autoIssueThrows
  BY <1>10 DEF EntryValidated, chain, applicantTerminates, exchangeEnds, autoIssueThrows
<1>11. CASE crashAndRestart
  BY <1>11 DEF EntryValidated, chain, crashAndRestart
<1> QED
  BY <1>1, <1>2, <1>3, <1>4, <1>5, <1>6, <1>7, <1>8, <1>9, <1>10, <1>11 DEF Next

\* The steps a procedure reaches only by having seen the entry VALIDATED.
FirstSeen ==
    {"mark", "continue", "waiting", "failRecheck", "failKeep"} \cup MarkSteps \cup IssueSteps
\* The states a flow has only after markValidated.
ValidatedStates == {"VALIDATED", "VALIDATED_PENDING_CLAIMS"}

\* Nobody has evidence of a validated entry: not the index, no notification, no
\* procedure, no record.
NotSeen ==
    /\ ~indexed
    /\ \A i \in 1..Len(feed) : feed[i].msg # "validated"
    /\ \A p \in Procs :
        /\ at[p] \notin FirstSeen
        /\ at[p] = "sendValidating" => ~loc[p].known
        /\ loc[p].state \notin ValidatedStates
    /\ offers = 0 /\ state \notin ValidatedStates \cup {"CRED_OFFERED"}

\* The two parts of the invariant about evidence say that an entry was
\* validated or nobody has evidence of it.
LEMMA NotSeenIs == (InvSeen /\ OfferOnlyIfValidated) <=> (EntryValidated \/ NotSeen)
BY DEF InvSeen, OfferOnlyIfValidated, NotSeen, FirstSeen, ValidatedStates

\* Without evidence no step offers the credential or moves the record to
\* VALIDATED.
LEMMA NotSeenRecordStep ==
  ASSUME TypeProcs, NotSeen, ~EntryValidated, ~EntryValidated', Next
  PROVE offers' = 0 /\ state' \notin ValidatedStates \cup {"CRED_OFFERED"}
<1>1. CASE ChainStep
  BY <1>1, ConstFacts
     DEF NotSeen, FirstSeen, ValidatedStates, EntryValidated, record, exchange,
         recordValidation, MarkSteps, IssueSteps, continueAfterValidated,
         VtFlowTerminalStates, ChainStep, IncludeTx, RefuseTx, Expire,
         OperatorValidates, Index, Cancel, Revoke
<1>2. ASSUME NEW p \in Procs, IssuanceStep(p)
      PROVE  offers' = 0 /\ state' \notin ValidatedStates \cup {"CRED_OFFERED"}
  BY <1>2, ConstFacts
     DEF NotSeen, FirstSeen, ValidatedStates, EntryValidated, record, exchange,
         recordValidation, MarkSteps, IssueSteps, continueAfterValidated,
         VtFlowTerminalStates, IssuanceStep, issuanceAfterValidated, markPendingClaims,
         offerCredential, sendOffer, attachCredentialExchangeRecord
<1>3. ASSUME NEW p \in Procs, MarkStep(p) \/ ReadFailure(p)
      PROVE  offers' = 0 /\ state' \notin ValidatedStates \cup {"CRED_OFFERED"}
  BY <1>3, ConstFacts
     DEF NotSeen, FirstSeen, ValidatedStates, EntryValidated, record, exchange,
         recordValidation, MarkSteps, IssueSteps, continueAfterValidated,
         VtFlowTerminalStates, MarkStep, ReadFailure, markValidated, markRead,
         markSave, ReadFails
<1>4. ASSUME NEW p \in Admins, AdminCall(p)
      PROVE  offers' = 0 /\ state' \notin ValidatedStates \cup {"CRED_OFFERED"}
  BY <1>4, ConstFacts
     DEF NotSeen, FirstSeen, ValidatedStates, EntryValidated, record, exchange,
         recordValidation, MarkSteps, IssueSteps, continueAfterValidated,
         VtFlowTerminalStates, AdminCall, validateFlow, rejectFlow, sendOobLink,
         startValidation
<1>5. ASSUME NEW p \in Admins, AdminStep(p)
      PROVE  offers' = 0 /\ state' \notin ValidatedStates \cup {"CRED_OFFERED"}
  BY <1>5, ConstFacts
     DEF NotSeen, FirstSeen, ValidatedStates, EntryValidated, record, exchange,
         recordValidation, MarkSteps, IssueSteps, continueAfterValidated,
         VtFlowTerminalStates, AdminStep, validateEntry, validateSendsValidating,
         validateContinues, awaitOperator, broadcast, submitFailed, recordSubmitted,
         rejectEntry, terminateByValidator
<1>6. ASSUME NEW r \in Txs, LookupStep(r) \/ findTxFails(r)
      PROVE  offers' = 0 /\ state' \notin ValidatedStates \cup {"CRED_OFFERED"}
  BY <1>6, ConstFacts
     DEF NotSeen, FirstSeen, ValidatedStates, EntryValidated, record, exchange,
         recordValidation, MarkSteps, IssueSteps, continueAfterValidated,
         VtFlowTerminalStates, LookupStep, findTxFails, resolveValidationTx, findTx,
         lookupEntry, failUnlessValidated, failRecheck, failKeep, failRecord
<1>7. CASE HandlerStep
  BY <1>7, ConstFacts
     DEF NotSeen, FirstSeen, ValidatedStates, EntryValidated, record, exchange,
         recordValidation, MarkSteps, IssueSteps, continueAfterValidated,
         VtFlowTerminalStates, HandlerStep, handleValidated, handleRevoked,
         handleCancelled, saveEvent
<1>8. CASE AcceptStep
  BY <1>8, ConstFacts
     DEF NotSeen, FirstSeen, ValidatedStates, EntryValidated, record, exchange,
         recordValidation, MarkSteps, IssueSteps, continueAfterValidated,
         VtFlowTerminalStates, AcceptStep, checkParticipantId, checkParticipantIdWaits,
         acceptOnboardingRequest, rejectRequest
<1>9. CASE processReceiveOnboardingRequest
  BY <1>9, ConstFacts
     DEF NotSeen, FirstSeen, ValidatedStates, EntryValidated, record, exchange,
         recordValidation, MarkSteps, IssueSteps, continueAfterValidated,
         VtFlowTerminalStates, processReceiveOnboardingRequest
<1>10. CASE applicantTerminates \/ exchangeEnds \/ autoIssueThrows
  BY <1>10, ConstFacts
     DEF NotSeen, FirstSeen, ValidatedStates, EntryValidated, record, exchange,
         recordValidation, MarkSteps, IssueSteps, continueAfterValidated,
         VtFlowTerminalStates, applicantTerminates, exchangeEnds, autoIssueThrows
<1>11. CASE crashAndRestart
  BY <1>11, ConstFacts
     DEF NotSeen, FirstSeen, ValidatedStates, EntryValidated, record, exchange,
         recordValidation, MarkSteps, IssueSteps, continueAfterValidated,
         VtFlowTerminalStates, crashAndRestart
<1> QED
  BY <1>1, <1>2, <1>3, <1>4, <1>5, <1>6, <1>7, <1>8, <1>9, <1>10, <1>11 DEF Next

\* What assigning one field of a procedure's locals leaves of the others.
LEMMA LocalsFields ==
    /\ NoLocals.state = "AWAITING_OR" /\ NoLocals.landed = NoTx
    /\ NoLocals.seen = NoValidation /\ NoValidation.tx = NoTx
    /\ Snapshot.state = state /\ Snapshot.seen = validation /\ Snapshot.landed = NoTx
    /\ \A x : /\ [Snapshot EXCEPT !.goesOn = x].state = state
              /\ [Snapshot EXCEPT !.goesOn = x].seen = validation
              /\ [Snapshot EXCEPT !.goesOn = x].landed = NoTx
              /\ [Snapshot EXCEPT !.known = x].state = state
              /\ [Snapshot EXCEPT !.known = x].seen = validation
              /\ [Snapshot EXCEPT !.known = x].landed = NoTx
    /\ \A x, y : /\ [Snapshot EXCEPT !.landed = x, !.goesOn = y].state = state
                 /\ [Snapshot EXCEPT !.landed = x, !.goesOn = y].seen = validation
                 /\ [Snapshot EXCEPT !.landed = x, !.goesOn = y].landed = x
    /\ \A l \in Locals : \A x, y :
        /\ [l EXCEPT !.known = x, !.goesOn = y].known = x
        /\ [l EXCEPT !.known = x, !.goesOn = y].state = l.state
        /\ [l EXCEPT !.known = x, !.goesOn = y].seen = l.seen
        /\ [l EXCEPT !.known = x, !.goesOn = y].landed = l.landed
        /\ [l EXCEPT !.landed = x, !.goesOn = y].state = l.state
        /\ [l EXCEPT !.landed = x, !.goesOn = y].seen = l.seen
        /\ [l EXCEPT !.landed = x, !.goesOn = y].landed = x
        /\ [l EXCEPT !.known = x].state = l.state
        /\ [l EXCEPT !.known = x].seen = l.seen
        /\ [l EXCEPT !.known = x].landed = l.landed
        /\ [l EXCEPT !.goesOn = x].state = l.state
        /\ [l EXCEPT !.goesOn = x].seen = l.seen
        /\ [l EXCEPT !.goesOn = x].landed = l.landed
        /\ [l EXCEPT !.txFailed = x].state = l.state
        /\ [l EXCEPT !.txFailed = x].seen = l.seen
        /\ [l EXCEPT !.txFailed = x].landed = l.landed
        /\ [l EXCEPT !.landed = x].state = l.state
        /\ [l EXCEPT !.landed = x].seen = l.seen
        /\ [l EXCEPT !.landed = x].landed = x
        /\ [l EXCEPT !.seen = x].state = l.state
        /\ [l EXCEPT !.seen = x].seen = x
        /\ [l EXCEPT !.seen = x].landed = l.landed
        /\ [l EXCEPT !.state = x].state = x
        /\ [l EXCEPT !.state = x].seen = l.seen
        /\ [l EXCEPT !.state = x].landed = l.landed
<1>1. NoLocals.state = "AWAITING_OR" /\ NoLocals.landed = NoTx
    /\ NoLocals.seen = NoValidation /\ NoValidation.tx = NoTx
  BY DEF NoLocals, NoValidation
<1>2. Snapshot.state = state /\ Snapshot.seen = validation /\ Snapshot.landed = NoTx
  BY DEF NoLocals, NoValidation, Snapshot
<1>3. \A x : /\ [Snapshot EXCEPT !.goesOn = x].state = state
              /\ [Snapshot EXCEPT !.goesOn = x].seen = validation
              /\ [Snapshot EXCEPT !.goesOn = x].landed = NoTx
              /\ [Snapshot EXCEPT !.known = x].state = state
              /\ [Snapshot EXCEPT !.known = x].seen = validation
              /\ [Snapshot EXCEPT !.known = x].landed = NoTx
  BY DEF NoLocals, NoValidation, Snapshot
<1>4. \A x, y : /\ [Snapshot EXCEPT !.landed = x, !.goesOn = y].state = state
                 /\ [Snapshot EXCEPT !.landed = x, !.goesOn = y].seen = validation
                 /\ [Snapshot EXCEPT !.landed = x, !.goesOn = y].landed = x
  BY DEF NoLocals, NoValidation, Snapshot
<1> QED
  BY <1>1, <1>2, <1>3, <1>4 DEF Locals

\* Without a validated entry no procedure obtains evidence of one.
LEMMA NotSeenProcsStep ==
  ASSUME TypeProcs, TypeChain, NotSeen, ~EntryValidated, ~EntryValidated', Next
  PROVE \A q \in Procs :
        /\ at'[q] \notin FirstSeen
        /\ at'[q] = "sendValidating" => ~loc'[q].known
        /\ loc'[q].state \notin ValidatedStates
<1>1. CASE ChainStep
  BY <1>1, ConstFacts, LocalsFields
     DEF NotSeen, TypeProcs, FirstSeen, ValidatedStates, EntryValidated, MarkSteps,
         IssueSteps, Goto, GotoWith, Finish, Rest, Leave, continueAfterValidated,
         AfterEntry, ChainStep, IncludeTx, RefuseTx, Expire, OperatorValidates, Index,
         Cancel, Revoke
<1>2. ASSUME NEW p \in Procs, IssuanceStep(p) PROVE \A q \in Procs :
        /\ at'[q] \notin FirstSeen
        /\ at'[q] = "sendValidating" => ~loc'[q].known
        /\ loc'[q].state \notin ValidatedStates
  BY <1>2, ConstFacts, LocalsFields
     DEF NotSeen, TypeProcs, FirstSeen, ValidatedStates, EntryValidated, MarkSteps,
         IssueSteps, Goto, GotoWith, Finish, Rest, Leave, continueAfterValidated,
         AfterEntry, IssuanceStep, issuanceAfterValidated, markPendingClaims,
         offerCredential, sendOffer, attachCredentialExchangeRecord
<1>3. ASSUME NEW p \in Procs, MarkStep(p) \/ ReadFailure(p) PROVE \A q \in Procs :
        /\ at'[q] \notin FirstSeen
        /\ at'[q] = "sendValidating" => ~loc'[q].known
        /\ loc'[q].state \notin ValidatedStates
  BY <1>3, ConstFacts, LocalsFields
     DEF NotSeen, TypeProcs, FirstSeen, ValidatedStates, EntryValidated, MarkSteps,
         IssueSteps, Goto, GotoWith, Finish, Rest, Leave, continueAfterValidated,
         AfterEntry, MarkStep, ReadFailure, markValidated, markRead, markSave,
         ReadFails
<1> DEFINE Blind == \A q \in Procs :
        /\ at'[q] \notin FirstSeen
        /\ at'[q] = "sendValidating" => ~loc'[q].known
        /\ loc'[q].state \notin ValidatedStates
<1>a. ASSUME NEW p \in Procs, NEW s \in Steps \ FirstSeen, s # "sendValidating", Goto(p, s)
      PROVE  Blind
  BY <1>a DEF Goto, NotSeen, TypeProcs
<1>b. ASSUME NEW p \in Procs, NEW s \in Steps \ FirstSeen, NEW l, GotoWith(p, s, l),
             s = "sendValidating" => ~l.known, l.state \notin ValidatedStates
      PROVE  Blind
  BY <1>b DEF GotoWith, NotSeen, TypeProcs
<1>c. ASSUME NEW p \in Procs, Finish(p) PROVE Blind
  BY <1>c, LocalsFields
     DEF Finish, Rest, NotSeen, TypeProcs, FirstSeen, MarkSteps, IssueSteps,
         ValidatedStates
<1>4. ASSUME NEW p \in Admins, AdminCall(p) PROVE Blind
  <2>1. Snapshot.state \notin ValidatedStates
        /\ [Snapshot EXCEPT !.goesOn = TRUE].state \notin ValidatedStates
    BY LocalsFields DEF NotSeen
  <2>2. CASE validateFlow(p) \/ rejectFlow(p)
    BY <2>1, <2>2, <1>b, ConstFacts
       DEF validateFlow, rejectFlow, Steps, FirstSeen, MarkSteps, IssueSteps
  <2> QED
    BY <1>4, <2>2 DEF AdminCall, sendOobLink, startValidation, NotSeen
<1>5. ASSUME NEW p \in Admins, AdminStep(p) PROVE Blind
  <2> USE ConstFacts DEF Steps, FirstSeen, MarkSteps, IssueSteps
  <2>0. p \in Procs /\ loc[p] \in Locals /\ loc[p].state \notin ValidatedStates
    BY DEF TypeProcs, NotSeen
  <2>1. CASE validateEntry(p)
    <3>1. [loc[p] EXCEPT !.known = indexed, !.goesOn = TRUE].state \notin ValidatedStates
      BY <2>0, LocalsFields
    <3>2. ~ [loc[p] EXCEPT !.known = indexed, !.goesOn = TRUE].known
      BY <2>0, LocalsFields DEF NotSeen
    <3>3. AfterEntry(loc[p].state, indexed) = "submit"
      BY <2>0 DEF AfterEntry, ValidatedStates, NotSeen
    <3> QED
      BY <2>0, <2>1, <3>1, <3>2, <3>3, <1>b, <1>c DEF validateEntry, NotSeen
  <2>2. CASE validateSendsValidating(p)
    <3>1. AfterEntry(loc[p].state, loc[p].known) = "submit"
      BY <2>0, <2>2 DEF AfterEntry, ValidatedStates, NotSeen, validateSendsValidating
    <3> QED
      BY <2>0, <2>2, <3>1, <1>a, <1>c DEF validateSendsValidating
  <2>3. CASE broadcast(p)
    <3>1. \A t : [loc[p] EXCEPT !.landed = t].state \notin ValidatedStates
      BY <2>0, LocalsFields
    <3> QED
      BY <2>0, <2>3, <3>1, <1>a, <1>b DEF broadcast
  <2>4. CASE recordSubmitted(p)
    BY <2>0, <2>4, LocalsFields DEF recordSubmitted, NotSeen, TypeProcs, ValidatedStates
  <2> QED
    BY <1>5, <2>0, <2>1, <2>2, <2>3, <2>4, <1>a, <1>c
    DEF AdminStep, validateContinues, awaitOperator, submitFailed, rejectEntry,
        terminateByValidator, NotSeen
<1>6. ASSUME NEW r \in Txs, LookupStep(r) \/ findTxFails(r) PROVE Blind
  <2> USE ConstFacts DEF Steps, FirstSeen, MarkSteps, IssueSteps
  <2>0. r \in Procs /\ loc[r] \in Locals /\ loc[r].state \notin ValidatedStates
    BY DEF TypeProcs, NotSeen
  <2>1. CASE resolveValidationTx(r)
    <3>1. [Snapshot EXCEPT !.known = loc[r].known].state \notin ValidatedStates
      BY LocalsFields DEF NotSeen
    <3> QED
      BY <2>0, <2>1, <3>1, <1>b, <1>c DEF resolveValidationTx
  <2>2. CASE findTx(r) \/ findTxFails(r)
    <3>1. /\ [loc[r] EXCEPT !.known = TRUE].state \notin ValidatedStates
          /\ [loc[r] EXCEPT !.txFailed = TRUE].state \notin ValidatedStates
      BY <2>0, LocalsFields
    <3> QED
      BY <2>0, <2>2, <3>1, <1>a, <1>b DEF findTx, findTxFails
  <2>3. CASE lookupEntry(r) \/ failUnlessValidated(r)
    BY <2>0, <2>3, <1>a, <1>c DEF lookupEntry, failUnlessValidated, NotSeen
  <2> QED
    BY <1>6, <2>0, <2>1, <2>2, <2>3, <1>c
    DEF LookupStep, failRecheck, failKeep, failRecord, NotSeen
<1>7. CASE HandlerStep
  BY <1>7, ConstFacts, LocalsFields
     DEF NotSeen, TypeProcs, FirstSeen, ValidatedStates, EntryValidated, MarkSteps,
         IssueSteps, Goto, GotoWith, Finish, Rest, Leave, continueAfterValidated,
         AfterEntry, HandlerStep, handleValidated, handleRevoked, handleCancelled,
         saveEvent
<1>8. CASE AcceptStep
  BY <1>8, ConstFacts, LocalsFields
     DEF NotSeen, TypeProcs, FirstSeen, ValidatedStates, EntryValidated, MarkSteps,
         IssueSteps, Goto, GotoWith, Finish, Rest, Leave, continueAfterValidated,
         AfterEntry, AcceptStep, checkParticipantId, checkParticipantIdWaits,
         acceptOnboardingRequest, rejectRequest
<1>9. CASE processReceiveOnboardingRequest
  BY <1>9, ConstFacts, LocalsFields
     DEF NotSeen, TypeProcs, FirstSeen, ValidatedStates, EntryValidated, MarkSteps,
         IssueSteps, Goto, GotoWith, Finish, Rest, Leave, continueAfterValidated,
         AfterEntry, processReceiveOnboardingRequest
<1>10. CASE applicantTerminates \/ exchangeEnds \/ autoIssueThrows
  BY <1>10, ConstFacts, LocalsFields
     DEF NotSeen, TypeProcs, FirstSeen, ValidatedStates, EntryValidated, MarkSteps,
         IssueSteps, Goto, GotoWith, Finish, Rest, Leave, continueAfterValidated,
         AfterEntry, applicantTerminates, exchangeEnds, autoIssueThrows
<1>11. CASE crashAndRestart
  BY <1>11, ConstFacts, LocalsFields
     DEF NotSeen, TypeProcs, FirstSeen, ValidatedStates, EntryValidated, MarkSteps,
         IssueSteps, Goto, GotoWith, Finish, Rest, Leave, continueAfterValidated,
         AfterEntry, crashAndRestart
<1> QED
  BY <1>1, <1>2, <1>3, <1>4, <1>5, <1>6, <1>7, <1>8, <1>9, <1>10, <1>11 DEF Next

\* Without a validated entry neither the index nor a notification says so.
LEMMA NotSeenChainStep ==
  ASSUME TypeChain, NotSeen, InvFeed, ~EntryValidated, ~EntryValidated', Next
  PROVE ~indexed' /\ \A i \in 1..Len(feed') : feed'[i].msg # "validated"
<1>1. CASE ChainStep
  BY <1>1, AppendProperties, HeadTailProperties
     DEF NotSeen, TypeChain, InvFeed, EntryValidated, chain, ChainStep, IncludeTx,
         RefuseTx, Expire, OperatorValidates, Index, Cancel, Revoke
<1>2. ASSUME NEW p \in Procs, IssuanceStep(p)
      PROVE  ~indexed' /\ \A i \in 1..Len(feed') : feed'[i].msg # "validated"
  BY <1>2, AppendProperties, HeadTailProperties
     DEF NotSeen, TypeChain, InvFeed, EntryValidated, chain, IssuanceStep,
         issuanceAfterValidated, markPendingClaims, offerCredential, sendOffer,
         attachCredentialExchangeRecord
<1>3. ASSUME NEW p \in Procs, MarkStep(p) \/ ReadFailure(p)
      PROVE  ~indexed' /\ \A i \in 1..Len(feed') : feed'[i].msg # "validated"
  BY <1>3, AppendProperties, HeadTailProperties
     DEF NotSeen, TypeChain, InvFeed, EntryValidated, chain, MarkStep, ReadFailure,
         markValidated, markRead, markSave, ReadFails
<1>4. ASSUME NEW p \in Admins, AdminCall(p)
      PROVE  ~indexed' /\ \A i \in 1..Len(feed') : feed'[i].msg # "validated"
  BY <1>4, AppendProperties, HeadTailProperties
     DEF NotSeen, TypeChain, InvFeed, EntryValidated, chain, AdminCall, validateFlow,
         rejectFlow, sendOobLink, startValidation
<1>5. ASSUME NEW p \in Admins, AdminStep(p)
      PROVE  ~indexed' /\ \A i \in 1..Len(feed') : feed'[i].msg # "validated"
  BY <1>5, AppendProperties, HeadTailProperties
     DEF NotSeen, TypeChain, InvFeed, EntryValidated, chain, AdminStep, validateEntry,
         validateSendsValidating, validateContinues, awaitOperator, broadcast,
         submitFailed, recordSubmitted, rejectEntry, terminateByValidator
<1>6. ASSUME NEW r \in Txs, LookupStep(r) \/ findTxFails(r)
      PROVE  ~indexed' /\ \A i \in 1..Len(feed') : feed'[i].msg # "validated"
  BY <1>6, AppendProperties, HeadTailProperties
     DEF NotSeen, TypeChain, InvFeed, EntryValidated, chain, LookupStep, findTxFails,
         resolveValidationTx, findTx, lookupEntry, failUnlessValidated, failRecheck,
         failKeep, failRecord
<1>7. CASE HandlerStep
  BY <1>7, AppendProperties, HeadTailProperties
     DEF NotSeen, TypeChain, InvFeed, EntryValidated, chain, HandlerStep,
         handleValidated, handleRevoked, handleCancelled, saveEvent
<1>8. CASE AcceptStep
  BY <1>8, AppendProperties, HeadTailProperties
     DEF NotSeen, TypeChain, InvFeed, EntryValidated, chain, AcceptStep,
         checkParticipantId, checkParticipantIdWaits, acceptOnboardingRequest,
         rejectRequest
<1>9. CASE processReceiveOnboardingRequest
  BY <1>9, AppendProperties, HeadTailProperties
     DEF NotSeen, TypeChain, InvFeed, EntryValidated, chain,
         processReceiveOnboardingRequest
<1>10. CASE applicantTerminates \/ exchangeEnds \/ autoIssueThrows
  BY <1>10, AppendProperties, HeadTailProperties
     DEF NotSeen, TypeChain, InvFeed, EntryValidated, chain, applicantTerminates,
         exchangeEnds, autoIssueThrows
<1>11. CASE crashAndRestart
  BY <1>11, AppendProperties, HeadTailProperties
     DEF NotSeen, TypeChain, InvFeed, EntryValidated, chain, crashAndRestart
<1> QED
  BY <1>1, <1>2, <1>3, <1>4, <1>5, <1>6, <1>7, <1>8, <1>9, <1>10, <1>11 DEF Next

\* A transaction that was sent stays sent.
LEMMA SentStep ==
  ASSUME TypeChain, Next
  PROVE  \A t \in Txs : txs[t] # "unsent" => txs'[t] # "unsent"
<1>1. CASE ChainStep
  BY <1>1
     DEF TypeChain, chain, ChainStep, IncludeTx, RefuseTx, Expire, OperatorValidates,
         Index, Cancel, Revoke
<1>2. ASSUME NEW p \in Procs, IssuanceStep(p)
      PROVE  \A t \in Txs : txs[t] # "unsent" => txs'[t] # "unsent"
  BY <1>2
     DEF TypeChain, chain, IssuanceStep, issuanceAfterValidated, markPendingClaims,
         offerCredential, sendOffer, attachCredentialExchangeRecord
<1>3. ASSUME NEW p \in Procs, MarkStep(p) \/ ReadFailure(p)
      PROVE  \A t \in Txs : txs[t] # "unsent" => txs'[t] # "unsent"
  BY <1>3
     DEF TypeChain, chain, MarkStep, ReadFailure, markValidated, markRead, markSave,
         ReadFails
<1>4. ASSUME NEW p \in Admins, AdminCall(p)
      PROVE  \A t \in Txs : txs[t] # "unsent" => txs'[t] # "unsent"
  BY <1>4
     DEF TypeChain, chain, AdminCall, validateFlow, rejectFlow, sendOobLink,
         startValidation
<1>5. ASSUME NEW p \in Admins, AdminStep(p)
      PROVE  \A t \in Txs : txs[t] # "unsent" => txs'[t] # "unsent"
  BY <1>5
     DEF TypeChain, chain, AdminStep, validateEntry, validateSendsValidating,
         validateContinues, awaitOperator, broadcast, submitFailed, recordSubmitted,
         rejectEntry, terminateByValidator
<1>6. ASSUME NEW r \in Txs, LookupStep(r) \/ findTxFails(r)
      PROVE  \A t \in Txs : txs[t] # "unsent" => txs'[t] # "unsent"
  BY <1>6
     DEF TypeChain, chain, LookupStep, findTxFails, resolveValidationTx, findTx,
         lookupEntry, failUnlessValidated, failRecheck, failKeep, failRecord
<1>7. CASE HandlerStep
  BY <1>7
     DEF TypeChain, chain, HandlerStep, handleValidated, handleRevoked,
         handleCancelled, saveEvent
<1>8. CASE AcceptStep
  BY <1>8
     DEF TypeChain, chain, AcceptStep, checkParticipantId, checkParticipantIdWaits,
         acceptOnboardingRequest, rejectRequest
<1>9. CASE processReceiveOnboardingRequest
  BY <1>9 DEF TypeChain, chain, processReceiveOnboardingRequest
<1>10. CASE applicantTerminates \/ exchangeEnds \/ autoIssueThrows
  BY <1>10 DEF TypeChain, chain, applicantTerminates, exchangeEnds, autoIssueThrows
<1>11. CASE crashAndRestart
  BY <1>11 DEF TypeChain, chain, crashAndRestart
<1> QED
  BY <1>1, <1>2, <1>3, <1>4, <1>5, <1>6, <1>7, <1>8, <1>9, <1>10, <1>11 DEF Next

\* The parts of InvLookup: every transaction a notification names was sent,
InvSentFeed == \A i \in 1..Len(feed) : Sent(feed[i].tx)
\* every one a procedure has read or broadcast was sent,
InvSentLoc == \A p \in Procs : Sent(loc[p].seen.tx) /\ Sent(loc[p].landed)
\* every one whose lookup runs was sent,
InvRunning == \A t \in Txs : at[t] # "idle" => txs[t] # "unsent"
\* and an admin call that is between its broadcast and its save is the only one
\* for its transaction, whose lookup has not started.
InvSubmitted == \A p \in Procs :
          at[p] = "submitted" =>
              /\ p \in Admins
              /\ loc[p].landed \in Txs /\ at[loc[p].landed] = "idle"
              /\ \A q \in Procs :
                    at[q] = "submitted" /\ loc[q].landed = loc[p].landed => q = p

\* The record only names a transaction that a procedure has read or broadcast.
LEMMA SentRecordStep ==
  ASSUME TypeProcs, InvLookup, Next
  PROVE  Sent(validation'.tx)
<1>1. CASE ChainStep
  BY <1>1, ConstFacts, LocalsFields
     DEF InvLookup, record, recordValidation, Decided, ChainStep, IncludeTx, RefuseTx,
         Expire, OperatorValidates, Index, Cancel, Revoke
<1>2. ASSUME NEW p \in Procs, IssuanceStep(p) PROVE Sent(validation'.tx)
  BY <1>2, ConstFacts, LocalsFields
     DEF InvLookup, record, recordValidation, Decided, IssuanceStep,
         issuanceAfterValidated, markPendingClaims, offerCredential, sendOffer,
         attachCredentialExchangeRecord
<1>3. ASSUME NEW p \in Procs, MarkStep(p) \/ ReadFailure(p) PROVE Sent(validation'.tx)
  BY <1>3, ConstFacts, LocalsFields
     DEF InvLookup, record, recordValidation, Decided, MarkStep, ReadFailure,
         markValidated, markRead, markSave, ReadFails
<1>4. ASSUME NEW p \in Admins, AdminCall(p) PROVE Sent(validation'.tx)
  BY <1>4, ConstFacts, LocalsFields
     DEF InvLookup, record, recordValidation, Decided, AdminCall, validateFlow,
         rejectFlow, sendOobLink, startValidation
<1>5. ASSUME NEW p \in Admins, AdminStep(p) PROVE Sent(validation'.tx)
  <2>1. CASE awaitOperator(p) \/ submitFailed(p)
    BY <2>1, ConstFacts DEF awaitOperator, submitFailed, recordValidation, Decided, Sent
  <2>2. CASE recordSubmitted(p)
    BY <2>2, ConstFacts DEF recordSubmitted, recordValidation, Decided, InvLookup
  <2> QED
    BY <1>5, <2>1, <2>2
    DEF InvLookup, record, AdminStep, validateEntry, validateSendsValidating,
        validateContinues, broadcast, rejectEntry, terminateByValidator
<1>6. ASSUME NEW r \in Txs, LookupStep(r) \/ findTxFails(r) PROVE Sent(validation'.tx)
  BY <1>6, ConstFacts, LocalsFields
     DEF InvLookup, record, recordValidation, Decided, LookupStep, findTxFails,
         resolveValidationTx, findTx, lookupEntry, failUnlessValidated, failRecheck,
         failKeep, failRecord
<1>7. CASE HandlerStep
  BY <1>7, ConstFacts, LocalsFields
     DEF InvLookup, record, recordValidation, Decided, HandlerStep, handleValidated,
         handleRevoked, handleCancelled, saveEvent
<1>8. CASE AcceptStep
  BY <1>8, ConstFacts, LocalsFields
     DEF InvLookup, record, recordValidation, Decided, AcceptStep, checkParticipantId,
         checkParticipantIdWaits, acceptOnboardingRequest, rejectRequest
<1>9. CASE processReceiveOnboardingRequest
  BY <1>9, ConstFacts, LocalsFields
     DEF InvLookup, record, recordValidation, Decided, processReceiveOnboardingRequest
<1>10. CASE applicantTerminates \/ exchangeEnds \/ autoIssueThrows
  BY <1>10, ConstFacts, LocalsFields
     DEF InvLookup, record, recordValidation, Decided, applicantTerminates,
         exchangeEnds, autoIssueThrows
<1>11. CASE crashAndRestart
  BY <1>11, ConstFacts, LocalsFields
     DEF InvLookup, record, recordValidation, Decided, crashAndRestart
<1> QED
  BY <1>1, <1>2, <1>3, <1>4, <1>5, <1>6, <1>7, <1>8, <1>9, <1>10, <1>11 DEF Next

\* What a procedure reads of the record or takes from a notification was sent.
LEMMA SentLocStep ==
  ASSUME TypeChain, TypeProcs, InvLookup, InvFeed, Next
  PROVE  \A q \in Procs : Sent(loc'[q].seen.tx) /\ (at'[q] # "submitted" => Sent(loc'[q].landed))
<1> DEFINE Known == \A q \in Procs :
        Sent(loc'[q].seen.tx) /\ (at'[q] # "submitted" => Sent(loc'[q].landed))
<1>n. Sent(NoTx) /\ Sent(validation.tx) /\ \A p \in Procs : Sent(loc[p].seen.tx) /\ Sent(loc[p].landed)
  BY ConstFacts DEF Sent, InvLookup
<1>k. UNCHANGED <<at, loc>> => Known
  BY <1>n DEF InvLookup
<1>a. ASSUME NEW p \in Procs, NEW s, Goto(p, s) PROVE Known
  BY <1>a, <1>n DEF Goto, TypeProcs
<1>b. ASSUME NEW p \in Procs, NEW s, NEW l, GotoWith(p, s, l),
             Sent(l.seen.tx), s # "submitted" => Sent(l.landed)
      PROVE  Known
  BY <1>b, <1>n DEF GotoWith, TypeProcs
<1>c. ASSUME NEW p \in Procs, Finish(p) PROVE Known
  BY <1>c, <1>n, LocalsFields DEF Finish, TypeProcs
<1>l. \A p \in Procs : loc[p] \in Locals
  BY DEF TypeProcs
<1> SUFFICES Known
  OBVIOUS
<1> HIDE DEF Known
<1>1. CASE ChainStep
  BY <1>1, <1>k
     DEF ChainStep, IncludeTx, RefuseTx, Expire, OperatorValidates, Index, Cancel,
         Revoke
<1>2. ASSUME NEW p \in Procs, IssuanceStep(p) PROVE Known
  <2>1. CASE issuanceAfterValidated(p)
    <3>1. /\ [loc[p] EXCEPT !.state = state].seen = loc[p].seen
          /\ [loc[p] EXCEPT !.state = state].landed = loc[p].landed
      BY <1>l, LocalsFields
    <3> QED
      BY <2>1, <3>1, <1>n, <1>b, <1>c DEF issuanceAfterValidated, Leave
  <2> QED
    BY <1>2, <2>1, <1>a, <1>c
       DEF IssuanceStep, markPendingClaims, offerCredential, sendOffer,
           attachCredentialExchangeRecord, Leave
<1>3. ASSUME NEW p \in Procs, MarkStep(p) \/ ReadFailure(p) PROVE Known
  <2>1. CASE markRead(p)
    <3>1. /\ [loc[p] EXCEPT !.seen = validation].seen = validation
          /\ [loc[p] EXCEPT !.seen = validation].landed = loc[p].landed
      BY <1>l, LocalsFields
    <3> QED
      BY <2>1, <3>1, <1>n, <1>b, <1>c DEF markRead
  <2> QED
    BY <1>3, <2>1, <1>a, <1>c
       DEF MarkStep, markValidated, markSave, continueAfterValidated, ReadFailure,
           ReadFails
<1>4. ASSUME NEW p \in Admins, AdminCall(p) PROVE Known
  <2>1. CASE validateFlow(p) \/ rejectFlow(p)
    <3>1. /\ Snapshot.seen = validation /\ Snapshot.landed = NoTx
          /\ [Snapshot EXCEPT !.goesOn = TRUE].seen = validation
          /\ [Snapshot EXCEPT !.goesOn = TRUE].landed = NoTx
      BY LocalsFields
    <3> QED
      BY <2>1, <3>1, <1>n, <1>b, ConstFacts DEF validateFlow, rejectFlow
  <2> QED
    BY <1>4, <2>1, <1>k DEF AdminCall, sendOobLink, startValidation
<1>5. ASSUME NEW p \in Admins, AdminStep(p) PROVE Known
  <2>0. p \in Procs
    BY ConstFacts
  <2>1. CASE validateEntry(p)
    <3>1. /\ [loc[p] EXCEPT !.known = indexed, !.goesOn = TRUE].seen = loc[p].seen
          /\ [loc[p] EXCEPT !.known = indexed, !.goesOn = TRUE].landed = loc[p].landed
      BY <1>l, <2>0, LocalsFields
    <3> QED
      BY <2>1, <3>1, <2>0, <1>n, <1>a, <1>b, <1>c DEF validateEntry
  <2>2. CASE broadcast(p)
    <3>1. \A t : [loc[p] EXCEPT !.landed = t].seen = loc[p].seen
      BY <1>l, <2>0, LocalsFields
    <3> QED
      BY <2>2, <3>1, <2>0, <1>n, <1>a, <1>b DEF broadcast
  <2>3. CASE recordSubmitted(p)
    BY <2>3, <2>0, <1>n, LocalsFields DEF recordSubmitted, TypeProcs, Known
  <2> QED
    BY <1>5, <2>0, <2>1, <2>2, <2>3, <1>a, <1>c
    DEF AdminStep, validateSendsValidating, validateContinues, continueAfterValidated,
        awaitOperator, submitFailed, rejectEntry, terminateByValidator
<1>6. ASSUME NEW r \in Txs, LookupStep(r) \/ findTxFails(r) PROVE Known
  <2>0. r \in Procs
    BY ConstFacts
  <2>1. CASE resolveValidationTx(r)
    <3>1. /\ [Snapshot EXCEPT !.known = loc[r].known].seen = validation
          /\ [Snapshot EXCEPT !.known = loc[r].known].landed = NoTx
      BY LocalsFields
    <3> QED
      BY <2>0, <2>1, <3>1, <1>n, <1>b, <1>c DEF resolveValidationTx
  <2>2. CASE findTx(r)
    <3>1. /\ [loc[r] EXCEPT !.known = TRUE].seen = loc[r].seen
          /\ [loc[r] EXCEPT !.known = TRUE].landed = loc[r].landed
          /\ [loc[r] EXCEPT !.txFailed = TRUE].seen = loc[r].seen
          /\ [loc[r] EXCEPT !.txFailed = TRUE].landed = loc[r].landed
      BY <2>0, <1>l, LocalsFields
    <3> QED
      BY <2>0, <2>2, <3>1, <1>n, <1>a, <1>b DEF findTx
  <2>3. CASE lookupEntry(r)
    <3> DEFINE l == [loc[r] EXCEPT !.landed = loc[r].seen.tx, !.goesOn = TRUE]
    <3>1. l.seen = loc[r].seen /\ l.landed = loc[r].seen.tx
      BY <2>0, <1>l, LocalsFields
    <3> QED
      BY <2>0, <2>3, <3>1, <1>n, <1>a, <1>b, <1>c DEF lookupEntry
  <2>4. CASE failRecheck(r)
    <3>1. /\ [loc[r] EXCEPT !.goesOn = TRUE].seen = loc[r].seen
          /\ [loc[r] EXCEPT !.goesOn = TRUE].landed = loc[r].landed
      BY <2>0, <1>l, LocalsFields
    <3> QED
      BY <2>0, <2>4, <3>1, <1>n, <1>b, <1>c DEF failRecheck
  <2> QED
    BY <1>6, <2>0, <2>1, <2>2, <2>3, <2>4, <1>a, <1>c
    DEF LookupStep, failUnlessValidated, failKeep, failRecord, findTxFails
<1>7. CASE HandlerStep
  <2>1. CASE handleValidated
    <3> DEFINE l == [Snapshot EXCEPT !.landed = Head(feed).tx,
                                     !.goesOn = ~isRejectedInFlight(Snapshot)]
    <3>1. l.seen = validation /\ l.landed = Head(feed).tx
      BY LocalsFields
    <3>2. 1 \in 1..Len(feed) /\ Head(feed) = feed[1]
      BY <2>1, HeadTailProperties, LenProperties DEF handleValidated, TypeChain
    <3>3. Sent(Head(feed).tx)
      BY <3>2 DEF InvLookup
    <3> QED
      BY <2>1, <3>1, <3>3, <1>n, <1>b, <1>c, ConstFacts DEF handleValidated
  <2> QED
    BY <1>7, <2>1, <1>a, <1>c, ConstFacts
    DEF HandlerStep, handleRevoked, handleCancelled, saveEvent
<1>8. CASE AcceptStep
  <2>1. /\ [NoLocals EXCEPT !.known = TRUE].seen.tx = NoTx
        /\ [NoLocals EXCEPT !.known = TRUE].landed = NoTx
        /\ [loc[Accept] EXCEPT !.goesOn = TRUE].seen = loc[Accept].seen
        /\ [loc[Accept] EXCEPT !.goesOn = TRUE].landed = loc[Accept].landed
    BY <1>l, ConstFacts, LocalsFacts, LocalsFields
  <2> QED
    BY <1>8, <2>1, <1>n, <1>a, <1>b, <1>c, ConstFacts
    DEF AcceptStep, checkParticipantId, checkParticipantIdWaits, acceptOnboardingRequest,
        rejectRequest
<1>9. CASE processReceiveOnboardingRequest
  BY <1>9, <1>n, <1>k, <1>a, <1>b, ConstFacts, LocalsFields
     DEF processReceiveOnboardingRequest, continueAfterValidated
<1>10. CASE applicantTerminates \/ exchangeEnds \/ autoIssueThrows
  BY <1>10, <1>k DEF applicantTerminates, exchangeEnds, autoIssueThrows
<1>11. CASE crashAndRestart
  BY <1>11, <1>n, LocalsFields DEF crashAndRestart, Known
<1> QED
  BY <1>1, <1>2, <1>3, <1>4, <1>5, <1>6, <1>7, <1>8, <1>9, <1>10, <1>11 DEF Next

\* A lookup starts only for a transaction that was sent (setValidated, and the
\* resumed lookups after a restart).
LEMMA RunningStep ==
  ASSUME TypeChain, TypeProcs, InvLookup, Next
  PROVE  \A t \in Txs : at'[t] # "idle" => txs'[t] # "unsent"
<1>1. CASE ChainStep
  BY <1>1, ConstFacts, SentStep
     DEF TypeChain, TypeProcs, InvLookup, Sent, chain, Goto, GotoWith, Finish, Leave,
         continueAfterValidated, ChainStep, IncludeTx, RefuseTx, Expire,
         OperatorValidates, Index, Cancel, Revoke
<1>2. ASSUME NEW p \in Procs, IssuanceStep(p)
      PROVE  \A t \in Txs : at'[t] # "idle" => txs'[t] # "unsent"
  BY <1>2, ConstFacts, SentStep
     DEF TypeChain, TypeProcs, InvLookup, Sent, chain, Goto, GotoWith, Finish, Leave,
         continueAfterValidated, IssuanceStep, issuanceAfterValidated,
         markPendingClaims, offerCredential, sendOffer, attachCredentialExchangeRecord
<1>3. ASSUME NEW p \in Procs, MarkStep(p) \/ ReadFailure(p)
      PROVE  \A t \in Txs : at'[t] # "idle" => txs'[t] # "unsent"
  BY <1>3, ConstFacts, SentStep
     DEF TypeChain, TypeProcs, InvLookup, Sent, chain, Goto, GotoWith, Finish, Leave,
         continueAfterValidated, MarkStep, ReadFailure, markValidated, markRead,
         markSave, ReadFails
<1>4. ASSUME NEW p \in Admins, AdminCall(p)
      PROVE  \A t \in Txs : at'[t] # "idle" => txs'[t] # "unsent"
  BY <1>4, ConstFacts, SentStep
     DEF TypeChain, TypeProcs, InvLookup, Sent, chain, Goto, GotoWith, Finish, Leave,
         continueAfterValidated, AdminCall, validateFlow, rejectFlow, sendOobLink,
         startValidation
<1>5. ASSUME NEW p \in Admins, AdminStep(p)
      PROVE  \A t \in Txs : at'[t] # "idle" => txs'[t] # "unsent"
  BY <1>5, ConstFacts, SentStep
     DEF TypeChain, TypeProcs, InvLookup, Sent, chain, Goto, GotoWith, Finish, Leave,
         continueAfterValidated, AdminStep, validateEntry, validateSendsValidating,
         validateContinues, awaitOperator, broadcast, submitFailed, recordSubmitted,
         rejectEntry, terminateByValidator
<1>6. ASSUME NEW r \in Txs, LookupStep(r) \/ findTxFails(r)
      PROVE  \A t \in Txs : at'[t] # "idle" => txs'[t] # "unsent"
  BY <1>6, ConstFacts, SentStep
     DEF TypeChain, TypeProcs, InvLookup, Sent, chain, Goto, GotoWith, Finish, Leave,
         continueAfterValidated, LookupStep, findTxFails, resolveValidationTx, findTx,
         lookupEntry, failUnlessValidated, failRecheck, failKeep, failRecord
<1>7. CASE HandlerStep
  BY <1>7, ConstFacts, SentStep
     DEF TypeChain, TypeProcs, InvLookup, Sent, chain, Goto, GotoWith, Finish, Leave,
         continueAfterValidated, HandlerStep, handleValidated, handleRevoked,
         handleCancelled, saveEvent
<1>8. CASE AcceptStep
  BY <1>8, ConstFacts, SentStep
     DEF TypeChain, TypeProcs, InvLookup, Sent, chain, Goto, GotoWith, Finish, Leave,
         continueAfterValidated, AcceptStep, checkParticipantId,
         checkParticipantIdWaits, acceptOnboardingRequest, rejectRequest
<1>9. CASE processReceiveOnboardingRequest
  BY <1>9, ConstFacts, SentStep
     DEF TypeChain, TypeProcs, InvLookup, Sent, chain, Goto, GotoWith, Finish, Leave,
         continueAfterValidated, processReceiveOnboardingRequest
<1>10. CASE applicantTerminates \/ exchangeEnds \/ autoIssueThrows
  BY <1>10, ConstFacts, SentStep
     DEF TypeChain, TypeProcs, InvLookup, Sent, chain, Goto, GotoWith, Finish, Leave,
         continueAfterValidated, applicantTerminates, exchangeEnds, autoIssueThrows
<1>11. CASE crashAndRestart
  BY <1>11, ConstFacts, SentStep
     DEF TypeChain, TypeProcs, InvLookup, Sent, chain, Goto, GotoWith, Finish, Leave,
         continueAfterValidated, crashAndRestart
<1> QED
  BY <1>1, <1>2, <1>3, <1>4, <1>5, <1>6, <1>7, <1>8, <1>9, <1>10, <1>11 DEF Next

\* The notification being handled stays in the feed until its handler ends.
LEMMA FeedStep ==
  ASSUME TypeRecord, TypeChain, TypeProcs, InvLookup, InvFeed, Next
  PROVE  InvFeed'
<1>1. CASE ChainStep
  <2>1. CASE Index \/ Cancel \/ Revoke
    <3>1. \E n \in Notices : feed' = Append(feed, n)
      BY <2>1 DEF Index, Cancel, Revoke, Notices
    <3>2. feed' # <<>>
      BY <3>1, AppendProperties DEF TypeChain
    <3> QED
      BY <3>2 DEF InvFeed
  <2> QED
    BY <1>1, <2>1 DEF ChainStep, IncludeTx, RefuseTx, Expire, OperatorValidates, InvFeed
<1>2. ASSUME NEW p \in Procs, IssuanceStep(p) PROVE InvFeed'
  BY <1>2, ConstFacts, LocalsFacts
     DEF InvFeed, TypeRecord, InvLookup, TypeProcs, chain, Goto, GotoWith, Finish,
         Rest, Leave, continueAfterValidated, IssuanceStep, issuanceAfterValidated,
         markPendingClaims, offerCredential, sendOffer, attachCredentialExchangeRecord
<1>3. ASSUME NEW p \in Procs, MarkStep(p) \/ ReadFailure(p) PROVE InvFeed'
  BY <1>3, ConstFacts, LocalsFacts
     DEF InvFeed, TypeRecord, InvLookup, TypeProcs, chain, Goto, GotoWith, Finish,
         Rest, Leave, continueAfterValidated, MarkStep, ReadFailure, markValidated,
         markRead, markSave, ReadFails
<1>4. ASSUME NEW p \in Admins, AdminCall(p) PROVE InvFeed'
  BY <1>4, ConstFacts, LocalsFacts
     DEF InvFeed, TypeRecord, InvLookup, TypeProcs, chain, Goto, GotoWith, Finish,
         Rest, Leave, continueAfterValidated, AdminCall, validateFlow, rejectFlow,
         sendOobLink, startValidation
<1>5. ASSUME NEW p \in Admins, AdminStep(p) PROVE InvFeed'
  BY <1>5, ConstFacts, LocalsFacts
     DEF InvFeed, TypeRecord, InvLookup, TypeProcs, chain, Goto, GotoWith, Finish,
         Rest, Leave, continueAfterValidated, AdminStep, validateEntry,
         validateSendsValidating, validateContinues, awaitOperator, broadcast,
         submitFailed, recordSubmitted, rejectEntry, terminateByValidator
<1>6. ASSUME NEW r \in Txs, LookupStep(r) \/ findTxFails(r) PROVE InvFeed'
  BY <1>6, ConstFacts, LocalsFacts
     DEF InvFeed, TypeRecord, InvLookup, TypeProcs, chain, Goto, GotoWith, Finish,
         Rest, Leave, continueAfterValidated, LookupStep, findTxFails,
         resolveValidationTx, findTx, lookupEntry, failUnlessValidated, failRecheck,
         failKeep, failRecord
<1>7. CASE HandlerStep
  BY <1>7, ConstFacts, LocalsFacts
     DEF InvFeed, TypeRecord, InvLookup, TypeProcs, chain, Goto, GotoWith, Finish,
         Rest, Leave, continueAfterValidated, HandlerStep, handleValidated,
         handleRevoked, handleCancelled, saveEvent
<1>8. CASE AcceptStep
  BY <1>8, ConstFacts, LocalsFacts
     DEF InvFeed, TypeRecord, InvLookup, TypeProcs, chain, Goto, GotoWith, Finish,
         Rest, Leave, continueAfterValidated, AcceptStep, checkParticipantId,
         checkParticipantIdWaits, acceptOnboardingRequest, rejectRequest
<1>9. CASE processReceiveOnboardingRequest
  BY <1>9, ConstFacts, LocalsFacts
     DEF InvFeed, TypeRecord, InvLookup, TypeProcs, chain, Goto, GotoWith, Finish,
         Rest, Leave, continueAfterValidated, processReceiveOnboardingRequest
<1>10. CASE applicantTerminates \/ exchangeEnds \/ autoIssueThrows
  BY <1>10, ConstFacts, LocalsFacts
     DEF InvFeed, TypeRecord, InvLookup, TypeProcs, chain, Goto, GotoWith, Finish,
         Rest, Leave, continueAfterValidated, applicantTerminates, exchangeEnds,
         autoIssueThrows
<1>11. CASE crashAndRestart
  BY <1>11, ConstFacts, LocalsFacts
     DEF InvFeed, TypeRecord, InvLookup, TypeProcs, chain, Goto, GotoWith, Finish,
         Rest, Leave, continueAfterValidated, crashAndRestart
<1> QED
  BY <1>1, <1>2, <1>3, <1>4, <1>5, <1>6, <1>7, <1>8, <1>9, <1>10, <1>11 DEF Next

\* The chain announces only transactions that were sent.
LEMMA SentFeedStep ==
  ASSUME TypeChain, InvLookup, InvFeed, Next
  PROVE  \A i \in 1..Len(feed') : Sent(feed'[i].tx)
<1>1. CASE ChainStep
  <2>1. CASE Index \/ Cancel \/ Revoke
    <3>1. PICK n \in Notices : feed' = Append(feed, n) /\ Sent(n.tx)
      <4>1. Index => \E n \in Notices : feed' = Append(feed, n) /\ Sent(n.tx)
        <5> SUFFICES ASSUME NEW t \in Txs \cup {NoTx}, t \in Txs => txs[t] = "ok",
                            feed' = Append(feed, [msg |-> "validated", tx |-> t])
                     PROVE  \E n \in Notices : feed' = Append(feed, n) /\ Sent(n.tx)
          BY DEF Index
        <5> QED
          BY DEF Notices, Sent
      <4>2. Cancel => \E n \in Notices : feed' = Append(feed, n) /\ Sent(n.tx)
        BY ConstFacts DEF Cancel, Notices, Sent
      <4>3. Revoke => \E n \in Notices : feed' = Append(feed, n) /\ Sent(n.tx)
        BY ConstFacts DEF Revoke, Notices, Sent
      <4> QED
        BY <2>1, <4>1, <4>2, <4>3
    <3>2. /\ Len(feed) \in Nat /\ Len(feed') = Len(feed) + 1
          /\ \A i \in 1..Len(feed) : feed'[i] = feed[i]
          /\ feed'[Len(feed) + 1] = n
      BY <3>1, AppendProperties, LenProperties DEF TypeChain
    <3> QED
      BY <3>1, <3>2 DEF InvLookup
  <2> QED
    BY <1>1, <2>1
       DEF InvLookup, ChainStep, IncludeTx, RefuseTx, Expire, OperatorValidates
<1>2. ASSUME NEW p \in Procs, IssuanceStep(p)
      PROVE  \A i \in 1..Len(feed') : Sent(feed'[i].tx)
  BY <1>2
     DEF InvLookup, chain, IssuanceStep, issuanceAfterValidated, markPendingClaims,
         offerCredential, sendOffer, attachCredentialExchangeRecord
<1>3. ASSUME NEW p \in Procs, MarkStep(p) \/ ReadFailure(p)
      PROVE  \A i \in 1..Len(feed') : Sent(feed'[i].tx)
  BY <1>3
     DEF InvLookup, chain, MarkStep, ReadFailure, markValidated, markRead, markSave,
         ReadFails
<1>4. ASSUME NEW p \in Admins, AdminCall(p)
      PROVE  \A i \in 1..Len(feed') : Sent(feed'[i].tx)
  BY <1>4
     DEF InvLookup, chain, AdminCall, validateFlow, rejectFlow, sendOobLink,
         startValidation
<1>5. ASSUME NEW p \in Admins, AdminStep(p)
      PROVE  \A i \in 1..Len(feed') : Sent(feed'[i].tx)
  BY <1>5
     DEF InvLookup, chain, AdminStep, validateEntry, validateSendsValidating,
         validateContinues, awaitOperator, broadcast, submitFailed, recordSubmitted,
         rejectEntry, terminateByValidator
<1>6. ASSUME NEW r \in Txs, LookupStep(r) \/ findTxFails(r)
      PROVE  \A i \in 1..Len(feed') : Sent(feed'[i].tx)
  BY <1>6
     DEF InvLookup, chain, LookupStep, findTxFails, resolveValidationTx, findTx,
         lookupEntry, failUnlessValidated, failRecheck, failKeep, failRecord
<1>7. CASE HandlerStep
  <2>1. CASE saveEvent
    <3>1. feed' = Tail(feed) /\ feed # <<>>
      BY <2>1 DEF saveEvent, InvFeed
    <3>2. /\ Len(feed) \in Nat /\ Len(feed') = Len(feed) - 1
          /\ \A i \in 1..Len(feed') : feed'[i] = feed[i + 1]
      BY <3>1, HeadTailProperties, LenProperties DEF TypeChain
    <3> QED
      BY <3>2 DEF InvLookup
  <2> QED
    BY <1>7, <2>1
       DEF InvLookup, chain, HandlerStep, handleValidated, handleRevoked,
           handleCancelled
<1>8. CASE AcceptStep
  BY <1>8
     DEF InvLookup, chain, AcceptStep, checkParticipantId, checkParticipantIdWaits,
         acceptOnboardingRequest, rejectRequest
<1>9. CASE processReceiveOnboardingRequest
  BY <1>9 DEF InvLookup, chain, processReceiveOnboardingRequest
<1>10. CASE applicantTerminates \/ exchangeEnds \/ autoIssueThrows
  BY <1>10 DEF InvLookup, chain, applicantTerminates, exchangeEnds, autoIssueThrows
<1>11. CASE crashAndRestart
  BY <1>11 DEF InvLookup, chain, crashAndRestart
<1> QED
  BY <1>1, <1>2, <1>3, <1>4, <1>5, <1>6, <1>7, <1>8, <1>9, <1>10, <1>11 DEF Next

\* How a step changes who is between broadcast and save: nobody enters it, or one
\* admin call with a transaction that was not sent before.
SubmitMove ==
    \/ \A q \in Procs : at'[q] = "submitted" => at[q] = "submitted" /\ loc'[q] = loc[q]
    \/ \E p \in Admins, t \in Txs :
         /\ txs[t] = "unsent" /\ txs'[t] # "unsent" /\ at[p] = "submit"
         /\ at' = [at EXCEPT ![p] = "submitted"]
         /\ loc' = [loc EXCEPT ![p] = [loc[p] EXCEPT !.landed = t]]

\* Every step of every procedure is one of these two moves.
LEMMA SubmitMoves ==
  ASSUME TypeChain, TypeProcs, InvLookup, Next
  PROVE  SubmitMove
<1>1. CASE ChainStep
  BY <1>1, ConstFacts
     DEF SubmitMove, TypeChain, TypeProcs, InvLookup, AfterEntry, Rest, Goto, GotoWith,
         Finish, Leave, continueAfterValidated, ChainStep, IncludeTx, RefuseTx, Expire,
         OperatorValidates, Index, Cancel, Revoke
<1>2. ASSUME NEW p \in Procs, IssuanceStep(p) PROVE SubmitMove
  BY <1>2, ConstFacts
     DEF SubmitMove, TypeChain, TypeProcs, InvLookup, AfterEntry, Rest, Goto, GotoWith,
         Finish, Leave, continueAfterValidated, IssuanceStep, issuanceAfterValidated,
         markPendingClaims, offerCredential, sendOffer, attachCredentialExchangeRecord
<1>3. ASSUME NEW p \in Procs, MarkStep(p) \/ ReadFailure(p) PROVE SubmitMove
  BY <1>3, ConstFacts
     DEF SubmitMove, TypeChain, TypeProcs, InvLookup, AfterEntry, Rest, Goto, GotoWith,
         Finish, Leave, continueAfterValidated, MarkStep, ReadFailure, markValidated,
         markRead, markSave, ReadFails
<1>4. ASSUME NEW p \in Admins, AdminCall(p) PROVE SubmitMove
  BY <1>4, ConstFacts
     DEF SubmitMove, TypeChain, TypeProcs, InvLookup, AfterEntry, Rest, Goto, GotoWith,
         Finish, Leave, continueAfterValidated, AdminCall, validateFlow, rejectFlow,
         sendOobLink, startValidation
<1>5. ASSUME NEW p \in Admins, AdminStep(p) PROVE SubmitMove
  BY <1>5, ConstFacts
     DEF SubmitMove, TypeChain, TypeProcs, InvLookup, AfterEntry, Rest, Goto, GotoWith,
         Finish, Leave, continueAfterValidated, AdminStep, validateEntry,
         validateSendsValidating, validateContinues, awaitOperator, broadcast,
         submitFailed, recordSubmitted, rejectEntry, terminateByValidator
<1>6. ASSUME NEW r \in Txs, LookupStep(r) \/ findTxFails(r) PROVE SubmitMove
  BY <1>6, ConstFacts
     DEF SubmitMove, TypeChain, TypeProcs, InvLookup, AfterEntry, Rest, Goto, GotoWith,
         Finish, Leave, continueAfterValidated, LookupStep, findTxFails,
         resolveValidationTx, findTx, lookupEntry, failUnlessValidated, failRecheck,
         failKeep, failRecord
<1>7. CASE HandlerStep
  BY <1>7, ConstFacts
     DEF SubmitMove, TypeChain, TypeProcs, InvLookup, AfterEntry, Rest, Goto, GotoWith,
         Finish, Leave, continueAfterValidated, HandlerStep, handleValidated,
         handleRevoked, handleCancelled, saveEvent
<1>8. CASE AcceptStep
  BY <1>8, ConstFacts
     DEF SubmitMove, TypeChain, TypeProcs, InvLookup, AfterEntry, Rest, Goto, GotoWith,
         Finish, Leave, continueAfterValidated, AcceptStep, checkParticipantId,
         checkParticipantIdWaits, acceptOnboardingRequest, rejectRequest
<1>9. CASE processReceiveOnboardingRequest
  BY <1>9, ConstFacts
     DEF SubmitMove, TypeChain, TypeProcs, InvLookup, AfterEntry, Rest, Goto, GotoWith,
         Finish, Leave, continueAfterValidated, processReceiveOnboardingRequest
<1>10. CASE applicantTerminates \/ exchangeEnds \/ autoIssueThrows
  BY <1>10, ConstFacts
     DEF SubmitMove, TypeChain, TypeProcs, InvLookup, AfterEntry, Rest, Goto, GotoWith,
         Finish, Leave, continueAfterValidated, applicantTerminates, exchangeEnds,
         autoIssueThrows
<1>11. CASE crashAndRestart
  BY <1>11, ConstFacts
     DEF SubmitMove, TypeChain, TypeProcs, InvLookup, AfterEntry, Rest, Goto, GotoWith,
         Finish, Leave, continueAfterValidated, crashAndRestart
<1> QED
  BY <1>1, <1>2, <1>3, <1>4, <1>5, <1>6, <1>7, <1>8, <1>9, <1>10, <1>11 DEF Next

\* A lookup is started by a restart or by the call that broadcast its
\* transaction, which leaves that point.
WakeMove == \A t \in Txs : at[t] = "idle" /\ at'[t] # "idle" =>
   \/ \A q \in Procs : at'[q] # "submitted"
   \/ \E p \in Admins : at[p] = "submitted" /\ loc[p].landed = t /\ at'[p] # "submitted"

\* Every start of a lookup is of one of these two kinds.
LEMMA WakeMoves ==
  ASSUME TypeProcs, InvLookup, Next
  PROVE  WakeMove
<1>1. CASE ChainStep
  BY <1>1, ConstFacts
     DEF WakeMove, TypeProcs, InvLookup, AfterEntry, Rest, Goto, GotoWith, Finish,
         Leave, continueAfterValidated, ChainStep, IncludeTx, RefuseTx, Expire,
         OperatorValidates, Index, Cancel, Revoke
<1>2. ASSUME NEW p \in Procs, IssuanceStep(p) PROVE WakeMove
  BY <1>2, ConstFacts
     DEF WakeMove, TypeProcs, InvLookup, AfterEntry, Rest, Goto, GotoWith, Finish,
         Leave, continueAfterValidated, IssuanceStep, issuanceAfterValidated,
         markPendingClaims, offerCredential, sendOffer, attachCredentialExchangeRecord
<1>3. ASSUME NEW p \in Procs, MarkStep(p) \/ ReadFailure(p) PROVE WakeMove
  BY <1>3, ConstFacts
     DEF WakeMove, TypeProcs, InvLookup, AfterEntry, Rest, Goto, GotoWith, Finish,
         Leave, continueAfterValidated, MarkStep, ReadFailure, markValidated, markRead,
         markSave, ReadFails
<1>4. ASSUME NEW p \in Admins, AdminCall(p) PROVE WakeMove
  BY <1>4, ConstFacts
     DEF WakeMove, TypeProcs, InvLookup, AfterEntry, Rest, Goto, GotoWith, Finish,
         Leave, continueAfterValidated, AdminCall, validateFlow, rejectFlow,
         sendOobLink, startValidation
<1>5. ASSUME NEW p \in Admins, AdminStep(p) PROVE WakeMove
  BY <1>5, ConstFacts
     DEF WakeMove, TypeProcs, InvLookup, AfterEntry, Rest, Goto, GotoWith, Finish,
         Leave, continueAfterValidated, AdminStep, validateEntry,
         validateSendsValidating, validateContinues, awaitOperator, broadcast,
         submitFailed, recordSubmitted, rejectEntry, terminateByValidator
<1>6. ASSUME NEW r \in Txs, LookupStep(r) \/ findTxFails(r) PROVE WakeMove
  BY <1>6, ConstFacts
     DEF WakeMove, TypeProcs, InvLookup, AfterEntry, Rest, Goto, GotoWith, Finish,
         Leave, continueAfterValidated, LookupStep, findTxFails, resolveValidationTx,
         findTx, lookupEntry, failUnlessValidated, failRecheck, failKeep, failRecord
<1>7. CASE HandlerStep
  BY <1>7, ConstFacts
     DEF WakeMove, TypeProcs, InvLookup, AfterEntry, Rest, Goto, GotoWith, Finish,
         Leave, continueAfterValidated, HandlerStep, handleValidated, handleRevoked,
         handleCancelled, saveEvent
<1>8. CASE AcceptStep
  BY <1>8, ConstFacts
     DEF WakeMove, TypeProcs, InvLookup, AfterEntry, Rest, Goto, GotoWith, Finish,
         Leave, continueAfterValidated, AcceptStep, checkParticipantId,
         checkParticipantIdWaits, acceptOnboardingRequest, rejectRequest
<1>9. CASE processReceiveOnboardingRequest
  BY <1>9, ConstFacts
     DEF WakeMove, TypeProcs, InvLookup, AfterEntry, Rest, Goto, GotoWith, Finish,
         Leave, continueAfterValidated, processReceiveOnboardingRequest
<1>10. CASE applicantTerminates \/ exchangeEnds \/ autoIssueThrows
  BY <1>10, ConstFacts
     DEF WakeMove, TypeProcs, InvLookup, AfterEntry, Rest, Goto, GotoWith, Finish,
         Leave, continueAfterValidated, applicantTerminates, exchangeEnds,
         autoIssueThrows
<1>11. CASE crashAndRestart
  BY <1>11, ConstFacts
     DEF WakeMove, TypeProcs, InvLookup, AfterEntry, Rest, Goto, GotoWith, Finish,
         Leave, continueAfterValidated, crashAndRestart
<1> QED
  BY <1>1, <1>2, <1>3, <1>4, <1>5, <1>6, <1>7, <1>8, <1>9, <1>10, <1>11 DEF Next

\* These moves keep one submitter per transaction without a running lookup.
LEMMA SubmittedStep ==
  ASSUME TypeChain, TypeProcs, TypeProcs', InvLookup, SubmitMove, WakeMove
  PROVE  InvSubmitted'
<1> USE DEF InvSubmitted
<1>0. InvSubmitted /\ InvRunning /\ InvSentLoc
  BY DEF InvLookup, InvRunning, InvSentLoc
<1>1. CASE \A q \in Procs : at'[q] = "submitted" => at[q] = "submitted" /\ loc'[q] = loc[q]
  <2> SUFFICES ASSUME NEW p \in Procs, at'[p] = "submitted"
               PROVE  /\ p \in Admins
                      /\ loc'[p].landed \in Txs /\ at'[loc'[p].landed] = "idle"
                      /\ \A q \in Procs :
                           at'[q] = "submitted" /\ loc'[q].landed = loc'[p].landed => q = p
    OBVIOUS
  <2>1. at[p] = "submitted" /\ loc'[p] = loc[p]
    BY <1>1
  <2>2. p \in Admins /\ loc[p].landed \in Txs /\ at[loc[p].landed] = "idle"
    BY <2>1, <1>0
  <2>3. \A q \in Procs : at'[q] = "submitted" /\ loc'[q].landed = loc'[p].landed => q = p
    BY <1>1, <2>1, <1>0
  <2>4. at'[loc[p].landed] = "idle"
    <3>1. ASSUME NEW q \in Admins, at[q] = "submitted", loc[q].landed = loc[p].landed
          PROVE  q = p
      BY <3>1, <2>1, <1>0, ConstFacts
    <3> QED
      BY <2>1, <2>2, <3>1 DEF WakeMove
  <2> QED
    BY <2>1, <2>2, <2>3, <2>4
<1>2. ASSUME NEW p \in Admins, NEW t \in Txs, txs[t] = "unsent", at[p] = "submit",
             at' = [at EXCEPT ![p] = "submitted"],
             loc' = [loc EXCEPT ![p] = [loc[p] EXCEPT !.landed = t]]
      PROVE  InvSubmitted'
  <2>1. /\ p \in Procs /\ at'[p] = "submitted" /\ loc'[p].landed = t
        /\ \A q \in Procs \ {p} : at'[q] = at[q] /\ loc'[q] = loc[q]
    BY <1>2, ConstFacts, LocalsFields DEF TypeProcs
  <2>2. t \in Procs \ {p} /\ at[t] = "idle"
    BY <1>2, <1>0, ConstFacts DEF InvRunning
  <2>3. \A q \in Procs : loc[q].landed # t
    BY <1>2, <1>0 DEF InvSentLoc, Sent
  <2>4. \A q \in Procs \ {p} : at[q] = "submitted" => loc[q].landed # p
    BY <1>0, ConstFacts
  <2> QED
    BY <2>1, <2>2, <2>3, <2>4, <1>0, <1>2
<1> QED
  BY <1>1, <1>2 DEF SubmitMove

\* The inductive invariant.
IInv == TypeOK /\ FlowInv

\* The type invariant is the conjunction of its groups.
LEMMA TypeParts == TypeOK <=> TypeRecord /\ TypeChain /\ TypeProcs /\ TypeLocks /\ TypeCounts
BY DEF TypeOK, TypeRecord, TypeChain, TypeProcs, TypeLocks, TypeCounts

\* The invariant of the lookups is the conjunction of its parts.
LEMMA LookupParts ==
    InvLookup <=> Sent(validation.tx) /\ InvSentFeed /\ InvSentLoc /\ InvRunning
    /\ InvSubmitted
BY DEF InvLookup, InvSentFeed, InvSentLoc, InvRunning, InvSubmitted

\* A new flow, before anything was sent.
LEMMA InitInv == Init => IInv
<1> SUFFICES ASSUME Init PROVE IInv
  OBVIOUS
<1> USE DEF Init
<1>1. TypeRecord /\ TypeChain /\ TypeProcs /\ TypeLocks /\ TypeCounts
  <2>1. TypeRecord
    BY StateFacts, LocalsFacts DEF TypeRecord
  <2>2. TypeChain
    BY EmptySeq DEF TypeChain
  <2>3. TypeProcs
    BY LocalsFacts DEF TypeProcs, Steps
  <2>4. TypeLocks /\ TypeCounts
    BY EmptySeq, ConstFacts DEF TypeLocks, TypeCounts
  <2> QED
    BY <2>1, <2>2, <2>3, <2>4
<1>2. OneRunPerFlow /\ InvLine
  BY ConstFacts, EmptySeq DEF OneRunPerFlow, InvLine, MarkSteps, IssueSteps
<1>3. NotSeen
  BY ConstFacts, EmptySeq, LocalsFields
     DEF NotSeen, FirstSeen, ValidatedStates, MarkSteps, IssueSteps
<1>4. InvLookup
  <2>1. \A p \in Procs : at[p] # "submitted"
    OBVIOUS
  <2>2. \A t \in Txs : at[t] = "idle"
    BY ConstFacts
  <2>3. Sent(validation.tx) /\ \A p \in Procs : Sent(loc[p].seen.tx) /\ Sent(loc[p].landed)
    BY ConstFacts, LocalsFields DEF Sent
  <2>4. \A i \in 1..Len(feed) : Sent(feed[i].tx)
    BY EmptySeq
  <2> QED
    BY <2>1, <2>2, <2>3, <2>4 DEF InvLookup
<1>5. InvFeed
  BY ConstFacts DEF InvFeed
<1> QED
  BY <1>1, <1>2, <1>3, <1>4, <1>5, TypeParts, NotSeenIs DEF IInv, FlowInv

\* Every step of every procedure, of the chain and of a crash keeps the
\* invariant, by the lemmas about each of its parts.
LEMMA NextInv ==
  ASSUME IInv, Next
  PROVE  IInv'
<1>0. /\ TypeRecord /\ TypeChain /\ TypeProcs /\ TypeLocks /\ TypeCounts
      /\ OneRunPerFlow /\ InvLine /\ InvSeen /\ OfferOnlyIfValidated /\ InvLookup /\ InvFeed
  BY TypeParts DEF IInv, FlowInv
<1>1. TypeRecord' /\ TypeChain' /\ TypeProcs' /\ TypeCounts'
  BY <1>0, RecordStep, ChainTypeStep, ProcsStep, CountsStep
<1>2. at' \in [Procs -> Steps]
  BY <1>1 DEF TypeProcs
<1>3. TypeLocks' /\ OneRunPerFlow' /\ InvLine'
  BY <1>0, <1>2, LineMoves, LockMoves, LineStep, LockStep DEF TypeLocks, OneRunPerFlow
<1>4. InvSeen' /\ OfferOnlyIfValidated'
  <2>1. CASE EntryValidated'
    BY <2>1 DEF InvSeen, OfferOnlyIfValidated, EntryValidated
  <2>2. CASE ~EntryValidated'
    <3>1. ~EntryValidated
      BY <2>2, EntryStep
    <3>2. NotSeen
      BY <1>0, <3>1, NotSeenIs
    <3>3. NotSeen'
      BY <1>0, <2>2, <3>1, <3>2, NotSeenRecordStep, NotSeenProcsStep, NotSeenChainStep
         DEF NotSeen
    <3> QED
      BY <3>3 DEF NotSeen, FirstSeen, ValidatedStates, InvSeen, OfferOnlyIfValidated
  <2> QED
    BY <2>1, <2>2
<1>5. InvLookup'
  <2>1. \A t : Sent(t) => Sent(t)'
    BY <1>0, SentStep DEF Sent
  <2>2. (Sent(validation.tx))' /\ InvSentFeed'
    BY <1>0, <2>1, SentRecordStep, SentFeedStep DEF InvSentFeed, Sent
  <2>3. InvRunning' /\ InvSubmitted'
    BY <1>0, <1>1, RunningStep, SubmitMoves, WakeMoves, SubmittedStep DEF InvRunning
  <2>4. InvSentLoc'
    <3>1. ASSUME NEW p \in Procs, at'[p] = "submitted" PROVE (Sent(loc[p].landed))'
      <4>1. CASE at[p] = "submitted" /\ loc'[p] = loc[p]
        BY <4>1, <2>1, <1>0 DEF InvLookup, Sent
      <4>2. ASSUME NEW q \in Admins, NEW t \in Txs, txs'[t] # "unsent",
                   at' = [at EXCEPT ![q] = "submitted"],
                   loc' = [loc EXCEPT ![q] = [loc[q] EXCEPT !.landed = t]]
            PROVE  (Sent(loc[p].landed))'
        <5>1. CASE p = q
          <6>1. loc'[p].landed = t
            BY <4>2, <5>1, <1>0, ConstFacts, LocalsFields DEF TypeProcs
          <6> QED
            BY <4>2, <6>1 DEF Sent
        <5>2. CASE p # q
          BY <4>2, <5>2, <2>1, <1>0 DEF InvLookup, Sent, TypeProcs
        <5> QED
          BY <5>1, <5>2
      <4> QED
        BY <3>1, <4>1, <4>2, <1>0, SubmitMoves DEF SubmitMove
    <3> QED
      BY <1>0, <2>1, <3>1, SentLocStep DEF InvSentLoc, Sent
  <2> QED
    BY <2>2, <2>3, <2>4 DEF InvLookup, InvSentFeed, InvSentLoc, InvRunning, InvSubmitted
<1>6. InvFeed'
  BY <1>0, FeedStep
<1> QED
  BY <1>1, <1>3, <1>4, <1>5, <1>6
  DEF IInv, FlowInv, TypeOK, TypeRecord, TypeChain, TypeProcs, TypeLocks, TypeCounts

\* So does a step that changes nothing.
LEMMA StutterInv == IInv /\ UNCHANGED vars => IInv'
BY
   DEF vars, record, chain, locks, exchange, bounds, IInv, FlowInv, TypeOK,
       OneRunPerFlow, OfferOnlyIfValidated, EntryValidated, InvLine, InvSeen,
       InvLookup, Sent, InvFeed

\* Every field of the record, the locks, the feed and what the procedures hold
\* across their awaits has its type, for any number of admins and transactions.
THEOREM TypeCorrect == Spec => []TypeOK
<1>1. IInv /\ [Next]_vars => IInv'
  BY NextInv, StutterInv
<1>2. IInv => TypeOK
  BY DEF IInv
<1> QED
  BY InitInv, <1>1, <1>2, PTL DEF Spec

\* One markValidated and one conclusion at a time, an offer only for an entry
\* that was validated on chain, one lookup per submitted transaction: for any
\* number of overlapping calls, notifications, reconnects and restarts.
THEOREM FlowInvariance == Spec => []FlowInv
<1>1. IInv /\ [Next]_vars => IInv'
  BY NextInv, StutterInv
<1>2. IInv => FlowInv
  BY DEF IInv
<1> QED
  BY InitInv, <1>1, <1>2, PTL DEF Spec

-----------------------------------------------------------------------------
\* The status of a transaction, with its own invariant on top of IInv.

\* What assigning one field of a procedure's locals leaves of what it knows.
LEMMA LocalsKnown ==
    /\ NoLocals.known = FALSE /\ NoValidation.status = "NONE"
    /\ \A x : /\ [Snapshot EXCEPT !.goesOn = x].known = FALSE
              /\ [Snapshot EXCEPT !.known = x].known = x
    /\ \A l \in Locals : \A x, y :
        /\ [l EXCEPT !.landed = x, !.goesOn = y].known = l.known
        /\ [l EXCEPT !.known = x].known = x
        /\ [l EXCEPT !.goesOn = x].known = l.known
        /\ [l EXCEPT !.txFailed = x].known = l.known
        /\ [l EXCEPT !.landed = x].known = l.known
        /\ [l EXCEPT !.seen = x].known = l.known
        /\ [l EXCEPT !.state = x].known = l.known
<1>1. NoLocals.known = FALSE /\ NoValidation.status = "NONE"
  BY DEF NoLocals, NoValidation
<1>2. \A x : /\ [Snapshot EXCEPT !.goesOn = x].known = FALSE
             /\ [Snapshot EXCEPT !.known = x].known = x
  BY DEF NoLocals, Snapshot
<1> QED
  BY <1>1, <1>2 DEF Locals

\* A transaction that was included stays so.
LEMMA IncludedStep ==
  ASSUME TypeChain, Next
  PROVE  \A t \in Txs : txs[t] = "ok" => txs'[t] = "ok"
<1>1. CASE ChainStep
  BY <1>1
     DEF TypeChain, Included, chain, ChainStep, IncludeTx, RefuseTx, Expire,
         OperatorValidates, Index, Cancel, Revoke
<1>2. ASSUME NEW p \in Procs, IssuanceStep(p)
      PROVE  \A t \in Txs : txs[t] = "ok" => txs'[t] = "ok"
  BY <1>2
     DEF TypeChain, Included, chain, IssuanceStep, issuanceAfterValidated,
         markPendingClaims, offerCredential, sendOffer, attachCredentialExchangeRecord
<1>3. ASSUME NEW p \in Procs, MarkStep(p) \/ ReadFailure(p)
      PROVE  \A t \in Txs : txs[t] = "ok" => txs'[t] = "ok"
  BY <1>3
     DEF TypeChain, Included, chain, MarkStep, ReadFailure, markValidated, markRead,
         markSave, ReadFails
<1>4. ASSUME NEW p \in Admins, AdminCall(p)
      PROVE  \A t \in Txs : txs[t] = "ok" => txs'[t] = "ok"
  BY <1>4
     DEF TypeChain, Included, chain, AdminCall, validateFlow, rejectFlow, sendOobLink,
         startValidation
<1>5. ASSUME NEW p \in Admins, AdminStep(p)
      PROVE  \A t \in Txs : txs[t] = "ok" => txs'[t] = "ok"
  BY <1>5
     DEF TypeChain, Included, chain, AdminStep, validateEntry, validateSendsValidating,
         validateContinues, awaitOperator, broadcast, submitFailed, recordSubmitted,
         rejectEntry, terminateByValidator
<1>6. ASSUME NEW r \in Txs, LookupStep(r) \/ findTxFails(r)
      PROVE  \A t \in Txs : txs[t] = "ok" => txs'[t] = "ok"
  BY <1>6
     DEF TypeChain, Included, chain, LookupStep, findTxFails, resolveValidationTx,
         findTx, lookupEntry, failUnlessValidated, failRecheck, failKeep, failRecord
<1>7. CASE HandlerStep
  BY <1>7
     DEF TypeChain, Included, chain, HandlerStep, handleValidated, handleRevoked,
         handleCancelled, saveEvent
<1>8. CASE AcceptStep
  BY <1>8
     DEF TypeChain, Included, chain, AcceptStep, checkParticipantId,
         checkParticipantIdWaits, acceptOnboardingRequest, rejectRequest
<1>9. CASE processReceiveOnboardingRequest
  BY <1>9 DEF TypeChain, Included, chain, processReceiveOnboardingRequest
<1>10. CASE applicantTerminates \/ exchangeEnds \/ autoIssueThrows
  BY <1>10
     DEF TypeChain, Included, chain, applicantTerminates, exchangeEnds, autoIssueThrows
<1>11. CASE crashAndRestart
  BY <1>11 DEF TypeChain, Included, chain, crashAndRestart
<1> QED
  BY <1>1, <1>2, <1>3, <1>4, <1>5, <1>6, <1>7, <1>8, <1>9, <1>10, <1>11 DEF Next

\* The record says SUCCEEDED only of a transaction that markValidated was given as
\* landed, or that it said so of before.
LEMMA SucceededStep ==
  ASSUME TypeRecord, TypeProcs, TypeChain, SucceededIsIncluded, InvLanded, Next
  PROVE  (SucceededOk(validation))'
<1>0. SucceededOk(validation) /\ \A t \in Txs : txs[t] = "ok" => txs'[t] = "ok"
  BY IncludedStep DEF SucceededIsIncluded
<1>1. CASE ChainStep
  BY <1>1, <1>0, ConstFacts, LocalsFields
     DEF record, recordValidation, Decided, SucceededOk, Included, ChainStep,
         IncludeTx, RefuseTx, Expire, OperatorValidates, Index, Cancel, Revoke
<1>2. ASSUME NEW p \in Procs, IssuanceStep(p)
      PROVE  (SucceededOk(validation))'
  BY <1>2, <1>0, ConstFacts, LocalsFields
     DEF record, recordValidation, Decided, SucceededOk, Included, IssuanceStep,
         issuanceAfterValidated, markPendingClaims, offerCredential, sendOffer,
         attachCredentialExchangeRecord
<1>3. ASSUME NEW p \in Procs, MarkStep(p) \/ ReadFailure(p)
      PROVE  (SucceededOk(validation))'
  <2>1. CASE markSave(p)
    <3>1. loc[p] \in Locals /\ SucceededOk(loc[p].seen)
          /\ (loc[p].landed # NoTx => Included(loc[p].landed))
      BY <2>1, LocalsFacts DEF markSave, InvLanded, TypeProcs
    <3> QED
      BY <2>1, <3>1, <1>0 DEF markSave, recordValidation, Decided, SucceededOk, Included
  <2> QED
    BY <1>3, <2>1, <1>0
       DEF MarkStep, ReadFailure, markValidated, markRead, ReadFails, record,
           SucceededOk, Included
<1>4. ASSUME NEW p \in Admins, AdminCall(p)
      PROVE  (SucceededOk(validation))'
  BY <1>4, <1>0, ConstFacts, LocalsFields
     DEF record, recordValidation, Decided, SucceededOk, Included, AdminCall,
         validateFlow, rejectFlow, sendOobLink, startValidation
<1>5. ASSUME NEW p \in Admins, AdminStep(p)
      PROVE  (SucceededOk(validation))'
  BY <1>5, <1>0, ConstFacts, LocalsFields
     DEF record, recordValidation, Decided, SucceededOk, Included, AdminStep,
         validateEntry, validateSendsValidating, validateContinues, awaitOperator,
         broadcast, submitFailed, recordSubmitted, rejectEntry, terminateByValidator
<1>6. ASSUME NEW r \in Txs, LookupStep(r) \/ findTxFails(r)
      PROVE  (SucceededOk(validation))'
  BY <1>6, <1>0, ConstFacts, LocalsFields
     DEF record, recordValidation, Decided, SucceededOk, Included, LookupStep,
         findTxFails, resolveValidationTx, findTx, lookupEntry, failUnlessValidated,
         failRecheck, failKeep, failRecord
<1>7. CASE HandlerStep
  BY <1>7, <1>0, ConstFacts, LocalsFields
     DEF record, recordValidation, Decided, SucceededOk, Included, HandlerStep,
         handleValidated, handleRevoked, handleCancelled, saveEvent
<1>8. CASE AcceptStep
  BY <1>8, <1>0, ConstFacts, LocalsFields
     DEF record, recordValidation, Decided, SucceededOk, Included, AcceptStep,
         checkParticipantId, checkParticipantIdWaits, acceptOnboardingRequest,
         rejectRequest
<1>9. CASE processReceiveOnboardingRequest
  BY <1>9, <1>0, ConstFacts, LocalsFields
     DEF record, recordValidation, Decided, SucceededOk, Included,
         processReceiveOnboardingRequest
<1>10. CASE applicantTerminates \/ exchangeEnds \/ autoIssueThrows
  BY <1>10, <1>0, ConstFacts, LocalsFields
     DEF record, recordValidation, Decided, SucceededOk, Included, applicantTerminates,
         exchangeEnds, autoIssueThrows
<1>11. CASE crashAndRestart
  BY <1>11, <1>0, ConstFacts, LocalsFields
     DEF record, recordValidation, Decided, SucceededOk, Included, crashAndRestart
<1> QED
  BY <1>1, <1>2, <1>3, <1>4, <1>5, <1>6, <1>7, <1>8, <1>9, <1>10, <1>11 DEF Next

\* The chain announces only transactions that were included.
LEMMA LandedFeedStep ==
  ASSUME TypeChain, InvFeed, InvLanded, Next
  PROVE  (\A i \in 1..Len(feed) : feed[i].tx \in Txs => Included(feed[i].tx))'
<1>0. \A t \in Txs : txs[t] = "ok" => txs'[t] = "ok"
  BY IncludedStep
<1>1. CASE ChainStep
  <2>1. CASE Index \/ Cancel \/ Revoke
    <3>1. PICK n \in Notices : feed' = Append(feed, n) /\ (n.tx \in Txs => txs'[n.tx] = "ok")
      <4>1. Index => \E n \in Notices : feed' = Append(feed, n) /\ (n.tx \in Txs => txs'[n.tx] = "ok")
        <5> SUFFICES ASSUME NEW t \in Txs \cup {NoTx}, t \in Txs => txs[t] = "ok", txs' = txs,
                            feed' = Append(feed, [msg |-> "validated", tx |-> t])
                     PROVE  \E n \in Notices : feed' = Append(feed, n) /\ (n.tx \in Txs => txs'[n.tx] = "ok")
          BY DEF Index
        <5> QED
          BY DEF Notices, Included
      <4>2. Cancel => \E n \in Notices : feed' = Append(feed, n) /\ (n.tx \in Txs => txs'[n.tx] = "ok")
        BY ConstFacts DEF Cancel, Notices
      <4>3. Revoke => \E n \in Notices : feed' = Append(feed, n) /\ (n.tx \in Txs => txs'[n.tx] = "ok")
        BY ConstFacts DEF Revoke, Notices
      <4> QED
        BY <2>1, <4>1, <4>2, <4>3
    <3>2. /\ Len(feed) \in Nat /\ Len(feed') = Len(feed) + 1
          /\ \A i \in 1..Len(feed) : feed'[i] = feed[i]
          /\ feed'[Len(feed) + 1] = n
      BY <3>1, AppendProperties, LenProperties DEF TypeChain
    <3> QED
      BY <1>0, <3>1, <3>2 DEF Included, InvLanded
  <2> QED
    BY <1>0, <1>1, <2>1
       DEF Included, InvLanded, ChainStep, IncludeTx, RefuseTx, Expire, OperatorValidates
<1>2. ASSUME NEW p \in Procs, IssuanceStep(p)
      PROVE  (\A i \in 1..Len(feed) : feed[i].tx \in Txs => Included(feed[i].tx))'
  BY <1>2, <1>0
     DEF Included, InvLanded, chain, IssuanceStep, issuanceAfterValidated,
         markPendingClaims, offerCredential, sendOffer, attachCredentialExchangeRecord
<1>3. ASSUME NEW p \in Procs, MarkStep(p) \/ ReadFailure(p)
      PROVE  (\A i \in 1..Len(feed) : feed[i].tx \in Txs => Included(feed[i].tx))'
  BY <1>3, <1>0
     DEF Included, InvLanded, chain, MarkStep, ReadFailure, markValidated, markRead,
         markSave, ReadFails
<1>4. ASSUME NEW p \in Admins, AdminCall(p)
      PROVE  (\A i \in 1..Len(feed) : feed[i].tx \in Txs => Included(feed[i].tx))'
  BY <1>4, <1>0
     DEF Included, InvLanded, chain, AdminCall, validateFlow, rejectFlow, sendOobLink,
         startValidation
<1>5. ASSUME NEW p \in Admins, AdminStep(p)
      PROVE  (\A i \in 1..Len(feed) : feed[i].tx \in Txs => Included(feed[i].tx))'
  BY <1>5, <1>0
     DEF Included, InvLanded, chain, AdminStep, validateEntry, validateSendsValidating,
         validateContinues, awaitOperator, broadcast, submitFailed, recordSubmitted,
         rejectEntry, terminateByValidator
<1>6. ASSUME NEW r \in Txs, LookupStep(r) \/ findTxFails(r)
      PROVE  (\A i \in 1..Len(feed) : feed[i].tx \in Txs => Included(feed[i].tx))'
  BY <1>6, <1>0
     DEF Included, InvLanded, chain, LookupStep, findTxFails, resolveValidationTx,
         findTx, lookupEntry, failUnlessValidated, failRecheck, failKeep, failRecord
<1>7. CASE HandlerStep
  <2>1. CASE saveEvent
    <3>1. feed' = Tail(feed) /\ feed # <<>>
      BY <2>1 DEF saveEvent, InvFeed
    <3>2. /\ Len(feed) \in Nat /\ Len(feed') = Len(feed) - 1
          /\ \A i \in 1..Len(feed') : feed'[i] = feed[i + 1]
      BY <3>1, HeadTailProperties, LenProperties DEF TypeChain
    <3> QED
      BY <1>0, <3>2 DEF Included, InvLanded
  <2> QED
    BY <1>0, <1>7, <2>1
       DEF Included, InvLanded, chain, HandlerStep, handleValidated, handleRevoked,
           handleCancelled
<1>8. CASE AcceptStep
  BY <1>8, <1>0
     DEF Included, InvLanded, chain, AcceptStep, checkParticipantId,
         checkParticipantIdWaits, acceptOnboardingRequest, rejectRequest
<1>9. CASE processReceiveOnboardingRequest
  BY <1>9, <1>0 DEF Included, InvLanded, chain, processReceiveOnboardingRequest
<1>10. CASE applicantTerminates \/ exchangeEnds \/ autoIssueThrows
  BY <1>10, <1>0
     DEF Included, InvLanded, chain, applicantTerminates, exchangeEnds, autoIssueThrows
<1>11. CASE crashAndRestart
  BY <1>11, <1>0 DEF Included, InvLanded, chain, crashAndRestart
<1> QED
  BY <1>1, <1>2, <1>3, <1>4, <1>5, <1>6, <1>7, <1>8, <1>9, <1>10, <1>11 DEF Next
\* What a procedure reads of the record, or takes from a notification or from a
\* lookup, was included.
LEMMA HeldStep ==
  ASSUME TypeChain, TypeProcs, InvLookup, SucceededIsIncluded, InvLanded, InvFeed, Next
  PROVE  (\A q \in Procs : /\ SucceededOk(loc[q].seen)
                           /\ at[q] # "submitted" /\ loc[q].landed \in Txs => Included(loc[q].landed))'
<1> DEFINE Ok(t) == t \in Txs => txs'[t] = "ok"
           Backed(v) == v.status = "SUCCEEDED" => v.tx \in Txs /\ txs'[v.tx] = "ok"
           Held == \A q \in Procs : Backed(loc'[q].seen) /\ (at'[q] # "submitted" => Ok(loc'[q].landed))
<1>n. /\ Backed(NoValidation) /\ Backed(validation) /\ Ok(NoTx)
      /\ \A p \in Procs : Backed(loc[p].seen) /\ (at[p] # "submitted" => Ok(loc[p].landed))
  BY IncludedStep, ConstFacts, LocalsKnown DEF SucceededIsIncluded, SucceededOk, Included, InvLanded
<1>k. UNCHANGED <<at, loc>> => Held
  BY <1>n
<1>a. ASSUME NEW p \in Procs, NEW s, at[p] # "submitted", Goto(p, s) PROVE Held
  BY <1>a, <1>n DEF Goto, TypeProcs
<1>b. ASSUME NEW p \in Procs, NEW s, NEW l, GotoWith(p, s, l),
             Backed(l.seen), s # "submitted" => Ok(l.landed)
      PROVE  Held
  BY <1>b, <1>n DEF GotoWith, TypeProcs
<1>c. ASSUME NEW p \in Procs, Finish(p) PROVE Held
  BY <1>c, <1>n, LocalsFields DEF Finish, TypeProcs
<1>l. \A p \in Procs : loc[p] \in Locals
  BY DEF TypeProcs
<1> SUFFICES Held
  BY DEF SucceededOk, Included
<1> HIDE DEF Held, Ok, Backed
<1>1. CASE ChainStep
  BY <1>1, <1>k
     DEF ChainStep, IncludeTx, RefuseTx, Expire, OperatorValidates, Index, Cancel,
         Revoke
<1>2. ASSUME NEW p \in Procs, IssuanceStep(p) PROVE Held
  <2>1. CASE issuanceAfterValidated(p)
    <3>1. /\ [loc[p] EXCEPT !.state = state].seen = loc[p].seen
          /\ [loc[p] EXCEPT !.state = state].landed = loc[p].landed
      BY <1>l, LocalsFields
    <3> QED
      BY <2>1, <3>1, <1>n, <1>b, <1>c DEF issuanceAfterValidated, Leave
  <2> QED
    BY <1>2, <2>1, <1>a, <1>c
       DEF IssuanceStep, markPendingClaims, offerCredential, sendOffer,
           attachCredentialExchangeRecord, Leave
<1>3. ASSUME NEW p \in Procs, MarkStep(p) \/ ReadFailure(p) PROVE Held
  <2>1. CASE markRead(p)
    <3>1. /\ [loc[p] EXCEPT !.seen = validation].seen = validation
          /\ [loc[p] EXCEPT !.seen = validation].landed = loc[p].landed
      BY <1>l, LocalsFields
    <3> QED
      BY <2>1, <3>1, <1>n, <1>b, <1>c DEF markRead
  <2> QED
    BY <1>3, <2>1, <1>a, <1>c
       DEF MarkStep, markValidated, markSave, continueAfterValidated, ReadFailure,
           ReadFails
<1>4. ASSUME NEW p \in Admins, AdminCall(p) PROVE Held
  <2>1. CASE validateFlow(p) \/ rejectFlow(p)
    <3>1. /\ Snapshot.seen = validation /\ Snapshot.landed = NoTx
          /\ [Snapshot EXCEPT !.goesOn = TRUE].seen = validation
          /\ [Snapshot EXCEPT !.goesOn = TRUE].landed = NoTx
      BY LocalsFields
    <3> QED
      BY <2>1, <3>1, <1>n, <1>b, ConstFacts DEF validateFlow, rejectFlow
  <2> QED
    BY <1>4, <2>1, <1>k DEF AdminCall, sendOobLink, startValidation
<1>5. ASSUME NEW p \in Admins, AdminStep(p) PROVE Held
  <2>0. p \in Procs
    BY ConstFacts
  <2>1. CASE validateEntry(p)
    <3>1. /\ [loc[p] EXCEPT !.known = indexed, !.goesOn = TRUE].seen = loc[p].seen
          /\ [loc[p] EXCEPT !.known = indexed, !.goesOn = TRUE].landed = loc[p].landed
      BY <1>l, <2>0, LocalsFields
    <3> QED
      BY <2>1, <3>1, <2>0, <1>n, <1>a, <1>b, <1>c DEF validateEntry
  <2>2. CASE broadcast(p)
    <3>1. \A t : [loc[p] EXCEPT !.landed = t].seen = loc[p].seen
      BY <1>l, <2>0, LocalsFields
    <3> QED
      BY <2>2, <3>1, <2>0, <1>n, <1>a, <1>b DEF broadcast
  <2>3. CASE recordSubmitted(p)
    <3>1. loc[p].landed \in Procs /\ at[loc[p].landed] = "idle"
      BY <2>3, <2>0, ConstFacts DEF recordSubmitted, InvLookup
    <3>2. \A q \in Procs :
             \/ loc'[q] = NoLocals
             \/ loc'[q] = loc[q] /\ (at'[q] = at[q] \/ at[q] = "idle")
      BY <2>3, <2>0, <3>1 DEF recordSubmitted, TypeProcs
    <3>3. Backed(NoLocals.seen) /\ Ok(NoLocals.landed)
      BY <1>n, LocalsFields
    <3>4. ASSUME NEW q \in Procs
          PROVE  Backed(loc'[q].seen) /\ (at'[q] # "submitted" => Ok(loc'[q].landed))
      <4>1. CASE loc'[q] = NoLocals
        BY <4>1, <3>3
      <4>2. CASE loc'[q] = loc[q]
        BY <4>2, <3>2, <3>3, <1>n
      <4> QED
        BY <4>1, <4>2, <3>2
    <3> QED
      BY <3>4 DEF Held
  <2> QED
    BY <1>5, <2>0, <2>1, <2>2, <2>3, <1>a, <1>c
    DEF AdminStep, validateSendsValidating, validateContinues, continueAfterValidated,
        awaitOperator, submitFailed, rejectEntry, terminateByValidator
<1>6. ASSUME NEW r \in Txs, LookupStep(r) \/ findTxFails(r) PROVE Held
  <2>0. r \in Procs
    BY ConstFacts
  <2>1. CASE resolveValidationTx(r)
    <3>1. /\ [Snapshot EXCEPT !.known = loc[r].known].seen = validation
          /\ [Snapshot EXCEPT !.known = loc[r].known].landed = NoTx
      BY LocalsFields
    <3> QED
      BY <2>0, <2>1, <3>1, <1>n, <1>b, <1>c DEF resolveValidationTx
  <2>2. CASE findTx(r)
    <3>1. /\ [loc[r] EXCEPT !.known = TRUE].seen = loc[r].seen
          /\ [loc[r] EXCEPT !.known = TRUE].landed = loc[r].landed
          /\ [loc[r] EXCEPT !.txFailed = TRUE].seen = loc[r].seen
          /\ [loc[r] EXCEPT !.txFailed = TRUE].landed = loc[r].landed
      BY <2>0, <1>l, LocalsFields
    <3> QED
      BY <2>0, <2>2, <3>1, <1>n, <1>a, <1>b DEF findTx
  <2>3. CASE lookupEntry(r)
    <3> DEFINE l == [loc[r] EXCEPT !.landed = loc[r].seen.tx, !.goesOn = TRUE]
    <3>1. l.seen = loc[r].seen /\ l.landed = loc[r].seen.tx
      BY <2>0, <1>l, LocalsFields
    <3>2. at[r] = "lookupEntry" => Ok(loc[r].seen.tx)
      BY IncludedStep DEF InvLanded, LookupSteps, Included, Ok
    <3> QED
      BY <2>0, <2>3, <3>1, <3>2, <1>n, <1>a, <1>b, <1>c DEF lookupEntry
  <2>4. CASE failRecheck(r)
    <3>1. /\ [loc[r] EXCEPT !.goesOn = TRUE].seen = loc[r].seen
          /\ [loc[r] EXCEPT !.goesOn = TRUE].landed = loc[r].landed
      BY <2>0, <1>l, LocalsFields
    <3> QED
      BY <2>0, <2>4, <3>1, <1>n, <1>b, <1>c DEF failRecheck
  <2> QED
    BY <1>6, <2>0, <2>1, <2>2, <2>3, <2>4, <1>a, <1>c
    DEF LookupStep, failUnlessValidated, failKeep, failRecord, findTxFails
<1>7. CASE HandlerStep
  <2>1. CASE handleValidated
    <3> DEFINE l == [Snapshot EXCEPT !.landed = Head(feed).tx,
                                     !.goesOn = ~isRejectedInFlight(Snapshot)]
    <3>1. l.seen = validation /\ l.landed = Head(feed).tx
      BY LocalsFields
    <3>2. 1 \in 1..Len(feed) /\ Head(feed) = feed[1]
      BY <2>1, HeadTailProperties, LenProperties DEF handleValidated, TypeChain
    <3>3. Ok(Head(feed).tx)
      BY <3>2, IncludedStep DEF InvLanded, Included, Ok
    <3> QED
      BY <2>1, <3>1, <3>3, <1>n, <1>b, <1>c, ConstFacts DEF handleValidated
  <2> QED
    BY <1>7, <2>1, <1>a, <1>c, ConstFacts
    DEF HandlerStep, handleRevoked, handleCancelled, saveEvent
<1>8. CASE AcceptStep
  <2>1. /\ [NoLocals EXCEPT !.known = TRUE].seen = NoValidation
        /\ [NoLocals EXCEPT !.known = TRUE].landed = NoTx
        /\ [loc[Accept] EXCEPT !.goesOn = TRUE].seen = loc[Accept].seen
        /\ [loc[Accept] EXCEPT !.goesOn = TRUE].landed = loc[Accept].landed
    BY <1>l, ConstFacts, LocalsFacts, LocalsFields
  <2> QED
    BY <1>8, <2>1, <1>n, <1>a, <1>b, <1>c, ConstFacts
    DEF AcceptStep, checkParticipantId, checkParticipantIdWaits, acceptOnboardingRequest,
        rejectRequest
<1>9. CASE processReceiveOnboardingRequest
  BY <1>9, <1>n, <1>k, <1>a, <1>b, ConstFacts, LocalsFields
     DEF processReceiveOnboardingRequest, continueAfterValidated
<1>10. CASE applicantTerminates \/ exchangeEnds \/ autoIssueThrows
  BY <1>10, <1>k DEF applicantTerminates, exchangeEnds, autoIssueThrows
<1>11. CASE crashAndRestart
  BY <1>11, <1>n, LocalsFields DEF crashAndRestart, Held
<1> QED
  BY <1>1, <1>2, <1>3, <1>4, <1>5, <1>6, <1>7, <1>8, <1>9, <1>10, <1>11 DEF Next

\* A call that can still broadcast could so before, or has read a state that allows
\* it just now.
LEMMA SubmitPath ==
  ASSUME TypeProcs, Next
  PROVE  \A a \in Admins : MaySubmit(a)' => MaySubmit(a) \/ state \in REJECT_STATES
<1>1. CASE ChainStep
  BY <1>1, ConstFacts, LocalsFields, LocalsKnown
     DEF TypeProcs, MaySubmit, REJECT_STATES, AfterEntry, Rest, Goto, GotoWith, Finish,
         Leave, continueAfterValidated, ChainStep, IncludeTx, RefuseTx, Expire,
         OperatorValidates, Index, Cancel, Revoke
<1>2. ASSUME NEW p \in Procs, IssuanceStep(p)
      PROVE  \A a \in Admins : MaySubmit(a)' => MaySubmit(a) \/ state \in REJECT_STATES
  BY <1>2, ConstFacts, LocalsFields, LocalsKnown
     DEF TypeProcs, MaySubmit, REJECT_STATES, AfterEntry, Rest, Goto, GotoWith, Finish,
         Leave, continueAfterValidated, IssuanceStep, issuanceAfterValidated,
         markPendingClaims, offerCredential, sendOffer, attachCredentialExchangeRecord
<1>3. ASSUME NEW p \in Procs, MarkStep(p) \/ ReadFailure(p)
      PROVE  \A a \in Admins : MaySubmit(a)' => MaySubmit(a) \/ state \in REJECT_STATES
  BY <1>3, ConstFacts, LocalsFields, LocalsKnown
     DEF TypeProcs, MaySubmit, REJECT_STATES, AfterEntry, Rest, Goto, GotoWith, Finish,
         Leave, continueAfterValidated, MarkStep, ReadFailure, markValidated, markRead,
         markSave, ReadFails
<1>4. ASSUME NEW p \in Admins, AdminCall(p)
      PROVE  \A a \in Admins : MaySubmit(a)' => MaySubmit(a) \/ state \in REJECT_STATES
  BY <1>4, ConstFacts, LocalsFields, LocalsKnown
     DEF TypeProcs, MaySubmit, REJECT_STATES, AfterEntry, Rest, Goto, GotoWith, Finish,
         Leave, continueAfterValidated, AdminCall, validateFlow, rejectFlow,
         sendOobLink, startValidation
<1>5. ASSUME NEW p \in Admins, AdminStep(p)
      PROVE  \A a \in Admins : MaySubmit(a)' => MaySubmit(a) \/ state \in REJECT_STATES
  <2>0. p \in Procs /\ \A l \in Locals : [l EXCEPT !.known = indexed, !.goesOn = TRUE].known = indexed
    BY ConstFacts DEF Locals
  <2>1. CASE validateEntry(p)
    <3> DEFINE l == [loc[p] EXCEPT !.known = indexed, !.goesOn = TRUE]
    <3>1. l.known = indexed /\ l.state = loc[p].state
      BY <2>0, LocalsFields DEF TypeProcs
    <3>2. \A a \in Admins \ {p} : at'[a] = at[a] /\ loc'[a] = loc[a]
      BY <2>0, <2>1, ConstFacts DEF validateEntry, Goto, GotoWith, Finish, TypeProcs
    <3>3. MaySubmit(p)' => MaySubmit(p)
      <4>1. CASE at' = [at EXCEPT ![p] = "idle"] \/ at' = [at EXCEPT ![p] = "mark"]
        BY <2>0, <4>1 DEF MaySubmit, TypeProcs
      <4>2. ASSUME loc[p].state \in ValidateStates(indexed), at[p] = "validate",
                   GotoWith(p, IF loc[p].state = "OOB_PENDING" THEN "sendValidating"
                               ELSE AfterEntry(loc[p].state, indexed), l)
            PROVE  MaySubmit(p)' => MaySubmit(p)
        <5>1. /\ at'[p] = IF loc[p].state = "OOB_PENDING" THEN "sendValidating"
                          ELSE AfterEntry(loc[p].state, indexed)
              /\ loc'[p].known = indexed
          BY <2>0, <3>1, <4>2 DEF GotoWith, TypeProcs
        <5>2. CASE indexed
          BY <5>1, <5>2, <4>2 DEF MaySubmit, AfterEntry
        <5>3. CASE ~indexed
          BY <5>1, <5>3, <4>2 DEF MaySubmit, AfterEntry, ValidateStates, REJECT_STATES
        <5> QED
          BY <5>2, <5>3
      <4> QED
        BY <2>0, <2>1, <4>1, <4>2, ConstFacts DEF validateEntry, Goto, Finish, Rest
    <3> QED
      BY <3>2, <3>3 DEF MaySubmit
  <2>2. CASE validateSendsValidating(p)
    BY <2>0, <2>2, ConstFacts, LocalsKnown
       DEF validateSendsValidating, AfterEntry, MaySubmit, TypeProcs, Goto, Finish,
           Rest
  <2> QED
    BY <1>5, <2>0, <2>1, <2>2, ConstFacts, LocalsKnown
       DEF TypeProcs, MaySubmit, Rest, Goto, GotoWith, Finish, continueAfterValidated,
           AdminStep, validateContinues, awaitOperator, broadcast, submitFailed,
           recordSubmitted, rejectEntry, terminateByValidator
<1>6. ASSUME NEW r \in Txs, LookupStep(r) \/ findTxFails(r)
      PROVE  \A a \in Admins : MaySubmit(a)' => MaySubmit(a) \/ state \in REJECT_STATES
  BY <1>6, ConstFacts, LocalsFields, LocalsKnown
     DEF TypeProcs, MaySubmit, REJECT_STATES, AfterEntry, Rest, Goto, GotoWith, Finish,
         Leave, continueAfterValidated, LookupStep, findTxFails, resolveValidationTx,
         findTx, lookupEntry, failUnlessValidated, failRecheck, failKeep, failRecord
<1>7. CASE HandlerStep
  BY <1>7, ConstFacts, LocalsFields, LocalsKnown
     DEF TypeProcs, MaySubmit, REJECT_STATES, AfterEntry, Rest, Goto, GotoWith, Finish,
         Leave, continueAfterValidated, HandlerStep, handleValidated, handleRevoked,
         handleCancelled, saveEvent
<1>8. CASE AcceptStep
  BY <1>8, ConstFacts, LocalsFields, LocalsKnown
     DEF TypeProcs, MaySubmit, REJECT_STATES, AfterEntry, Rest, Goto, GotoWith, Finish,
         Leave, continueAfterValidated, AcceptStep, checkParticipantId,
         checkParticipantIdWaits, acceptOnboardingRequest, rejectRequest
<1>9. CASE processReceiveOnboardingRequest
  BY <1>9, ConstFacts, LocalsFields, LocalsKnown
     DEF TypeProcs, MaySubmit, REJECT_STATES, AfterEntry, Rest, Goto, GotoWith, Finish,
         Leave, continueAfterValidated, processReceiveOnboardingRequest
<1>10. CASE applicantTerminates \/ exchangeEnds \/ autoIssueThrows
  BY <1>10, ConstFacts, LocalsFields, LocalsKnown
     DEF TypeProcs, MaySubmit, REJECT_STATES, AfterEntry, Rest, Goto, GotoWith, Finish,
         Leave, continueAfterValidated, applicantTerminates, exchangeEnds,
         autoIssueThrows
<1>11. CASE crashAndRestart
  BY <1>11, ConstFacts, LocalsFields, LocalsKnown
     DEF TypeProcs, MaySubmit, REJECT_STATES, AfterEntry, Rest, Goto, GotoWith, Finish,
         Leave, continueAfterValidated, crashAndRestart
<1> QED
  BY <1>1, <1>2, <1>3, <1>4, <1>5, <1>6, <1>7, <1>8, <1>9, <1>10, <1>11 DEF Next

\* Once the flow has left the states before its submission, only a call that still
\* submits or a lookup that fails takes it back to one.
LEMMA StateMoves ==
  ASSUME state \notin REJECT_STATES, \A a \in Admins : ~MaySubmit(a), Next
  PROVE  state' \notin REJECT_STATES \/ \E t \in Txs : failRecord(t)
<1>1. CASE ChainStep
  BY <1>1
     DEF record, recordValidation, exchange, REJECT_STATES, MaySubmit,
         VtFlowTerminalStates, ChainStep, IncludeTx, RefuseTx, Expire,
         OperatorValidates, Index, Cancel, Revoke
<1>2. ASSUME NEW p \in Procs, IssuanceStep(p)
      PROVE  state' \notin REJECT_STATES \/ \E t \in Txs : failRecord(t)
  BY <1>2
     DEF record, recordValidation, exchange, REJECT_STATES, MaySubmit,
         VtFlowTerminalStates, IssuanceStep, issuanceAfterValidated, markPendingClaims,
         offerCredential, sendOffer, attachCredentialExchangeRecord
<1>3. ASSUME NEW p \in Procs, MarkStep(p) \/ ReadFailure(p)
      PROVE  state' \notin REJECT_STATES \/ \E t \in Txs : failRecord(t)
  BY <1>3
     DEF record, recordValidation, exchange, REJECT_STATES, MaySubmit,
         VtFlowTerminalStates, MarkStep, ReadFailure, markValidated, markRead,
         markSave, ReadFails
<1>4. ASSUME NEW p \in Admins, AdminCall(p)
      PROVE  state' \notin REJECT_STATES \/ \E t \in Txs : failRecord(t)
  BY <1>4
     DEF record, recordValidation, exchange, REJECT_STATES, MaySubmit,
         VtFlowTerminalStates, AdminCall, validateFlow, rejectFlow, sendOobLink,
         startValidation
<1>5. ASSUME NEW p \in Admins, AdminStep(p)
      PROVE  state' \notin REJECT_STATES \/ \E t \in Txs : failRecord(t)
  BY <1>5
     DEF record, recordValidation, exchange, REJECT_STATES, MaySubmit,
         VtFlowTerminalStates, AdminStep, validateEntry, validateSendsValidating,
         validateContinues, awaitOperator, broadcast, submitFailed, recordSubmitted,
         rejectEntry, terminateByValidator
<1>6. ASSUME NEW r \in Txs, LookupStep(r) \/ findTxFails(r)
      PROVE  state' \notin REJECT_STATES \/ \E t \in Txs : failRecord(t)
  BY <1>6
     DEF record, recordValidation, exchange, REJECT_STATES, MaySubmit,
         VtFlowTerminalStates, LookupStep, findTxFails, resolveValidationTx, findTx,
         lookupEntry, failUnlessValidated, failRecheck, failKeep, failRecord
<1>7. CASE HandlerStep
  BY <1>7
     DEF record, recordValidation, exchange, REJECT_STATES, MaySubmit,
         VtFlowTerminalStates, HandlerStep, handleValidated, handleRevoked,
         handleCancelled, saveEvent
<1>8. CASE AcceptStep
  BY <1>8
     DEF record, recordValidation, exchange, REJECT_STATES, MaySubmit,
         VtFlowTerminalStates, AcceptStep, checkParticipantId, checkParticipantIdWaits,
         acceptOnboardingRequest, rejectRequest
<1>9. CASE processReceiveOnboardingRequest
  BY <1>9
     DEF record, recordValidation, exchange, REJECT_STATES, MaySubmit,
         VtFlowTerminalStates, processReceiveOnboardingRequest
<1>10. CASE applicantTerminates \/ exchangeEnds \/ autoIssueThrows
  BY <1>10
     DEF record, recordValidation, exchange, REJECT_STATES, MaySubmit,
         VtFlowTerminalStates, applicantTerminates, exchangeEnds, autoIssueThrows
<1>11. CASE crashAndRestart
  BY <1>11
     DEF record, recordValidation, exchange, REJECT_STATES, MaySubmit,
         VtFlowTerminalStates, crashAndRestart
<1> QED
  BY <1>1, <1>2, <1>3, <1>4, <1>5, <1>6, <1>7, <1>8, <1>9, <1>10, <1>11 DEF Next

\* A lookup is started by the call that records the transaction or by a restart.
StartsLookup(t) ==
    \/ \E p \in Admins : recordSubmitted(p) /\ loc[p].landed = t
    \/ crashAndRestart /\ state = "VALIDATION_TX_SUBMITTED" /\ validation.tx = t

\* A procedure that is in a lookup was in it before, or the lookup starts.
LEMMA LookupMoves ==
  ASSUME TypeProcs, Next
  PROVE  \A t \in Txs : at'[t] \in LookupSteps => at[t] \in LookupSteps \/ StartsLookup(t)
<1>1. CASE ChainStep
  BY <1>1, ConstFacts
     DEF TypeProcs, LookupSteps, StartsLookup, AfterEntry, Rest, Goto, GotoWith,
         Finish, Leave, continueAfterValidated, ChainStep, IncludeTx, RefuseTx, Expire,
         OperatorValidates, Index, Cancel, Revoke
<1>2. ASSUME NEW p \in Procs, IssuanceStep(p)
      PROVE  \A t \in Txs : at'[t] \in LookupSteps => at[t] \in LookupSteps \/ StartsLookup(t)
  BY <1>2, ConstFacts
     DEF TypeProcs, LookupSteps, StartsLookup, AfterEntry, Rest, Goto, GotoWith,
         Finish, Leave, continueAfterValidated, IssuanceStep, issuanceAfterValidated,
         markPendingClaims, offerCredential, sendOffer, attachCredentialExchangeRecord
<1>3. ASSUME NEW p \in Procs, MarkStep(p) \/ ReadFailure(p)
      PROVE  \A t \in Txs : at'[t] \in LookupSteps => at[t] \in LookupSteps \/ StartsLookup(t)
  BY <1>3, ConstFacts
     DEF TypeProcs, LookupSteps, StartsLookup, AfterEntry, Rest, Goto, GotoWith,
         Finish, Leave, continueAfterValidated, MarkStep, ReadFailure, markValidated,
         markRead, markSave, ReadFails
<1>4. ASSUME NEW p \in Admins, AdminCall(p)
      PROVE  \A t \in Txs : at'[t] \in LookupSteps => at[t] \in LookupSteps \/ StartsLookup(t)
  BY <1>4, ConstFacts
     DEF TypeProcs, LookupSteps, StartsLookup, AfterEntry, Rest, Goto, GotoWith,
         Finish, Leave, continueAfterValidated, AdminCall, validateFlow, rejectFlow,
         sendOobLink, startValidation
<1>5. ASSUME NEW p \in Admins, AdminStep(p)
      PROVE  \A t \in Txs : at'[t] \in LookupSteps => at[t] \in LookupSteps \/ StartsLookup(t)
  BY <1>5, ConstFacts
     DEF TypeProcs, LookupSteps, StartsLookup, AfterEntry, Rest, Goto, GotoWith,
         Finish, Leave, continueAfterValidated, AdminStep, validateEntry,
         validateSendsValidating, validateContinues, awaitOperator, broadcast,
         submitFailed, recordSubmitted, rejectEntry, terminateByValidator
<1>6. ASSUME NEW r \in Txs, LookupStep(r) \/ findTxFails(r)
      PROVE  \A t \in Txs : at'[t] \in LookupSteps => at[t] \in LookupSteps \/ StartsLookup(t)
  BY <1>6, ConstFacts
     DEF TypeProcs, LookupSteps, StartsLookup, AfterEntry, Rest, Goto, GotoWith,
         Finish, Leave, continueAfterValidated, LookupStep, findTxFails,
         resolveValidationTx, findTx, lookupEntry, failUnlessValidated, failRecheck,
         failKeep, failRecord
<1>7. CASE HandlerStep
  BY <1>7, ConstFacts
     DEF TypeProcs, LookupSteps, StartsLookup, AfterEntry, Rest, Goto, GotoWith,
         Finish, Leave, continueAfterValidated, HandlerStep, handleValidated,
         handleRevoked, handleCancelled, saveEvent
<1>8. CASE AcceptStep
  BY <1>8, ConstFacts
     DEF TypeProcs, LookupSteps, StartsLookup, AfterEntry, Rest, Goto, GotoWith,
         Finish, Leave, continueAfterValidated, AcceptStep, checkParticipantId,
         checkParticipantIdWaits, acceptOnboardingRequest, rejectRequest
<1>9. CASE processReceiveOnboardingRequest
  BY <1>9, ConstFacts
     DEF TypeProcs, LookupSteps, StartsLookup, AfterEntry, Rest, Goto, GotoWith,
         Finish, Leave, continueAfterValidated, processReceiveOnboardingRequest
<1>10. CASE applicantTerminates \/ exchangeEnds \/ autoIssueThrows
  BY <1>10, ConstFacts
     DEF TypeProcs, LookupSteps, StartsLookup, AfterEntry, Rest, Goto, GotoWith,
         Finish, Leave, continueAfterValidated, applicantTerminates, exchangeEnds,
         autoIssueThrows
<1>11. CASE crashAndRestart
  BY <1>11, ConstFacts
     DEF TypeProcs, LookupSteps, StartsLookup, AfterEntry, Rest, Goto, GotoWith,
         Finish, Leave, continueAfterValidated, crashAndRestart
<1> QED
  BY <1>1, <1>2, <1>3, <1>4, <1>5, <1>6, <1>7, <1>8, <1>9, <1>10, <1>11 DEF Next

\* While calls do not overlap, no call submits during a lookup and no second
\* lookup runs.
LEMMA OneLookupStep ==
  ASSUME TypeProcs, InvLookup, CallsInTurn, InvOneLookup, Next
  PROVE  InvOneLookup'
<1> SUFFICES ASSUME NEW t \in Txs, at'[t] \in LookupSteps
             PROVE  /\ state' \notin REJECT_STATES
                    /\ \A a \in Admins : ~MaySubmit(a)'
                    /\ \A q \in Txs : at'[q] \in LookupSteps => q = t
  BY DEF InvOneLookup
<1>0. t \in Procs /\ Txs \subseteq Procs /\ Admins \subseteq Procs
  BY ConstFacts
<1>1. CASE at[t] \in LookupSteps
  <2>1. /\ state \notin REJECT_STATES
        /\ \A a \in Admins : ~MaySubmit(a)
        /\ \A q \in Txs : at[q] \in LookupSteps => q = t
    BY <1>1 DEF InvOneLookup
  <2>2. \A a \in Admins : ~MaySubmit(a)'
    BY <2>1, SubmitPath
  <2>3. state' \notin REJECT_STATES
    <3>1. ASSUME NEW q \in Txs, failRecord(q) PROVE FALSE
      <4>1. q = t
        BY <2>1, <3>1 DEF failRecord, LookupSteps
      <4>2. at'[t] = "idle"
        BY <3>1, <4>1, <1>0, ConstFacts DEF failRecord, Finish, Rest, TypeProcs
      <4> QED
        BY <4>2 DEF LookupSteps
    <3> QED
      BY <2>1, <3>1, StateMoves
  <2>4. ASSUME NEW q \in Txs, at'[q] \in LookupSteps PROVE q = t
    <3>1. CASE at[q] \in LookupSteps
      BY <3>1, <2>1
    <3>2. CASE \E p \in Admins : recordSubmitted(p) /\ loc[p].landed = q
      BY <3>2, <2>1 DEF recordSubmitted, MaySubmit
    <3>3. CASE crashAndRestart /\ validation.tx = q
      BY <3>3, <1>0 DEF crashAndRestart, LookupSteps
    <3> QED
      BY <2>4, <3>1, <3>2, <3>3, LookupMoves DEF StartsLookup
  <2> QED
    BY <2>2, <2>3, <2>4
<1>2. ASSUME NEW p \in Admins, recordSubmitted(p), loc[p].landed = t
      PROVE  /\ state' \notin REJECT_STATES
             /\ \A a \in Admins : ~MaySubmit(a)'
             /\ \A q \in Txs : at'[q] \in LookupSteps => q = t
  <2>1. /\ state' = "VALIDATION_TX_SUBMITTED"
        /\ at[p] = "submitted" /\ at' = [at EXCEPT ![p] = "idle", ![t] = "resolve"]
        /\ p \in Procs /\ p # t
    BY <1>2, <1>0, ConstFacts DEF recordSubmitted, recordValidation
  <2>2. \A a \in Admins : at'[a] = "idle"
    <3>1. \A a \in Admins \ {p} : at[a] = "idle"
      BY <2>1 DEF CallsInTurn
    <3> QED
      BY <2>1, <3>1, <1>0, ConstFacts DEF TypeProcs
  <2>3. \A q \in Txs : at[q] \notin LookupSteps
    BY <1>2, <2>1 DEF InvOneLookup, MaySubmit
  <2>4. \A q \in Txs \ {t} : at'[q] = at[q]
    BY <2>1, <1>0, ConstFacts DEF TypeProcs
  <2> QED
    BY <2>1, <2>2, <2>3, <2>4 DEF MaySubmit, REJECT_STATES
<1>3. CASE crashAndRestart /\ state = "VALIDATION_TX_SUBMITTED" /\ validation.tx = t
  <2>1. state' = state /\ \A q \in Procs : at'[q] = IF q = t THEN "resolve" ELSE "idle"
    BY <1>3 DEF crashAndRestart, record
  <2> QED
    BY <1>3, <2>1, <1>0, ConstFacts DEF MaySubmit, REJECT_STATES, LookupSteps
<1> QED
  BY <1>1, <1>2, <1>3, LookupMoves DEF StartsLookup

\* A flow that is in VALIDATION_TX_SUBMITTED keeps its transaction, but for the call
\* that records it and the lookup that keeps its failure.
LEMMA SubmittedRecord ==
  ASSUME state' = "VALIDATION_TX_SUBMITTED", Next
  PROVE  \/ state = "VALIDATION_TX_SUBMITTED" /\ validation' = validation
         \/ \E a \in Admins : recordSubmitted(a)
         \/ \E t \in Txs : failKeep(t)
<1>1. CASE ChainStep
  BY <1>1
     DEF record, recordValidation, exchange, VtFlowTerminalStates, ChainStep,
         IncludeTx, RefuseTx, Expire, OperatorValidates, Index, Cancel, Revoke
<1>2. ASSUME NEW p \in Procs, IssuanceStep(p)
      PROVE  \/ state = "VALIDATION_TX_SUBMITTED" /\ validation' = validation
             \/ \E a \in Admins : recordSubmitted(a)
             \/ \E t \in Txs : failKeep(t)
  BY <1>2
     DEF record, recordValidation, exchange, VtFlowTerminalStates, IssuanceStep,
         issuanceAfterValidated, markPendingClaims, offerCredential, sendOffer,
         attachCredentialExchangeRecord
<1>3. ASSUME NEW p \in Procs, MarkStep(p) \/ ReadFailure(p)
      PROVE  \/ state = "VALIDATION_TX_SUBMITTED" /\ validation' = validation
             \/ \E a \in Admins : recordSubmitted(a)
             \/ \E t \in Txs : failKeep(t)
  BY <1>3
     DEF record, recordValidation, exchange, VtFlowTerminalStates, MarkStep,
         ReadFailure, markValidated, markRead, markSave, ReadFails
<1>4. ASSUME NEW p \in Admins, AdminCall(p)
      PROVE  \/ state = "VALIDATION_TX_SUBMITTED" /\ validation' = validation
             \/ \E a \in Admins : recordSubmitted(a)
             \/ \E t \in Txs : failKeep(t)
  BY <1>4
     DEF record, recordValidation, exchange, VtFlowTerminalStates, AdminCall,
         validateFlow, rejectFlow, sendOobLink, startValidation
<1>5. ASSUME NEW p \in Admins, AdminStep(p)
      PROVE  \/ state = "VALIDATION_TX_SUBMITTED" /\ validation' = validation
             \/ \E a \in Admins : recordSubmitted(a)
             \/ \E t \in Txs : failKeep(t)
  BY <1>5
     DEF record, recordValidation, exchange, VtFlowTerminalStates, AdminStep,
         validateEntry, validateSendsValidating, validateContinues, awaitOperator,
         broadcast, submitFailed, recordSubmitted, rejectEntry, terminateByValidator
<1>6. ASSUME NEW r \in Txs, LookupStep(r) \/ findTxFails(r)
      PROVE  \/ state = "VALIDATION_TX_SUBMITTED" /\ validation' = validation
             \/ \E a \in Admins : recordSubmitted(a)
             \/ \E t \in Txs : failKeep(t)
  <2>1. CASE failKeep(r)
    BY <2>1
  <2>2. CASE ~failKeep(r)
    BY <1>6, <2>2
       DEF record, recordValidation, LookupStep, findTxFails, resolveValidationTx,
           findTx, lookupEntry, failUnlessValidated, failRecheck, failRecord
  <2> QED
    BY <2>1, <2>2
<1>7. CASE HandlerStep
  BY <1>7
     DEF record, recordValidation, exchange, VtFlowTerminalStates, HandlerStep,
         handleValidated, handleRevoked, handleCancelled, saveEvent
<1>8. CASE AcceptStep
  BY <1>8
     DEF record, recordValidation, exchange, VtFlowTerminalStates, AcceptStep,
         checkParticipantId, checkParticipantIdWaits, acceptOnboardingRequest,
         rejectRequest
<1>9. CASE processReceiveOnboardingRequest
  BY <1>9
     DEF record, recordValidation, exchange, VtFlowTerminalStates,
         processReceiveOnboardingRequest
<1>10. CASE applicantTerminates \/ exchangeEnds \/ autoIssueThrows
  BY <1>10
     DEF record, recordValidation, exchange, VtFlowTerminalStates, applicantTerminates,
         exchangeEnds, autoIssueThrows
<1>11. CASE crashAndRestart
  BY <1>11 DEF record, recordValidation, exchange, VtFlowTerminalStates, crashAndRestart
<1> QED
  BY <1>1, <1>2, <1>3, <1>4, <1>5, <1>6, <1>7, <1>8, <1>9, <1>10, <1>11 DEF Next

\* A lookup stays where it is, takes a step of its own, starts, or has ended.
LookupMove(t) ==
    \/ at'[t] = at[t] /\ loc'[t] = loc[t]
    \/ LookupStep(t) \/ findTxFails(t)
    \/ at'[t] \notin LookupSteps /\ (at'[t] = "idle" => loc'[t] = NoLocals)
    \/ at[t] = "idle" /\ at'[t] = "resolve" /\ loc'[t] = loc[t]
    \/ at'[t] = "resolve" /\ loc'[t] = NoLocals

\* Every step leaves each lookup with one of these moves.
LEMMA LookupIs ==
  ASSUME TypeProcs, InvLookup, Next
  PROVE  \A t \in Txs : LookupMove(t)
<1>1. CASE ChainStep
  BY <1>1, ConstFacts
     DEF TypeProcs, LookupMove, LookupSteps, Rest, Goto, GotoWith, Finish, Leave,
         continueAfterValidated, ChainStep, IncludeTx, RefuseTx, Expire,
         OperatorValidates, Index, Cancel, Revoke
<1>2. ASSUME NEW p \in Procs, IssuanceStep(p)
      PROVE  \A t \in Txs : LookupMove(t)
  BY <1>2, ConstFacts
     DEF TypeProcs, LookupMove, LookupSteps, Rest, Goto, GotoWith, Finish, Leave,
         continueAfterValidated, IssuanceStep, issuanceAfterValidated,
         markPendingClaims, offerCredential, sendOffer, attachCredentialExchangeRecord
<1>3. ASSUME NEW p \in Procs, MarkStep(p) \/ ReadFailure(p)
      PROVE  \A t \in Txs : LookupMove(t)
  BY <1>3, ConstFacts
     DEF TypeProcs, LookupMove, LookupSteps, Rest, Goto, GotoWith, Finish, Leave,
         continueAfterValidated, MarkStep, ReadFailure, markValidated, markRead,
         markSave, ReadFails
<1>4. ASSUME NEW p \in Admins, AdminCall(p)
      PROVE  \A t \in Txs : LookupMove(t)
  BY <1>4, ConstFacts
     DEF TypeProcs, LookupMove, LookupSteps, Rest, Goto, GotoWith, Finish, Leave,
         continueAfterValidated, AdminCall, validateFlow, rejectFlow, sendOobLink,
         startValidation
<1>5. ASSUME NEW p \in Admins, AdminStep(p)
      PROVE  \A t \in Txs : LookupMove(t)
  <2>1. CASE recordSubmitted(p)
    <3>1. loc[p].landed \in Txs /\ at[loc[p].landed] = "idle" /\ p \in Procs \ Txs
      BY <1>5, <2>1, ConstFacts DEF recordSubmitted, InvLookup
    <3> QED
      BY <2>1, <3>1, ConstFacts DEF recordSubmitted, LookupMove, TypeProcs
  <2>2. CASE ~recordSubmitted(p)
    <3>1. p \in Procs \ Txs /\ (\A q \in Procs \ {p} : at'[q] = at[q] /\ loc'[q] = loc[q])
      BY <1>5, <2>2, ConstFacts
         DEF TypeProcs, Goto, GotoWith, Finish, continueAfterValidated, AdminStep,
             validateEntry, validateSendsValidating, validateContinues, awaitOperator,
             broadcast, submitFailed, rejectEntry, terminateByValidator
    <3> QED
      BY <3>1, ConstFacts DEF LookupMove
  <2> QED
    BY <2>1, <2>2
<1>6. ASSUME NEW r \in Txs, LookupStep(r) \/ findTxFails(r)
      PROVE  \A t \in Txs : LookupMove(t)
  <2>1. \A q \in Procs \ {r} : at'[q] = at[q] /\ loc'[q] = loc[q]
    BY <1>6, ConstFacts
       DEF TypeProcs, Goto, GotoWith, Finish, LookupStep, findTxFails,
           resolveValidationTx, findTx, lookupEntry, failUnlessValidated, failRecheck,
           failKeep, failRecord
  <2>2. LookupMove(r)
    BY <1>6 DEF LookupMove
  <2> QED
    BY <2>1, <2>2, ConstFacts DEF LookupMove
<1>7. CASE HandlerStep
  BY <1>7, ConstFacts
     DEF TypeProcs, LookupMove, LookupSteps, Rest, Goto, GotoWith, Finish, Leave,
         continueAfterValidated, HandlerStep, handleValidated, handleRevoked,
         handleCancelled, saveEvent
<1>8. CASE AcceptStep
  BY <1>8, ConstFacts
     DEF TypeProcs, LookupMove, LookupSteps, Rest, Goto, GotoWith, Finish, Leave,
         continueAfterValidated, AcceptStep, checkParticipantId,
         checkParticipantIdWaits, acceptOnboardingRequest, rejectRequest
<1>9. CASE processReceiveOnboardingRequest
  BY <1>9, ConstFacts
     DEF TypeProcs, LookupMove, LookupSteps, Rest, Goto, GotoWith, Finish, Leave,
         continueAfterValidated, processReceiveOnboardingRequest
<1>10. CASE applicantTerminates \/ exchangeEnds \/ autoIssueThrows
  BY <1>10, ConstFacts
     DEF TypeProcs, LookupMove, LookupSteps, Rest, Goto, GotoWith, Finish, Leave,
         continueAfterValidated, applicantTerminates, exchangeEnds, autoIssueThrows
<1>11. CASE crashAndRestart
  BY <1>11, ConstFacts
     DEF TypeProcs, LookupMove, LookupSteps, Rest, Goto, GotoWith, Finish, Leave,
         continueAfterValidated, crashAndRestart
<1> QED
  BY <1>1, <1>2, <1>3, <1>4, <1>5, <1>6, <1>7, <1>8, <1>9, <1>10, <1>11 DEF Next


\* What a lookup knows of an earlier round stays true of the transaction of the
\* record.
LEMMA KnownStep ==
  ASSUME TypeProcs, TypeChain, TypeRecord, InvLookup, InvOneLookup, InvOneLookup', InvLanded, Next
  PROVE  (\A r \in Txs :
            /\ at[r] \in LookupSteps /\ loc[r].known => Included(loc[r].seen.tx)
            /\ at[r] = "idle" => ~loc[r].known
            /\ at[r] = "lookupEntry" => loc[r].known
            /\ at[r] = "findTx" => loc[r].seen.tx \in Txs
            /\ at[r] \in {"resolve", "findTx", "lookupEntry"} /\ state = "VALIDATION_TX_SUBMITTED"
                 => \/ at[r] = "resolve" /\ ~loc[r].known
                    \/ validation.tx = loc[r].seen.tx)'
<1> SUFFICES ASSUME NEW t \in Txs
             PROVE  /\ at'[t] \in LookupSteps /\ loc'[t].known => Included(loc[t].seen.tx)'
                    /\ at'[t] = "idle" => ~loc'[t].known
                    /\ at'[t] = "lookupEntry" => loc'[t].known
                    /\ at'[t] = "findTx" => loc'[t].seen.tx \in Txs
                    /\ at'[t] \in {"resolve", "findTx", "lookupEntry"} /\ state' = "VALIDATION_TX_SUBMITTED"
                         => \/ at'[t] = "resolve" /\ ~loc'[t].known
                            \/ validation'.tx = loc'[t].seen.tx
  OBVIOUS
<1>0. t \in Procs /\ loc[t] \in Locals /\ LookupMove(t) /\ ~NoLocals.known
  BY ConstFacts, LookupIs, LocalsKnown DEF TypeProcs
<1>1. \A x \in Txs : txs[x] = "ok" => txs'[x] = "ok"
  BY IncludedStep
<1>2. ASSUME at[t] \in LookupSteps, at'[t] \in {"resolve", "findTx", "lookupEntry"},
             state' = "VALIDATION_TX_SUBMITTED"
      PROVE  state = "VALIDATION_TX_SUBMITTED" /\ validation' = validation
  <2>1. ASSUME NEW a \in Admins, recordSubmitted(a) PROVE FALSE
    BY <1>2, <2>1 DEF InvOneLookup, MaySubmit, recordSubmitted
  <2>2. ASSUME NEW q \in Txs, failKeep(q) PROVE FALSE
    <3>1. q = t
      BY <1>2, <2>2 DEF InvOneLookup, LookupSteps, failKeep
    <3> QED
      BY <1>0, <1>2, <2>2, <3>1 DEF failKeep, Goto, TypeProcs
  <2> QED
    BY <1>2, <2>1, <2>2, SubmittedRecord
<1>3. /\ at[t] \in LookupSteps /\ loc[t].known => Included(loc[t].seen.tx)
      /\ at[t] = "idle" => ~loc[t].known
      /\ at[t] = "lookupEntry" => loc[t].known
      /\ at[t] = "findTx" => loc[t].seen.tx \in Txs
      /\ at[t] \in {"resolve", "findTx", "lookupEntry"} /\ state = "VALIDATION_TX_SUBMITTED"
           => \/ at[t] = "resolve" /\ ~loc[t].known
              \/ validation.tx = loc[t].seen.tx
  BY DEF InvLanded
<1>4. CASE at'[t] = at[t] /\ loc'[t] = loc[t]
  BY <1>1, <1>2, <1>3, <1>4 DEF Included, LookupSteps
<1>5. CASE LookupStep(t) \/ findTxFails(t)
  <2>1. CASE resolveValidationTx(t)
    <3>1. CASE state = "VALIDATION_TX_SUBMITTED" /\ validation.tx # NoTx
      <4> DEFINE l == [Snapshot EXCEPT !.known = loc[t].known]
      <4>1. l.known = loc[t].known /\ l.seen = validation
        BY LocalsKnown DEF Snapshot, NoLocals
      <4>2. at'[t] = "findTx" /\ loc'[t] = l /\ validation' = validation /\ at[t] = "resolve"
        BY <1>0, <2>1, <3>1 DEF resolveValidationTx, GotoWith, TypeProcs, record
      <4>3. validation.tx \in Txs
        BY <3>1 DEF TypeRecord, Validations
      <4>4. loc[t].known => Included(validation.tx)
        BY <1>3, <3>1, <4>2 DEF LookupSteps
      <4> QED
        BY <1>1, <4>1, <4>2, <4>3, <4>4 DEF Included
    <3>2. CASE ~(state = "VALIDATION_TX_SUBMITTED" /\ validation.tx # NoTx)
      <4>1. at'[t] = "idle" /\ loc'[t] = NoLocals
        BY <1>0, <2>1, <3>2, ConstFacts DEF resolveValidationTx, Finish, Rest, TypeProcs
      <4> QED
        BY <1>0, <4>1 DEF LookupSteps
    <3> QED
      BY <3>1, <3>2
  <2>2. CASE findTx(t)
    <3>1. at[t] = "findTx" /\ loc[t].seen.tx \in Txs
      BY <1>3, <2>2 DEF findTx
    <3>2. \/ /\ at'[t] = "lookupEntry" /\ loc'[t] = [loc[t] EXCEPT !.known = TRUE]
             /\ loc[t].known \/ txs[loc[t].seen.tx] = "ok"
          \/ at'[t] = "failEntry" /\ loc'[t] = [loc[t] EXCEPT !.txFailed = TRUE] /\ ~loc[t].known
          \/ at'[t] \in {"failEntry", "resolve"} /\ loc'[t] = loc[t] /\ ~loc[t].known
      BY <1>0, <2>2 DEF findTx, Goto, GotoWith, TypeProcs
    <3>3. CASE at'[t] = "lookupEntry" /\ loc'[t] = [loc[t] EXCEPT !.known = TRUE]
               /\ (loc[t].known \/ txs[loc[t].seen.tx] = "ok")
      <4>1. loc'[t].known = TRUE /\ loc'[t].seen = loc[t].seen
        BY <1>0, <3>3 DEF Locals
      <4>2. Included(loc[t].seen.tx)
        BY <1>3, <3>1, <3>3 DEF Included, LookupSteps
      <4>3. Included(loc[t].seen.tx)'
        BY <1>1, <4>1, <4>2 DEF Included
      <4> QED
        BY <1>2, <1>3, <3>1, <3>3, <4>1, <4>3 DEF LookupSteps
    <3>4. CASE at'[t] = "failEntry" /\ loc'[t] = [loc[t] EXCEPT !.txFailed = TRUE] /\ ~loc[t].known
      BY <1>0, <3>4, LocalsKnown
    <3>5. CASE at'[t] \in {"failEntry", "resolve"} /\ loc'[t] = loc[t] /\ ~loc[t].known
      BY <3>5
    <3> QED
      BY <3>2, <3>3, <3>4, <3>5
  <2>3. CASE findTxFails(t)
    <3>1. /\ at[t] = "findTx" /\ loc'[t] = loc[t] /\ ~loc[t].known
          /\ at'[t] \in {"failEntry", "resolve"}
      BY <1>0, <2>3 DEF findTxFails, Goto, TypeProcs
    <3> QED
      BY <3>1
  <2>4. CASE lookupEntry(t)
    <3>1. \/ at'[t] = "idle" /\ loc'[t] = NoLocals
          \/ at'[t] = "mark"
          \/ at'[t] = "resolve" /\ loc'[t] = loc[t] /\ at[t] = "lookupEntry"
      BY <1>0, <2>4, ConstFacts DEF lookupEntry, Goto, GotoWith, Finish, Rest, TypeProcs
    <3> QED
      BY <1>0, <1>1, <1>2, <1>3, <3>1 DEF Included, LookupSteps
  <2>5. CASE failUnlessValidated(t)
    BY <1>0, <1>1, <1>3, <2>5 DEF failUnlessValidated, Goto, TypeProcs, Included, LookupSteps
  <2>6. CASE failRecheck(t)
    <3>1. \/ at'[t] = "idle" /\ loc'[t] = NoLocals
          \/ /\ at'[t] \in {"failKeep", "mark"} /\ at[t] = "failRecheck"
             /\ loc'[t] = [loc[t] EXCEPT !.goesOn = TRUE]
      BY <1>0, <2>6, ConstFacts DEF failRecheck, GotoWith, Finish, Rest, TypeProcs
    <3>2. CASE /\ at'[t] \in {"failKeep", "mark"} /\ at[t] = "failRecheck"
               /\ loc'[t] = [loc[t] EXCEPT !.goesOn = TRUE]
      <4>1. loc'[t].known = loc[t].known /\ loc'[t].seen = loc[t].seen
        BY <1>0, <3>2 DEF Locals
      <4> QED
        BY <1>1, <1>3, <3>2, <4>1 DEF Included, LookupSteps
    <3> QED
      BY <1>0, <3>1, <3>2 DEF LookupSteps
  <2>7. CASE failKeep(t) \/ failRecord(t)
    <3>1. at'[t] = "mark" \/ (at'[t] = "idle" /\ loc'[t] = NoLocals)
      BY <1>0, <2>7, ConstFacts DEF failKeep, failRecord, Goto, Finish, Rest, TypeProcs
    <3> QED
      BY <1>0, <3>1 DEF LookupSteps
  <2> QED
    BY <1>5, <2>1, <2>2, <2>3, <2>4, <2>5, <2>6, <2>7 DEF LookupStep
<1>6. CASE at'[t] \notin LookupSteps /\ (at'[t] = "idle" => loc'[t] = NoLocals)
  BY <1>0, <1>6 DEF LookupSteps
<1>7. CASE at[t] = "idle" /\ at'[t] = "resolve" /\ loc'[t] = loc[t]
  BY <1>3, <1>7
<1>8. CASE at'[t] = "resolve" /\ loc'[t] = NoLocals
  BY <1>0, <1>8
<1> QED
  BY <1>0, <1>4, <1>5, <1>6, <1>7, <1>8 DEF LookupMove

\* Nothing has been sent yet when the flow begins.
LEMMA InitIncluded == Init => IncludedInv
<1> SUFFICES ASSUME Init
             PROVE  IncludedInv
  OBVIOUS
<1>1. SucceededIsIncluded
  BY LocalsKnown DEF Init, SucceededIsIncluded, SucceededOk
<1>2. InvOneLookup
  BY ConstFacts DEF Init, InvOneLookup, LookupSteps
<1>3. \A p \in Procs : at[p] \in {"idle", "acceptFirst"} /\ loc[p] = NoLocals
  BY DEF Init
<1>4. /\ NoLocals.landed = NoTx /\ NoLocals.seen = NoValidation /\ NoLocals.known = FALSE
      /\ NoValidation.status = "NONE"
  BY DEF NoLocals, NoValidation
<1>5. \A i \in 1..Len(feed) : FALSE
  BY DEF Init
<1>6. NoTx \notin Txs /\ Txs \subseteq Procs
  BY ConstFacts
<1>7. InvLanded
  BY <1>3, <1>4, <1>5, <1>6 DEF InvLanded, SucceededOk, LookupSteps
<1> QED
  BY <1>1, <1>2, <1>7 DEF IncludedInv

\* Every step taken while calls do not overlap keeps what is known of the
\* transactions.
LEMMA NextIncluded ==
  ASSUME IInv, IncludedInv, CallsInTurn, Next
  PROVE  IncludedInv'
<1>0. /\ TypeRecord /\ TypeChain /\ TypeProcs /\ InvLookup /\ InvFeed
      /\ SucceededIsIncluded /\ InvOneLookup /\ InvLanded
  BY TypeParts DEF IInv, FlowInv, IncludedInv
<1>1. SucceededIsIncluded'
  BY <1>0, SucceededStep DEF SucceededIsIncluded
<1>2. InvOneLookup'
  BY <1>0, OneLookupStep
<1>3. InvLanded'
  <2>1. (\A i \in 1..Len(feed) : feed[i].tx \in Txs => Included(feed[i].tx))'
    BY <1>0, LandedFeedStep
  <2>2. (\A q \in Procs : /\ SucceededOk(loc[q].seen)
                          /\ at[q] # "submitted" /\ loc[q].landed \in Txs => Included(loc[q].landed))'
    BY <1>0, HeldStep
  <2>3. (\A r \in Txs :
            /\ at[r] \in LookupSteps /\ loc[r].known => Included(loc[r].seen.tx)
            /\ at[r] = "idle" => ~loc[r].known
            /\ at[r] = "lookupEntry" => loc[r].known
            /\ at[r] = "findTx" => loc[r].seen.tx \in Txs
            /\ at[r] \in {"resolve", "findTx", "lookupEntry"} /\ state = "VALIDATION_TX_SUBMITTED"
                 => \/ at[r] = "resolve" /\ ~loc[r].known
                    \/ validation.tx = loc[r].seen.tx)'
    BY <1>0, <1>2, KnownStep
  <2> QED
    BY <2>1, <2>2, <2>3 DEF InvLanded
<1> QED
  BY <1>1, <1>2, <1>3 DEF IncludedInv

\* So does a step that changes nothing.
LEMMA StutterIncluded == IncludedInv /\ UNCHANGED vars => IncludedInv'
BY DEF vars, record, chain, IncludedInv, SucceededIsIncluded, SucceededOk, Included,
       InvOneLookup, MaySubmit, InvLanded

\* A record that says SUCCEEDED names a transaction that the chain included: in
\* every behaviour whose admin calls do not overlap, with any number of calls,
\* transactions, reconnects, failing reads and crashes, and so in the corners
\* that the run explores.
THEOREM SucceededMeansIncluded ==
    /\ Spec /\ []CallsInTurn => []SucceededIsIncluded
    /\ MCSpec => []MCSucceededIsIncluded
<1>1. Spec /\ []CallsInTurn => []SucceededIsIncluded
  <2> DEFINE J == IInv /\ IncludedInv
  <2>1. Init => J
    BY InitInv, InitIncluded
  <2>2. J /\ CallsInTurn /\ [Next]_vars => J'
    BY NextInv, StutterInv, NextIncluded, StutterIncluded
  <2>3. J => SucceededIsIncluded
    BY DEF IncludedInv
  <2> HIDE DEF J
  <2> QED
    BY <2>1, <2>2, <2>3, PTL DEF Spec
<1>2. MCSpec => []MCSucceededIsIncluded
  <2> DEFINE J == /\ IInv
                  /\ scenario \in {"races", "faults", "in turn"}
                  /\ scenario # "races" => IncludedInv /\ CallsInTurn
  <2>1. MCInit => J
    <3>1. Init => CallsInTurn
      BY ConstFacts DEF Init, CallsInTurn
    <3> QED
      BY <3>1, InitInv, InitIncluded DEF MCInit
  <2>2. J /\ [MCNext]_<<scenario, vars>> => J'
    <3>1. CASE UNCHANGED <<scenario, vars>>
      <4>1. CallsInTurn /\ UNCHANGED vars => CallsInTurn'
        BY DEF CallsInTurn, vars
      <4> QED
        BY <3>1, <4>1, StutterInv, StutterIncluded
    <3>2. CASE MCNext
      <4>1. Next /\ scenario' = scenario
            /\ (scenario \in {"faults", "in turn"} => CallsInTurn')
        BY <3>2 DEF MCNext
      <4> QED
        BY <4>1, NextInv, NextIncluded
    <3> QED
      BY <3>1, <3>2
  <2>3. J => MCSucceededIsIncluded
    BY DEF MCSucceededIsIncluded
  <2> HIDE DEF J
  <2> QED
    BY <2>1, <2>2, <2>3, PTL DEF MCSpec
<1> QED
  BY <1>1, <1>2

=============================================================================
