----------------------------- MODULE ChainMirror -----------------------------
(***************************************************************************)
(* What the agent makes of the notifications of the chain: the mirror of   *)
(* ecosystems, schemas and participants in the sync state, and the         *)
(* reactions of the default handlers on the flow of a participant.         *)
(*                                                                         *)
(* A notification names an entity; the handler reads the entity when it    *)
(* runs, which may be several changes later.  The mirror is saved after    *)
(* the reactions, so a crash between them runs the reactions again.        *)
(*                                                                         *)
(* One ecosystem, one credential schema and one HOLDER participant of the  *)
(* agent, with its applicant flow.  That each notification is applied once *)
(* and in order is what IndexerSync shows.                                 *)
(***************************************************************************)
EXTENDS Naturals, Sequences, FiniteSets

CONSTANTS
    Dids,        \* owners an ecosystem may have
    MaxEvents,   \* bound: changes on the chain
    MaxCrashes,  \* bound: crashes
    MaxFails,    \* bound: onboarding requests that cannot be sent
    Prompt       \* a notification is handled before the participant changes again

VARIABLES
    eco, cs, part,  \* the entities on the chain
    bumps,          \* IncreaseActiveGFVersion messages so far
    log,            \* notifications that are not recorded yet
    saved,          \* the stored sync state
    mem,            \* the sync state the running handler works on, NoState if none
    flow,           \* state of the applicant flow
    hasCred,        \* the flow has a credential exchange
    ever,           \* ghost: the participant was validated once
    reacted,        \* ghost: what the cancelled request should leave of the flow
    crashes, fails

chain == <<eco, cs, part, bumps, ever>>
flows == <<flow, hasCred>>
vars == <<chain, log, saved, mem, flows, reacted, crashes, fails>>

NoEco == [did |-> "none", archived |-> FALSE, version |-> 0]
NoCs == [known |-> FALSE, archived |-> FALSE]
NoPart == [op |-> "", revoked |-> FALSE, slashed |-> FALSE]
EmptyState == [eco |-> NoEco, cs |-> NoCs, part |-> NoPart]
NoState == [eco |-> NoEco]

Ended == {"TERMINATED_BY_APPLICANT", "PARTICIPANT_REVOKED", "PARTICIPANT_SLASHED"}

Init ==
    /\ eco = NoEco /\ cs = NoCs /\ part = NoPart /\ bumps = 0 /\ ever = FALSE
    /\ log = <<>> /\ saved = EmptyState /\ mem = NoState
    /\ flow = "none" /\ hasCred = FALSE /\ reacted = "none"
    /\ crashes = 0 /\ fails = 0

-----------------------------------------------------------------------------
\* The chain.

Emit(msg) == Len(log) < MaxEvents /\ log' = Append(log, msg)

ecosystemMsg ==
    /\ bumps < MaxEvents
    /\ \/ /\ eco = NoEco /\ \E d \in Dids : eco' = [NoEco EXCEPT !.did = d]
          /\ Emit("CreateNewEcosystem") /\ UNCHANGED bumps
       \/ /\ eco # NoEco /\ \E d \in Dids \ {eco.did} : eco' = [eco EXCEPT !.did = d]
          /\ Emit("UpdateEcosystem") /\ UNCHANGED bumps
       \/ /\ eco # NoEco /\ eco' = [eco EXCEPT !.archived = ~@]
          /\ Emit("ArchiveEcosystem") /\ UNCHANGED bumps
       \/ /\ eco # NoEco /\ bumps' = bumps + 1 /\ Emit("IncreaseActiveGFVersion") /\ UNCHANGED eco
    /\ UNCHANGED <<cs, part, ever, saved, mem, flows, reacted, crashes, fails>>

schemaMsg ==
    /\ \/ ~cs.known /\ cs' = [cs EXCEPT !.known = TRUE] /\ Emit("CreateNewCredentialSchema")
       \/ cs.known /\ cs' = [cs EXCEPT !.archived = ~@] /\ Emit("ArchiveCredentialSchema")
    /\ UNCHANGED <<eco, part, bumps, ever, saved, mem, flows, reacted, crashes, fails>>

\* The participant: its onboarding, renewal and cancellation, its revocation,
\* its slashing and repayment.
ParticipantMsgs ==
    {"StartParticipantOP", "SetParticipantOPToValidated", "RenewParticipantOP",
     "CancelParticipantOPLastRequest", "RevokeParticipant",
     "SlashParticipantTrustDeposit", "RepayParticipantSlashedTrustDeposit"}

Allowed(msg) ==
    CASE msg = "StartParticipantOP" -> part.op = ""
      [] msg = "SetParticipantOPToValidated" -> part.op = "PENDING"
      [] msg = "RenewParticipantOP" -> part.op = "VALIDATED"
      [] msg = "CancelParticipantOPLastRequest" -> part.op = "PENDING"
      [] msg = "RevokeParticipant" -> part.op # ""
      [] msg = "SlashParticipantTrustDeposit" -> part.op # "" /\ ~part.slashed
      [] OTHER -> part.slashed

participantMsg(msg) ==
    /\ Allowed(msg) /\ ~part.revoked
    /\ Prompt => log = <<>> /\ mem = NoState
    /\ Emit(msg)
    /\ part' =
        CASE msg \in {"StartParticipantOP", "RenewParticipantOP"} -> [part EXCEPT !.op = "PENDING"]
          [] msg = "SetParticipantOPToValidated" -> [part EXCEPT !.op = "VALIDATED"]
          [] msg = "CancelParticipantOPLastRequest" ->
                [part EXCEPT !.op = IF ever THEN "VALIDATED" ELSE "TERMINATED"]
          [] msg = "RevokeParticipant" -> [part EXCEPT !.revoked = TRUE]
          [] msg = "SlashParticipantTrustDeposit" -> [part EXCEPT !.slashed = TRUE]
          [] OTHER -> [part EXCEPT !.slashed = FALSE]
    /\ ever' = (ever \/ msg = "SetParticipantOPToValidated")
    /\ reacted' = IF msg = "CancelParticipantOPLastRequest" /\ ever /\ hasCred /\ flow \notin Ended
                  THEN "COMPLETED"
                  ELSE IF msg \in {"RevokeParticipant", "SlashParticipantTrustDeposit"} THEN "none"
                  ELSE reacted
    /\ UNCHANGED <<eco, cs, bumps, saved, mem, flows, crashes, fails>>

-----------------------------------------------------------------------------
\* The mirror: applyStateMutation.

\* fetchActivity reads the entity when the notification is handled.
fetchEntity == [eco |-> eco, cs |-> cs, part |-> part]

upsertEcosystem(e) == [fetchEntity.eco EXCEPT !.version = e.version]

bumpActiveVersion(e) == [e EXCEPT !.version = @ + 1]

upsertCredentialSchema == [known |-> TRUE, archived |-> fetchEntity.cs.archived]

\* Mutant: the override of the message is dropped.
upsertNoOverride(p, msg) == [p EXCEPT !.op = fetchEntity.part.op]

\* What the message says overrides what the entity says; revoked and slashed
\* come from the messages alone.
upsertParticipant(p, msg) ==
    CASE msg \in {"StartParticipantOP", "RenewParticipantOP"} -> [p EXCEPT !.op = "PENDING"]
      [] msg = "SetParticipantOPToValidated" -> [p EXCEPT !.op = "VALIDATED"]
      [] msg = "RevokeParticipant" -> [p EXCEPT !.op = fetchEntity.part.op, !.revoked = TRUE]
      [] msg = "SlashParticipantTrustDeposit" -> [p EXCEPT !.op = fetchEntity.part.op, !.slashed = TRUE]
      [] msg = "RepayParticipantSlashedTrustDeposit" -> [p EXCEPT !.op = fetchEntity.part.op, !.slashed = FALSE]
      [] OTHER -> [p EXCEPT !.op = fetchEntity.part.op]

applyStateMutation(s, msg) ==
    IF msg \in {"CreateNewEcosystem", "UpdateEcosystem", "ArchiveEcosystem"}
    THEN [s EXCEPT !.eco = upsertEcosystem(@)]
    ELSE IF msg = "IncreaseActiveGFVersion" THEN [s EXCEPT !.eco = bumpActiveVersion(@)]
    ELSE IF msg \in {"CreateNewCredentialSchema", "ArchiveCredentialSchema"}
    THEN [s EXCEPT !.cs = upsertCredentialSchema]
    ELSE [s EXCEPT !.part = upsertParticipant(@, msg)]

-----------------------------------------------------------------------------
\* The reactions of the default handlers on the applicant flow.

\* Start and renewal: a finished flow begins again, a running one goes on.
startParticipantOPAutoFlow ==
    \/ /\ flow' = IF flow \in {"none", "COMPLETED"} \cup Ended THEN "OR_SENT" ELSE flow
       /\ hasCred' = (hasCred /\ flow \notin Ended) /\ UNCHANGED fails
    \/ fails < MaxFails /\ fails' = fails + 1 /\ UNCHANGED flows

\* setVtFlowRecordsParticipantRevoked and ...Slashed.
terminateByChainEvent(s) ==
    flow' = IF flow \in {"none", "PARTICIPANT_REVOKED", "PARTICIPANT_SLASHED"} THEN flow ELSE s

markApplicantVtFlowRecordsValidated == flow' = IF flow = "OR_SENT" THEN "VALIDATED" ELSE flow

\* A cancelled renewal of a flow with a credential is complete again, if the
\* participant is validated, as it is read now.
reconcileVtFlowRecordsOnCancel ==
    flow' = IF flow \in Ended \cup {"none"} THEN flow
            ELSE IF part.op = "VALIDATED" /\ hasCred THEN "COMPLETED"
            ELSE "TERMINATED_BY_APPLICANT"

dispatch(msg) ==
    CASE msg \in {"StartParticipantOP", "RenewParticipantOP"} -> startParticipantOPAutoFlow
      [] msg = "SetParticipantOPToValidated" ->
            markApplicantVtFlowRecordsValidated /\ UNCHANGED <<hasCred, fails>>
      [] msg = "RevokeParticipant" ->
            terminateByChainEvent("PARTICIPANT_REVOKED") /\ UNCHANGED <<hasCred, fails>>
      [] msg = "SlashParticipantTrustDeposit" ->
            terminateByChainEvent("PARTICIPANT_SLASHED") /\ UNCHANGED <<hasCred, fails>>
      [] msg = "CancelParticipantOPLastRequest" ->
            reconcileVtFlowRecordsOnCancel /\ UNCHANGED <<hasCred, fails>>
      [] OTHER -> UNCHANGED <<flows, fails>>

\* applyChanges: the mirror in memory, then the reactions.
applyChanges ==
    /\ mem = NoState /\ log # <<>>
    /\ mem' = applyStateMutation(saved, Head(log))
    /\ dispatch(Head(log))
    /\ UNCHANGED <<chain, log, saved, reacted, crashes>>

\* saveSyncState: the mirror and the position together.
saveSyncState ==
    /\ mem # NoState /\ saved' = mem /\ mem' = NoState /\ log' = Tail(log)
    /\ UNCHANGED <<chain, flows, reacted, crashes, fails>>

crash ==
    /\ crashes < MaxCrashes /\ crashes' = crashes + 1 /\ mem' = NoState
    /\ UNCHANGED <<chain, log, saved, flows, reacted, fails>>

\* The validator offers the credential of a validated flow, and it arrives.
credentialArrives ==
    /\ flow = "VALIDATED" /\ ~part.revoked
    /\ flow' = "COMPLETED" /\ hasCred' = TRUE
    /\ UNCHANGED <<chain, log, saved, mem, reacted, crashes, fails>>

Handle == applyChanges \/ saveSyncState

Next ==
    \/ ecosystemMsg \/ schemaMsg \/ \E m \in ParticipantMsgs : participantMsg(m)
    \/ Handle \/ crash \/ credentialArrives

Spec == Init /\ [][Next]_vars

-----------------------------------------------------------------------------
Messages ==
    ParticipantMsgs \cup
    {"CreateNewEcosystem", "UpdateEcosystem", "ArchiveEcosystem", "IncreaseActiveGFVersion",
     "CreateNewCredentialSchema", "ArchiveCredentialSchema"}

TypeOK ==
    /\ log \in Seq(Messages) /\ Len(log) <= MaxEvents
    /\ saved.part.op \in {"", "PENDING", "VALIDATED", "TERMINATED"}
    /\ saved.eco.version <= bumps
    /\ flow \in {"none", "OR_SENT", "VALIDATED", "COMPLETED"} \cup Ended
    /\ hasCred \in BOOLEAN

Drained == log = <<>> /\ mem = NoState

\* applyStateMutation: when every notification is handled, the mirror agrees
\* with the chain, although handlers saw entities of a later time and ran again
\* after a crash; each version message is counted once.
MirrorConverges ==
    Drained => /\ saved.eco = [eco EXCEPT !.version = bumps]
               /\ saved.cs = cs
               /\ saved.part = part

\* defaultHandlers: a flow of a participant that is revoked ends, and which of
\* the two chain outcomes it shows does not change with a later message.
RevokedFlowEnds ==
    (Drained /\ part.revoked /\ flow # "none") => flow \in Ended

\* terminateByChainEvent: revoked and slashed are final for a flow until a new
\* onboarding begins, also when a handler runs again.
ChainOutcomeStays ==
    [][(flow \in {"PARTICIPANT_REVOKED", "PARTICIPANT_SLASHED"}) => (flow' \in {flow, "OR_SENT"})]_vars

\* reconcileVtFlowRecordsOnCancel: "cancel restoring the flow to COMPLETED": once
\* the cancellation of a renewal is handled, the flow that has its credential is
\* not ended.
CancelRestores ==
    (Drained /\ reacted = "COMPLETED" /\ ~part.revoked /\ ~part.slashed)
        => flow # "TERMINATED_BY_APPLICANT"

=============================================================================
