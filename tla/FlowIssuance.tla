---------------------------- MODULE FlowIssuance ----------------------------
(***************************************************************************)
(* Anchoring and delivery of the credential of one flow.  The validator    *)
(* signs the credential, sends its digest to the chain in a participant    *)
(* session, waits for the transaction, and only then sends the credential. *)
(* Several calls can run at once: the listener's, admin calls that issue   *)
(* again after a FAILED anchoring, and the one of a start-up.  The         *)
(* applicant checks the credential against the indexer before it accepts.  *)
(*                                                                         *)
(* A step is what runs between two awaits.  Every transaction carries the  *)
(* same digest: an issued credential is signed once and stored.            *)
(***************************************************************************)
EXTENDS Naturals, FiniteSets

CONSTANTS
    Admins,      \* admin calls that can be under way at once
    Faults,      \* the indexer, the RPC node and the transport can fail
    MaxTx,       \* bound: broadcasts
    MaxCrashes,  \* bound: crashes of the validator
    MaxTries     \* verification attempts (10 in setupAgent)

ASSUME CallsAssumption == "auto" \notin Admins /\ "resume" \notin Admins
ASSUME BoundsAssumption ==
    /\ Faults \in BOOLEAN /\ MaxTx \in Nat /\ MaxCrashes \in Nat /\ MaxTries \in Nat

VARIABLES
    flow,      \* state of the validator's flow record
    issuance,  \* its issuance.tx: status and hash
    xchg,      \* state of the validator's credential exchange
    call,      \* per call: program counter, hash and result
    tx,        \* per broadcast, what became of it
    sent,      \* the credential was sent
    held,      \* the applicant's side
    tries,     \* its verification attempts so far
    indexed,   \* the indexer has the digest
    crashes

vars == <<flow, issuance, xchg, call, tx, sent, held, tries, indexed, crashes>>
applicant == <<held, tries, indexed>>

Calls == {"auto", "resume"} \cup Admins
Txs   == 1..MaxTx
Idle  == [pc |-> "idle", hash |-> 0, status |-> "none"]
Anchored == \E t \in Txs : tx[t] = "ok"

Init ==
    /\ flow = "CRED_OFFERED" /\ issuance = [status |-> "none", hash |-> 0]
    /\ xchg = "request-received"
    /\ call = [c \in Calls |-> Idle]
    /\ tx = [t \in Txs |-> "none"]
    /\ sent = FALSE /\ held = "none" /\ tries = 0 /\ indexed = FALSE
    /\ crashes = 0

Goto(c, pc) == call' = [call EXCEPT ![c].pc = pc]

\* A call throws.  The listener of VtFlowModule ends the flow; an admin gets
\* an error, the start-up logs one.
Throw(c) ==
    /\ call' = [call EXCEPT ![c] = Idle]
    /\ flow' = IF c = "auto" /\ flow \in {"CRED_OFFERED", "COMPLETED"}
               THEN "TERMINATED_BY_VALIDATOR" ELSE flow

-----------------------------------------------------------------------------
\* The validator's calls of issueCredentialForSession.

\* The listener calls it when the request arrives: acceptRequest signs.
autoIssue ==
    /\ xchg = "request-received" /\ flow = "CRED_OFFERED" /\ call["auto"].pc = "idle"
    /\ \/ xchg' = "credential-issued" /\ Goto("auto", "hook") /\ UNCHANGED flow
       \/ Faults /\ Throw("auto") /\ UNCHANGED xchg
    /\ UNCHANGED <<issuance, tx, sent, applicant, crashes>>

\* validateFlow on a flow whose anchoring FAILED: the stored credential again.
reissue(c) ==
    /\ call[c].pc = "idle" /\ flow = "CRED_OFFERED" /\ issuance.status = "FAILED"
    /\ Goto(c, "hook")
    /\ UNCHANGED <<flow, issuance, xchg, tx, sent, applicant, crashes>>

\* The hook: the record is read again, the digest computed, and anchor begins:
\* a transaction that is SUBMITTED on the record is only looked up.
onCredentialIssued(c) ==
    /\ call[c].pc = "hook"
    /\ \/ /\ call' = [call EXCEPT ![c] =
               IF issuance.status = "SUBMITTED"
               THEN [pc |-> "lookup", hash |-> issuance.hash, status |-> "none"]
               ELSE [Idle EXCEPT !.pc = "preflight"]]
          /\ UNCHANGED flow
       \/ Faults /\ Throw(c)          \* the indexer
    /\ UNCHANGED <<issuance, xchg, tx, sent, applicant, crashes>>

Fails(c) == call' = [call EXCEPT ![c].pc = "result", ![c].status = "FAILED"]

\* preflightFee, then the broadcast.  A broadcast that throws may have reached
\* the chain; its hash is lost with the error.
anchorBroadcast(c) ==
    /\ call[c].pc = "preflight"
    /\ \/ Faults /\ Fails(c) /\ UNCHANGED tx
       \/ \E t \in Txs :
            /\ tx[t] = "none" /\ \A u \in 1..(t - 1) : tx[u] # "none"
            /\ tx' = [tx EXCEPT ![t] = "pool"]
            /\ \/ call' = [call EXCEPT ![c].pc = "submitted", ![c].hash = t]
               \/ Faults /\ Fails(c)
    /\ UNCHANGED <<flow, issuance, xchg, sent, applicant, crashes>>

anchorRecord(c) ==
    /\ call[c].pc = "submitted"
    /\ issuance' = [status |-> "SUBMITTED", hash |-> call[c].hash]
    /\ Goto(c, "lookup")
    /\ UNCHANGED <<flow, xchg, tx, sent, applicant, crashes>>

\* Mutant: a transaction that is not found counts as sent.
lookupNotFoundSucceeds(c) ==
    /\ call[c].pc = "lookup"
    /\ call' = [call EXCEPT ![c].pc = "result", ![c].status = "SUCCEEDED"]
    /\ UNCHANGED <<flow, issuance, xchg, tx, sent, applicant, crashes>>

\* The lookup loop of anchor ends with the transaction, or after 60 seconds
\* from the submission: not included yet, or the node does not answer.
anchorLookup(c) ==
    /\ call[c].pc = "lookup"
    /\ \/ /\ tx[call[c].hash] = "ok"
          /\ call' = [call EXCEPT ![c].pc = "result", ![c].status = "SUCCEEDED"]
       \/ tx[call[c].hash] = "bad" /\ Fails(c)
       \/ (Faults \/ tx[call[c].hash] = "pool") /\ Fails(c)
    /\ UNCHANGED <<flow, issuance, xchg, tx, sent, applicant, crashes>>

\* recordIssuance of the result; only a success goes on to the delivery.
recordIssuance(c) ==
    /\ call[c].pc = "result"
    /\ issuance' = [status |-> call[c].status, hash |-> call[c].hash]
    /\ call' = [call EXCEPT ![c] = IF call[c].status = "FAILED" THEN Idle
                                   ELSE [call[c] EXCEPT !.pc = "send"]]
    /\ UNCHANGED <<flow, xchg, tx, sent, applicant, crashes>>

\* setCredentialDigest and the message with the credential.
deliver(c) ==
    /\ call[c].pc = "send"
    /\ \/ /\ sent' = TRUE
          /\ held' = IF held = "none" THEN "received" ELSE held
          /\ call' = [call EXCEPT ![c] = Idle]
          /\ UNCHANGED flow
       \/ Faults /\ Throw(c) /\ UNCHANGED <<sent, held>>
    /\ UNCHANGED <<issuance, xchg, tx, tries, indexed, crashes>>

\* A crash, and resumeIssuanceSubmissions of the next start.
resumeIssuanceSubmissions ==
    /\ crashes < MaxCrashes /\ crashes' = crashes + 1
    /\ call' = [c \in Calls |->
          IF c = "resume" /\ flow = "CRED_OFFERED" /\ issuance.status = "SUBMITTED"
          THEN [Idle EXCEPT !.pc = "hook"] ELSE Idle]
    /\ UNCHANGED <<flow, issuance, xchg, tx, sent, applicant>>

-----------------------------------------------------------------------------
\* The chain and the indexer.

include ==
    \E t \in Txs, r \in {"ok", "bad"} :
        /\ tx[t] = "pool" /\ (r = "bad" => Faults)
        /\ tx' = [tx EXCEPT ![t] = r]
        /\ UNCHANGED <<flow, issuance, xchg, call, sent, applicant, crashes>>

index ==
    /\ Anchored /\ ~indexed /\ indexed' = TRUE
    /\ UNCHANGED <<flow, issuance, xchg, call, tx, sent, held, tries, crashes>>

-----------------------------------------------------------------------------
\* The applicant.

\* verifyOfferedCredential in the verifyCredential hook of setupAgent: up to
\* MaxTries attempts, then nobody tries again.  The entry of the issuer can
\* fail its checks as the indexer can fail to answer.
verifyCredential ==
    /\ held = "received" /\ tries < MaxTries
    /\ \/ indexed /\ held' = "accepted" /\ UNCHANGED tries
       \/ (Faults \/ ~indexed) /\ tries' = tries + 1 /\ UNCHANGED held
    /\ UNCHANGED <<flow, issuance, xchg, call, tx, sent, indexed, crashes>>

\* acceptCredential of the admin: one attempt, at any time.
acceptCredential ==
    /\ held = "received" /\ indexed
    /\ held' = "accepted"
    /\ UNCHANGED <<flow, issuance, xchg, call, tx, sent, tries, indexed, crashes>>

\* The acknowledgement reaches the validator.
completeExchange ==
    /\ held = "accepted" /\ xchg = "credential-issued"
    /\ xchg' = "done"
    /\ flow' = IF flow = "CRED_OFFERED" THEN "COMPLETED" ELSE flow
    /\ UNCHANGED <<issuance, call, tx, sent, applicant, crashes>>

CallStep(c) ==
    \/ onCredentialIssued(c) \/ anchorBroadcast(c) \/ anchorRecord(c)
    \/ anchorLookup(c) \/ recordIssuance(c) \/ deliver(c)

Next ==
    \/ autoIssue \/ resumeIssuanceSubmissions
    \/ \E c \in Admins : reissue(c)
    \/ \E c \in Calls : CallStep(c)
    \/ include \/ index
    \/ verifyCredential \/ acceptCredential \/ completeExchange

Spec == Init /\ [][Next]_vars

\* A started call goes on; the chain, the network and the admin owe nothing.
Fairness == \A c \in Calls : WF_vars(CallStep(c))

FairSpec == Spec /\ Fairness

-----------------------------------------------------------------------------
TypeOK ==
    /\ flow \in {"CRED_OFFERED", "COMPLETED", "TERMINATED_BY_VALIDATOR"}
    /\ issuance \in [status : {"none", "SUBMITTED", "SUCCEEDED", "FAILED"}, hash : 0..MaxTx]
    /\ xchg \in {"request-received", "credential-issued", "done"}
    /\ call \in [Calls -> [pc : {"idle", "hook", "preflight", "submitted", "lookup",
                                 "result", "send"},
                           hash : 0..MaxTx, status : {"none", "SUCCEEDED", "FAILED"}]]
    /\ tx \in [Txs -> {"none", "pool", "ok", "bad"}]
    /\ sent \in BOOLEAN /\ held \in {"none", "received", "accepted"}
    /\ tries \in 0..MaxTries /\ indexed \in BOOLEAN /\ crashes \in 0..MaxCrashes

\* No credential leaves the validator before its digest is on the chain
\* (issueCredentialForSession: "The spec forbids delivering a credential whose
\* digest is not anchored"), whatever calls overlap, crash or time out.
DeliveredAnchored == sent => Anchored

\* anchor: a call holds a result only for a transaction it sent or found on the
\* record, and a success only for one the chain included; so does the record.
CallOnChain(c) ==
    /\ call[c].pc \in {"submitted", "lookup"} =>
           call[c].hash \in Txs /\ tx[call[c].hash] # "none"
    /\ call[c].status = "SUCCEEDED" => call[c].hash \in Txs /\ tx[call[c].hash] = "ok"
    /\ call[c].status # "none" <=> call[c].pc \in {"result", "send"}
    /\ call[c].pc = "send" => call[c].status = "SUCCEEDED"
RecordOnChain ==
    /\ issuance.status = "SUBMITTED" => issuance.hash \in Txs /\ tx[issuance.hash] # "none"
    /\ issuance.status = "SUCCEEDED" => issuance.hash \in Txs /\ tx[issuance.hash] = "ok"
ResultsOnChain == RecordOnChain /\ \A c \in Calls : CallOnChain(c)

\* verifyOfferedCredential: the applicant accepts only a credential that was
\* sent and whose digest the indexer has, and only that completes the flow.
AcceptedIndexed ==
    /\ indexed => Anchored
    /\ held # "none" => sent
    /\ held = "accepted" => indexed
    /\ flow = "COMPLETED" => held = "accepted"

\* Anchoring and delivery are sound whatever calls overlap, crash or time out.
AnchoringInv == TypeOK /\ DeliveredAnchored /\ ResultsOnChain /\ AcceptedIndexed

\* A restart looks a SUBMITTED anchoring up and never sends it a second time
\* (comment of anchor), as long as admin calls do not overlap.
NotBroadcastTwiceStep ==
    (\E t \in Txs : tx[t] = "none" /\ tx'[t] = "pool")
        => issuance.status # "SUBMITTED"
NotBroadcastTwice == [][NotBroadcastTwiceStep]_vars

\* A record that says FAILED belongs to a credential that was not delivered,
\* so issuing again is right; it needs admin calls that do not overlap.
FailedIsUndelivered == issuance.status = "FAILED" => ~sent

\* With one admin, calls never overlap: each is started by what the record and
\* the exchange say only when no other runs.
Active(c) == call[c].pc # "idle"
OneCall ==
    /\ \A c, d \in Calls : Active(c) /\ Active(d) => c = d
    /\ \A c \in Calls : Active(c) =>
        /\ xchg # "request-received" /\ ~sent
        /\ issuance.status = "SUCCEEDED" => call[c].pc = "send"
        /\ issuance.status = "FAILED" => c \in Admins
        /\ call[c].pc = "hook" /\ issuance.status = "SUBMITTED" => c = "resume"
        /\ call[c].pc \in {"preflight", "submitted"} => issuance.status # "SUBMITTED"
        /\ call[c].pc = "send" => issuance.status = "SUCCEEDED"
    /\ xchg = "request-received" => issuance.status = "none"
    /\ sent => issuance.status = "SUCCEEDED" /\ \A c \in Calls : ~Active(c)

\* An anchoring left SUBMITTED is always settled, by the call that sent it or
\* by the next start, if the indexer and the node answer.
SubmittedSettles == (issuance.status = "SUBMITTED") ~> (issuance.status # "SUBMITTED")

=============================================================================
