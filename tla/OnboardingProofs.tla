---------------------------- MODULE OnboardingProofs ----------------------------
(***************************************************************************)
(* Proofs about the parts of MCOnboarding, for every value of their        *)
(* bounds.                                                                 *)
(*                                                                         *)
(* Anchoring and delivery (FlowIssuance): AnchoringInv is inductive.       *)
(* DeliveredAnchored needs ResultsOnChain: a call that delivers holds the  *)
(* hash of an included transaction, which is known only because every call *)
(* between the broadcast and the result holds a hash of its own or the     *)
(* record's.  What needs admin calls that do not overlap follows from      *)
(* OneCall, which is inductive with AnchoringInv as long as they do not.   *)
(*                                                                         *)
(* The two parties (VtFlow): RoundInv says which pairs of states the two   *)
(* records of one exchange go through, that every message and every call   *)
(* under way fits the pair it belongs to, and that nothing of a credential *)
(* exists before the entry of an onboarding is VALIDATED.                  *)
(*                                                                         *)
(* The view of the operator (FlowDesk): DeskInv says that an edit and an   *)
(* issuance under way hold the claims the record still has.                *)
(***************************************************************************)
EXTENDS MCOnboarding, TLAPS

(***************************************************************************)
(* Anchoring and delivery.                                                 *)
(***************************************************************************)

\* The values of one entry of call.
CallRecords ==
    [pc : {"idle", "hook", "preflight", "submitted", "lookup", "result", "send"},
     hash : 0..MaxTx, status : {"none", "SUCCEEDED", "FAILED"}]

\* AnchoringInv holds of a flow whose request has just arrived.
LEMMA InitInv == Init => AnchoringInv
<1> SUFFICES ASSUME Init PROVE AnchoringInv
  OBVIOUS
<1> USE BoundsAssumption DEF Init, Txs
<1>1. TypeOK
  <2>1. Idle \in CallRecords
    BY DEF Idle, CallRecords
  <2>2. call \in [Calls -> CallRecords]
    BY <2>1
  <2>3. issuance \in [status : {"none", "SUBMITTED", "SUCCEEDED", "FAILED"},
                      hash : 0..MaxTx]
    OBVIOUS
  <2>4. tx \in [Txs -> {"none", "pool", "ok", "bad"}]
    OBVIOUS
  <2>5. tries \in 0..MaxTries /\ crashes \in 0..MaxCrashes
    OBVIOUS
  <2>6. /\ flow = "CRED_OFFERED" /\ xchg = "request-received" /\ held = "none"
        /\ sent \in BOOLEAN /\ indexed \in BOOLEAN
    OBVIOUS
  <2> QED
    BY <2>2, <2>3, <2>4, <2>5, <2>6, Zenon DEF TypeOK, CallRecords
<1>2. ResultsOnChain
  BY DEF ResultsOnChain, CallOnChain, RecordOnChain, Idle
<1> QED
  BY <1>1, <1>2 DEF AnchoringInv, DeliveredAnchored, AcceptedIndexed

\* Every step of issueCredentialForSession, the chain, the indexer and the
\* applicant keeps AnchoringInv.
LEMMA NextInv == AnchoringInv /\ [Next]_vars => AnchoringInv'
<1> SUFFICES ASSUME AnchoringInv, [Next]_vars PROVE AnchoringInv'
  OBVIOUS
<1> USE BoundsAssumption, CallsAssumption DEF applicant, Txs
<1>0. TypeOK /\ DeliveredAnchored /\ ResultsOnChain /\ AcceptedIndexed
  BY DEF AnchoringInv
<1>1. CASE autoIssue
  <2>1. TypeOK'
    BY <1>0, <1>1 DEF autoIssue, Goto, Throw, Idle, TypeOK, Calls
  <2>2. ResultsOnChain'
    BY <1>0, <1>1
       DEF autoIssue, Goto, Throw, Idle, ResultsOnChain, CallOnChain, RecordOnChain,
           TypeOK, Calls
  <2>3. AcceptedIndexed'
    BY <1>0, <1>1 DEF autoIssue, Goto, Throw, Idle, AcceptedIndexed, Anchored, TypeOK
  <2>4. DeliveredAnchored'
    BY <1>0, <1>1 DEF autoIssue, DeliveredAnchored, Anchored
  <2> QED
    BY <2>1, <2>2, <2>3, <2>4 DEF AnchoringInv
<1>2. CASE resumeIssuanceSubmissions
  <2>1. TypeOK'
    BY <1>0, <1>2 DEF resumeIssuanceSubmissions, Idle, TypeOK
  <2>2. ResultsOnChain'
    BY <1>0, <1>2
       DEF resumeIssuanceSubmissions, Idle, ResultsOnChain, CallOnChain, RecordOnChain,
           TypeOK
  <2>3. DeliveredAnchored' /\ AcceptedIndexed'
    BY <1>0, <1>2
       DEF resumeIssuanceSubmissions, DeliveredAnchored, AcceptedIndexed, Anchored
  <2> QED
    BY <2>1, <2>2, <2>3 DEF AnchoringInv
<1>3. ASSUME NEW c \in Admins, reissue(c) PROVE AnchoringInv'
  <2>1. TypeOK'
    BY <1>0, <1>3 DEF reissue, Goto, TypeOK, Calls
  <2>2. ResultsOnChain'
    BY <1>0, <1>3
       DEF reissue, Goto, ResultsOnChain, CallOnChain, RecordOnChain, TypeOK, Calls
  <2>3. DeliveredAnchored' /\ AcceptedIndexed'
    BY <1>0, <1>3 DEF reissue, DeliveredAnchored, AcceptedIndexed, Anchored
  <2> QED
    BY <2>1, <2>2, <2>3 DEF AnchoringInv
<1>4. ASSUME NEW c \in Calls, onCredentialIssued(c) PROVE AnchoringInv'
  <2>1. TypeOK'
    <3>1. call' \in [Calls -> CallRecords]
      <4>1. /\ Idle \in CallRecords /\ [Idle EXCEPT !.pc = "preflight"] \in CallRecords
            /\ [pc |-> "lookup", hash |-> issuance.hash, status |-> "none"] \in CallRecords
        BY <1>0 DEF Idle, CallRecords, TypeOK
      <4>2. PICK r \in CallRecords : call' = [call EXCEPT ![c] = r]
        BY <1>4, <4>1 DEF onCredentialIssued, Throw
      <4> QED
        BY <1>0, <4>2 DEF TypeOK, CallRecords
    <3>2. flow' \in {"CRED_OFFERED", "COMPLETED", "TERMINATED_BY_VALIDATOR"}
      BY <1>0, <1>4 DEF onCredentialIssued, Throw, TypeOK
    <3>3. UNCHANGED <<issuance, xchg, tx, sent, applicant, crashes>>
      BY <1>4 DEF onCredentialIssued
    <3> QED
      BY <1>0, <3>1, <3>2, <3>3 DEF TypeOK, CallRecords
  <2>2. ResultsOnChain'
    <3>1. \A d \in Calls \ {c} : call'[d] = call[d]
      BY <1>0, <1>4 DEF onCredentialIssued, Throw, TypeOK
    <3>2. /\ call'[c].status = "none"
          /\ \/ call'[c].pc \in {"idle", "preflight"}
             \/ /\ issuance.status = "SUBMITTED"
                /\ call'[c].pc = "lookup" /\ call'[c].hash = issuance.hash
      BY <1>0, <1>4 DEF onCredentialIssued, Throw, Idle, TypeOK
    <3>3. issuance' = issuance /\ tx' = tx
      BY <1>4 DEF onCredentialIssued
    <3>4. RecordOnChain'
      BY <1>0, <3>3 DEF ResultsOnChain, RecordOnChain
    <3>5. CallOnChain(c)'
      BY <1>0, <3>2, <3>3 DEF ResultsOnChain, RecordOnChain, CallOnChain
    <3>6. \A d \in Calls \ {c} : CallOnChain(d)'
      BY <1>0, <3>1, <3>3 DEF ResultsOnChain, CallOnChain
    <3> QED
      BY <3>4, <3>5, <3>6 DEF ResultsOnChain
  <2>3. AcceptedIndexed'
    BY <1>0, <1>4 DEF onCredentialIssued, Throw, Idle, AcceptedIndexed, Anchored, TypeOK
  <2>4. DeliveredAnchored'
    BY <1>0, <1>4 DEF onCredentialIssued, DeliveredAnchored, Anchored
  <2> QED
    BY <2>1, <2>2, <2>3, <2>4 DEF AnchoringInv
<1>5. ASSUME NEW c \in Calls, anchorBroadcast(c) PROVE AnchoringInv'
  <2>1. TypeOK'
    <3>a. UNCHANGED <<flow, issuance, xchg, sent, applicant, crashes>>
      BY <1>5 DEF anchorBroadcast
    <3>b. Fails(c) => call' \in [Calls -> CallRecords]
      <4>0. call[c] \in CallRecords
        BY <1>0 DEF TypeOK, CallRecords
      <4>1. [call[c] EXCEPT !.pc = "result", !.status = "FAILED"] \in CallRecords
        BY <4>0 DEF CallRecords
      <4> DEFINE r == [call[c] EXCEPT !.pc = "result", !.status = "FAILED"]
      <4>2. call \in [Calls -> CallRecords]
        BY <1>0 DEF TypeOK, CallRecords
      <4>3. Fails(c) => call' = [call EXCEPT ![c] = r]
        BY <4>2 DEF Fails
      <4> HIDE DEF r
      <4> QED
        BY <4>1, <4>2, <4>3 DEF r
    <3>1. CASE Fails(c) /\ tx' = tx
      BY <1>0, <3>a, <3>b, <3>1 DEF TypeOK, CallRecords
    <3>2. ASSUME NEW t \in Txs, tx[t] = "none", tx' = [tx EXCEPT ![t] = "pool"],
                 \/ call' = [call EXCEPT ![c].pc = "submitted", ![c].hash = t]
                 \/ Fails(c)
          PROVE  TypeOK'
      <4>1. tx' \in [Txs -> {"none", "pool", "ok", "bad"}]
        BY <1>0, <3>2 DEF TypeOK
      <4>2. call' \in [Calls -> CallRecords]
        <5> DEFINE r == [call[c] EXCEPT !.pc = "submitted", !.hash = t]
        <5>0. call[c] \in CallRecords /\ t \in 0..MaxTx
          BY <1>0 DEF TypeOK, CallRecords
        <5>1. r \in CallRecords
          BY <5>0 DEF CallRecords
        <5>2. call \in [Calls -> CallRecords]
          BY <1>0 DEF TypeOK, CallRecords
        <5>3. call' = [call EXCEPT ![c] = r] \/ Fails(c)
          BY <3>2
        <5> HIDE DEF r
        <5>4. call' = [call EXCEPT ![c] = r] => call' \in [Calls -> CallRecords]
          BY <5>1, <5>2
        <5> QED
          BY <3>b, <5>3, <5>4
      <4> QED
        BY <1>0, <3>a, <4>1, <4>2 DEF TypeOK, CallRecords
    <3>3. \/ Fails(c) /\ tx' = tx
          \/ \E t \in Txs : /\ tx[t] = "none" /\ tx' = [tx EXCEPT ![t] = "pool"]
                           /\ \/ call' = [call EXCEPT ![c].pc = "submitted", ![c].hash = t]
                              \/ Fails(c)
      BY <1>5, Zenon DEF anchorBroadcast
    <3> QED
      BY <3>1, <3>2, <3>3
  <2>2. DeliveredAnchored'
    BY <1>0, <1>5 DEF anchorBroadcast, Fails, DeliveredAnchored, Anchored, TypeOK
  <2>3. ResultsOnChain'
    <3>1. CASE Fails(c) /\ tx' = tx
      <4>1. issuance' = issuance /\ tx' = tx
        BY <1>5, <3>1 DEF anchorBroadcast
      <4>2. /\ \A d \in Calls \ {c} : call'[d] = call[d]
            /\ call'[c].pc = "result" /\ call'[c].status = "FAILED"
        BY <1>0, <3>1 DEF Fails, TypeOK
      <4>3. RecordOnChain'
        BY <1>0, <4>1 DEF ResultsOnChain, RecordOnChain
      <4>4. ASSUME NEW d \in Calls \ {c} PROVE CallOnChain(d)'
        BY <1>0, <4>1, <4>2 DEF ResultsOnChain, CallOnChain
      <4>5. CallOnChain(c)'
        BY <4>2 DEF CallOnChain
      <4> QED
        BY <4>3, <4>4, <4>5 DEF ResultsOnChain
    <3>2. ASSUME NEW t \in Txs, tx[t] = "none", tx' = [tx EXCEPT ![t] = "pool"],
                 \/ call' = [call EXCEPT ![c].pc = "submitted", ![c].hash = t]
                 \/ Fails(c)
          PROVE  ResultsOnChain'
      <4>1. /\ \A u \in Txs : tx[u] # "none" => tx'[u] = tx[u]
            /\ tx'[t] = "pool" /\ issuance' = issuance
        BY <1>0, <1>5, <3>2 DEF TypeOK, anchorBroadcast
      <4>2. \A d \in Calls \ {c} : call'[d] = call[d]
        BY <1>0, <3>2 DEF Fails, TypeOK
      <4>3. call[c].status = "none"
        BY <1>0, <1>5 DEF anchorBroadcast, ResultsOnChain, CallOnChain
      <4>4. \/ call'[c].pc = "submitted" /\ call'[c].hash = t /\ call'[c].status = "none"
            \/ call'[c].pc = "result" /\ call'[c].status = "FAILED"
        BY <1>0, <3>2, <4>3 DEF Fails, TypeOK
      <4>5. RecordOnChain'
        BY <1>0, <4>1 DEF ResultsOnChain, RecordOnChain
      <4>6. ASSUME NEW d \in Calls \ {c} PROVE CallOnChain(d)'
        BY <1>0, <4>1, <4>2 DEF ResultsOnChain, CallOnChain
      <4>7. CallOnChain(c)'
        BY <4>1, <4>4 DEF CallOnChain
      <4> QED
        BY <4>5, <4>6, <4>7 DEF ResultsOnChain
    <3> QED
      BY <1>5, <3>1, <3>2 DEF anchorBroadcast
  <2>4. AcceptedIndexed'
    BY <1>0, <1>5 DEF anchorBroadcast, Fails, AcceptedIndexed, Anchored, TypeOK
  <2> QED
    BY <2>1, <2>2, <2>3, <2>4 DEF AnchoringInv
<1>6. ASSUME NEW c \in Calls, anchorRecord(c) PROVE AnchoringInv'
  <2>1. TypeOK'
    BY <1>0, <1>6 DEF anchorRecord, Goto, TypeOK
  <2>2. ResultsOnChain'
    BY <1>0, <1>6
       DEF anchorRecord, Goto, ResultsOnChain, CallOnChain, RecordOnChain, TypeOK
  <2>3. DeliveredAnchored' /\ AcceptedIndexed'
    BY <1>0, <1>6 DEF anchorRecord, DeliveredAnchored, AcceptedIndexed, Anchored
  <2> QED
    BY <2>1, <2>2, <2>3 DEF AnchoringInv
<1>7. ASSUME NEW c \in Calls, anchorLookup(c) PROVE AnchoringInv'
  <2>1. TypeOK'
    BY <1>0, <1>7 DEF anchorLookup, Fails, TypeOK
  <2>2. ResultsOnChain'
    BY <1>0, <1>7
       DEF anchorLookup, Fails, ResultsOnChain, CallOnChain, RecordOnChain, TypeOK
  <2>3. DeliveredAnchored' /\ AcceptedIndexed'
    BY <1>0, <1>7 DEF anchorLookup, DeliveredAnchored, AcceptedIndexed, Anchored
  <2> QED
    BY <2>1, <2>2, <2>3 DEF AnchoringInv
<1>8. ASSUME NEW c \in Calls, recordIssuance(c) PROVE AnchoringInv'
  <2>1. TypeOK'
    BY <1>0, <1>8 DEF recordIssuance, Idle, TypeOK
  <2>2. ResultsOnChain'
    BY <1>0, <1>8
       DEF recordIssuance, Idle, ResultsOnChain, CallOnChain, RecordOnChain, TypeOK
  <2>3. DeliveredAnchored' /\ AcceptedIndexed'
    BY <1>0, <1>8 DEF recordIssuance, DeliveredAnchored, AcceptedIndexed, Anchored
  <2> QED
    BY <2>1, <2>2, <2>3 DEF AnchoringInv
<1>9. ASSUME NEW c \in Calls, deliver(c) PROVE AnchoringInv'
  <2>1. TypeOK'
    <3>1. call' \in [Calls -> CallRecords]
      <4>1. Idle \in CallRecords
        BY DEF Idle, CallRecords
      <4> QED
        BY <1>0, <1>9, <4>1 DEF deliver, Throw, TypeOK, CallRecords
    <3>2. /\ flow' \in {"CRED_OFFERED", "COMPLETED", "TERMINATED_BY_VALIDATOR"}
          /\ held' \in {"none", "received", "accepted"} /\ sent' \in BOOLEAN
      BY <1>0, <1>9 DEF deliver, Throw, TypeOK
    <3> QED
      BY <1>0, <1>9, <3>1, <3>2 DEF deliver, TypeOK, CallRecords
  <2>2. DeliveredAnchored'
    BY <1>0, <1>9
       DEF deliver, Throw, Idle, DeliveredAnchored, Anchored, ResultsOnChain, CallOnChain,
           RecordOnChain, TypeOK
  <2>3. ResultsOnChain'
    <3>1. \A d \in Calls \ {c} : call'[d] = call[d]
      BY <1>0, <1>9 DEF deliver, Throw, TypeOK
    <3>2. call'[c].status = "none" /\ call'[c].pc = "idle"
      BY <1>0, <1>9 DEF deliver, Throw, Idle, TypeOK
    <3>3. issuance' = issuance /\ tx' = tx
      BY <1>9 DEF deliver
    <3> QED
      BY <1>0, <3>1, <3>2, <3>3 DEF ResultsOnChain, CallOnChain, RecordOnChain, TypeOK
  <2>4. AcceptedIndexed'
    BY <1>0, <1>9 DEF deliver, Throw, Idle, AcceptedIndexed, Anchored, TypeOK
  <2> QED
    BY <2>1, <2>2, <2>3, <2>4 DEF AnchoringInv
<1>10. CASE include
  <2>1. TypeOK'
    BY <1>0, <1>10 DEF include, TypeOK
  <2>2. DeliveredAnchored'
    BY <1>0, <1>10 DEF include, DeliveredAnchored, Anchored, TypeOK
  <2>3. ResultsOnChain'
    BY <1>0, <1>10 DEF include, ResultsOnChain, CallOnChain, RecordOnChain, TypeOK
  <2>4. AcceptedIndexed'
    BY <1>0, <1>10 DEF include, AcceptedIndexed, Anchored, TypeOK
  <2> QED
    BY <2>1, <2>2, <2>3, <2>4 DEF AnchoringInv
<1>11. CASE index
  <2>1. TypeOK'
    BY <1>0, <1>11 DEF index, TypeOK
  <2>2. AcceptedIndexed'
    BY <1>0, <1>11 DEF index, AcceptedIndexed, Anchored, TypeOK
  <2>3. DeliveredAnchored' /\ ResultsOnChain'
    BY <1>0, <1>11
       DEF index, DeliveredAnchored, ResultsOnChain, CallOnChain, RecordOnChain,
           Anchored
  <2> QED
    BY <2>1, <2>2, <2>3 DEF AnchoringInv
<1>12. CASE verifyCredential
  <2>1. TypeOK'
    BY <1>0, <1>12 DEF verifyCredential, TypeOK
  <2>2. AcceptedIndexed'
    BY <1>0, <1>12 DEF verifyCredential, AcceptedIndexed, Anchored, TypeOK
  <2>3. DeliveredAnchored' /\ ResultsOnChain'
    BY <1>0, <1>12
       DEF verifyCredential, DeliveredAnchored, ResultsOnChain, CallOnChain,
           RecordOnChain, Anchored
  <2> QED
    BY <2>1, <2>2, <2>3 DEF AnchoringInv
<1>13. CASE acceptCredential
  <2>1. TypeOK'
    BY <1>0, <1>13 DEF acceptCredential, TypeOK
  <2>2. AcceptedIndexed'
    BY <1>0, <1>13 DEF acceptCredential, AcceptedIndexed, Anchored, TypeOK
  <2>3. DeliveredAnchored' /\ ResultsOnChain'
    BY <1>0, <1>13
       DEF acceptCredential, DeliveredAnchored, ResultsOnChain, CallOnChain,
           RecordOnChain, Anchored
  <2> QED
    BY <2>1, <2>2, <2>3 DEF AnchoringInv
<1>14. CASE completeExchange
  <2>1. TypeOK'
    BY <1>0, <1>14 DEF completeExchange, TypeOK
  <2>2. AcceptedIndexed'
    BY <1>0, <1>14 DEF completeExchange, AcceptedIndexed, Anchored, TypeOK
  <2>3. DeliveredAnchored' /\ ResultsOnChain'
    BY <1>0, <1>14
       DEF completeExchange, DeliveredAnchored, ResultsOnChain, CallOnChain,
           RecordOnChain, Anchored
  <2> QED
    BY <2>1, <2>2, <2>3 DEF AnchoringInv
<1>15. CASE UNCHANGED vars
  <2>1. TypeOK' /\ DeliveredAnchored' /\ ResultsOnChain' /\ AcceptedIndexed'
    BY <1>0, <1>15
       DEF vars, TypeOK, DeliveredAnchored, ResultsOnChain, CallOnChain, RecordOnChain,
           AcceptedIndexed, Anchored
  <2> QED
    BY <2>1 DEF AnchoringInv
<1> QED
  BY <1>1, <1>2, <1>3, <1>4, <1>5, <1>6, <1>7, <1>8, <1>9, <1>10, <1>11, <1>12, <1>13,
     <1>14, <1>15
     DEF Next, CallStep

\* No credential is delivered before its digest is on the chain, a call and the
\* record report a success only of an included transaction, and the applicant
\* accepts only an indexed credential: whatever calls of
\* issueCredentialForSession overlap, crash or time out.
THEOREM AnchoringInvariance == Spec => []AnchoringInv
<1>1. Init => AnchoringInv
  BY InitInv
<1>2. AnchoringInv /\ [Next]_vars => AnchoringInv'
  BY NextInv
<1> QED
  BY <1>1, <1>2, PTL DEF Spec

\* The hypothesis of the next two theorems: admin calls do not overlap.
AdminsInTurn == \A a, b \in Admins : Active(a) /\ Active(b) => a = b

\* No call runs before the listener sees the request.
LEMMA OneCallInit == Init => OneCall
  BY DEF Init, Idle, OneCall, Active

\* When admin calls take turns, no two calls of issueCredentialForSession
\* overlap: the listener starts one before anything is recorded, an admin only
\* on FAILED, a start-up only on SUBMITTED.
LEMMA OneCallNext ==
    AdminsInTurn' /\ AnchoringInv /\ OneCall /\ [Next]_vars => OneCall'
<1> SUFFICES ASSUME AdminsInTurn', AnchoringInv, OneCall, [Next]_vars PROVE OneCall'
  OBVIOUS
<1> USE CallsAssumption DEF applicant
<1>0. TypeOK /\ ResultsOnChain
  BY DEF AnchoringInv
<1>1. CASE autoIssue
  BY <1>0, <1>1 DEF autoIssue, Goto, Throw, Idle, OneCall, Active, TypeOK, Calls
<1>2. CASE resumeIssuanceSubmissions
  BY <1>0, <1>2 DEF resumeIssuanceSubmissions, Idle, OneCall, Active, TypeOK, Calls
<1>3. ASSUME NEW c \in Admins, reissue(c) PROVE OneCall'
  BY <1>0, <1>3 DEF reissue, Goto, OneCall, Active, TypeOK, Calls, AdminsInTurn
<1>4. ASSUME NEW c \in Calls, onCredentialIssued(c) PROVE OneCall'
  BY <1>0, <1>4 DEF onCredentialIssued, Throw, Idle, OneCall, Active, TypeOK
<1>5. ASSUME NEW c \in Calls, anchorBroadcast(c) PROVE OneCall'
  BY <1>0, <1>5 DEF anchorBroadcast, Fails, OneCall, Active, TypeOK
<1>6. ASSUME NEW c \in Calls, anchorRecord(c) PROVE OneCall'
  BY <1>0, <1>6 DEF anchorRecord, Goto, OneCall, Active, TypeOK
<1>7. ASSUME NEW c \in Calls, anchorLookup(c) PROVE OneCall'
  BY <1>0, <1>7 DEF anchorLookup, Fails, OneCall, Active, TypeOK
<1>8. ASSUME NEW c \in Calls, recordIssuance(c) PROVE OneCall'
  BY <1>0, <1>8
     DEF recordIssuance, Idle, OneCall, Active, TypeOK, ResultsOnChain, CallOnChain
<1>9. ASSUME NEW c \in Calls, deliver(c) PROVE OneCall'
  BY <1>0, <1>9 DEF deliver, Throw, Idle, OneCall, Active, TypeOK
<1>10. CASE include \/ index \/ verifyCredential \/ acceptCredential \/ UNCHANGED vars
  <2>1. UNCHANGED <<call, issuance, xchg, sent>>
    BY <1>10 DEF include, index, verifyCredential, acceptCredential, vars
  <2> QED
    BY <2>1 DEF OneCall, Active
<1>11. CASE completeExchange
  BY <1>11 DEF completeExchange, OneCall, Active
<1> QED
  BY <1>1, <1>2, <1>3, <1>4, <1>5, <1>6, <1>7, <1>8, <1>9, <1>10, <1>11
     DEF Next, CallStep

\* While admin calls do not overlap, a record that says FAILED belongs to a
\* credential that was never sent, so validateFlow may issue it again.
THEOREM FailedNeverDelivered == Spec /\ []AdminsInTurn => []FailedIsUndelivered
<1>1. Init => OneCall
  BY OneCallInit
<1>2. AdminsInTurn' /\ AnchoringInv /\ OneCall /\ [Next]_vars => OneCall'
  BY OneCallNext
<1>3. OneCall => FailedIsUndelivered
  BY DEF OneCall, FailedIsUndelivered
<1> QED
  BY <1>1, <1>2, <1>3, AnchoringInvariance, PTL DEF Spec

\* While admin calls do not overlap, an anchoring that is SUBMITTED on the
\* record is looked up and never broadcast a second time (comment of anchor).
THEOREM SubmittedNotBroadcastAgain == Spec /\ []AdminsInTurn => NotBroadcastTwice
<1>1. Init => OneCall
  BY OneCallInit
<1>2. AdminsInTurn' /\ AnchoringInv /\ OneCall /\ [Next]_vars => OneCall'
  BY OneCallNext
<1>3. AnchoringInv /\ OneCall /\ [Next]_vars => [NotBroadcastTwiceStep]_vars
  <2> SUFFICES ASSUME AnchoringInv, OneCall, Next,
                      NEW t \in Txs, tx[t] = "none", tx'[t] = "pool"
               PROVE  issuance.status # "SUBMITTED"
    BY DEF NotBroadcastTwiceStep
  <2>1. PICK c \in Calls : anchorBroadcast(c)
    <3>1. tx' # tx
      OBVIOUS
    <3>2. ~include
      BY DEF include, AnchoringInv, TypeOK
    <3> QED
      BY <3>1, <3>2
         DEF Next, CallStep, autoIssue, resumeIssuanceSubmissions, reissue,
             onCredentialIssued, anchorRecord, anchorLookup, recordIssuance, deliver,
             index, verifyCredential, acceptCredential, completeExchange
  <2> QED
    BY <2>1 DEF anchorBroadcast, OneCall, Active
<1> QED
  BY <1>1, <1>2, <1>3, AnchoringInvariance, PTL DEF Spec, NotBroadcastTwice

(***************************************************************************)
(* The protocol of the two parties.                                        *)
(***************************************************************************)

FlowRecords == [state : Round!VtFlowState, thread : 0..MaxStarts + 1, xchg : 0..MaxExchanges]
ExchangeStates ==
    {"none", "OfferReceived", "RequestSent", "Declined", "CredentialReceived", "Done",
     "OfferSent", "RequestReceived", "CredentialIssued", "Unanchored", "Abandoned"}
ExchangeRecords == [state : ExchangeStates, parent : 0..MaxStarts + 1]

ExchangeTypes == {"offer", "request", "decline", "credential", "ack"}
PlainTypes ==
    {"onboarding-request", "issuance-request", "oob-link", "validating",
     "credential-state-change", "problem-report"}
Codes == DOMAIN Round!VT_FLOW_ERROR_INFO
FlowMessages ==
    [to : Round!Parties, type : ExchangeTypes \cup PlainTypes, thread : 0..MaxStarts + 1,
     x : 0..MaxExchanges, code : Codes \cup {"none"}, n : 0..MaxStarts + 1]
\* The messages of the flow itself, and those of an exchange below it.
PlainMessages ==
    {m \in FlowMessages : m.type \in PlainTypes /\ (m.type = "problem-report" => m.code \in Codes)}
ExchangeMessages == {m \in FlowMessages : m.type \in ExchangeTypes /\ m.x \in Round!Exchanges}

PlainCalls == {"acceptOR", "acceptIR", "offer", "acceptOffer"}
ExchangeCalls == {"attach", "issue", "verify"}
FlowCalls == [who : Round!Parties, call : PlainCalls \cup ExchangeCalls, x : 0..MaxExchanges]
PlainTodo == {c \in FlowCalls : c.call \in PlainCalls}
ExchangeTodo == {c \in FlowCalls : c.call \in ExchangeCalls /\ c.x \in Round!Exchanges}

RoundTypes ==
    /\ rec \in [Round!Parties -> FlowRecords]
    /\ xs \in [Round!Parties -> [Round!Exchanges -> ExchangeRecords]]
    /\ msgs \subseteq PlainMessages \cup ExchangeMessages
    /\ todo \subseteq PlainTodo \cup ExchangeTodo
    /\ entry \in Round!PendingEntry \cup {"VALIDATED", "REVOKED"}
    /\ news \in [Round!Parties -> SUBSET {"validated", "revoked"}]
    /\ onboarding \in BOOLEAN /\ starts \in 0..MaxStarts

\* The two records of one exchange, and the pairs of states they go through.
Ends(x) == <<xs["applicant"][x].state, xs["validator"][x].state>>
EndPairs ==
    {<<"none", "none">>, <<"none", "OfferSent">>, <<"OfferReceived", "OfferSent">>,
     <<"RequestSent", "OfferSent">>, <<"RequestSent", "RequestReceived">>,
     <<"RequestSent", "CredentialIssued">>, <<"RequestSent", "Unanchored">>,
     <<"Declined", "OfferSent">>, <<"Declined", "Abandoned">>,
     <<"CredentialReceived", "CredentialIssued">>, <<"Done", "CredentialIssued">>,
     <<"Done", "Done">>}

\* What a message of an exchange, or a call that works on one, says of it.
MessageFits(m) ==
    /\ m.type = "offer" => Ends(m.x) = <<"none", "OfferSent">>
    /\ m.type = "request" => Ends(m.x) = <<"RequestSent", "OfferSent">>
    /\ m.type = "decline" => Ends(m.x) = <<"Declined", "OfferSent">>
    /\ m.type = "credential" => Ends(m.x) = <<"RequestSent", "CredentialIssued">>
    /\ m.type = "ack" => Ends(m.x) = <<"Done", "CredentialIssued">>
CallFits(c) ==
    /\ c.call = "issue" =>
          c.who = "validator" /\ Ends(c.x) = <<"RequestSent", "RequestReceived">>
    /\ c.call = "verify" =>
          c.who = "applicant" /\ Ends(c.x) = <<"CredentialReceived", "CredentialIssued">>

\* An exchange goes through its states once, with one message of a type at most.
ExchangesInv ==
    /\ \A x \in Round!Exchanges : Ends(x) \in EndPairs
    /\ \A m \in msgs : MessageFits(m)
    /\ \A m, n \in msgs : m.type \in ExchangeTypes /\ m.type = n.type /\ m.x = n.x => m = n
    /\ \A c \in todo : CallFits(c)

\* Before the entry of an onboarding is VALIDATED for the first time nobody has
\* been told anything, and nothing that belongs to a credential exists.
AfterValidation ==
    {"VALIDATED", "VALIDATED_PENDING_CLAIMS", "CRED_OFFERED", "COMPLETED", "CRED_REVOKED"}
NotYetValid == onboarding /\ entry = "PENDING"
BeforeInv ==
    NotYetValid =>
        /\ \A p \in Round!Parties : news[p] = {} /\ rec[p].state \notin AfterValidation
        /\ \A x \in Round!Exchanges : Ends(x) = <<"none", "none">>
        /\ \A m \in msgs : m.type \notin ExchangeTypes \cup {"credential-state-change"}
        /\ \A c \in todo : c.call \notin ExchangeCalls \cup {"acceptOffer"}

RoundInv == RoundTypes /\ ExchangesInv /\ BeforeInv /\ Round!CompletedThisRound

\* The invariant holds when the two parties have not met yet.
LEMMA RoundInit == Round!Init => RoundInv
<1> SUFFICES ASSUME Round!Init PROVE RoundInv
  OBVIOUS
<1> USE OnboardingBounds
<1>1. RoundTypes
  BY DEF RoundTypes, Round!Init, Round!NoRecord, Round!NoExchange, FlowRecords, Round!VtFlowState,
         ExchangeRecords, ExchangeStates, Round!PendingEntry, Round!Parties
<1>2. \A x \in Round!Exchanges : Ends(x) = <<"none", "none">>
  BY DEF Round!Init, Ends, Round!NoExchange, Round!Parties
<1>3. ExchangesInv
  BY <1>2 DEF ExchangesInv, EndPairs, Round!Init
<1>4. BeforeInv
  BY <1>2 DEF BeforeInv, Round!Init, Round!NoRecord, AfterValidation
<1>5. Round!CompletedThisRound
  BY DEF Round!CompletedThisRound, Round!Init, Round!NoRecord
<1> QED
  BY <1>1, <1>3, <1>4, <1>5 DEF RoundInv

\* What a step does that moves the flow and no exchange.
FlowStep ==
    /\ rec' \in [Round!Parties -> FlowRecords]
    /\ xs' \in [Round!Parties -> [Round!Exchanges -> ExchangeRecords]]
    /\ \A p \in Round!Parties, x \in Round!Exchanges :
          /\ xs'[p][x].state = xs[p][x].state
          /\ xs'[p][x].parent = xs[p][x].parent \/ rec'[p].state # "COMPLETED"
    /\ \A p \in Round!Parties :
          rec'[p].state = "COMPLETED" =>
              rec[p].state = "COMPLETED" /\ rec'[p].thread = rec[p].thread
    /\ msgs' \subseteq msgs \cup PlainMessages
    /\ todo' \subseteq todo \cup PlainTodo \cup {c \in ExchangeTodo : c.call = "attach"}
    /\ entry' \in Round!PendingEntry \cup {"VALIDATED", "REVOKED"}
    /\ news' \in [Round!Parties -> SUBSET {"validated", "revoked"}]
    /\ onboarding' = onboarding /\ starts' \in 0..MaxStarts
    /\ NotYetValid' =>
          /\ NotYetValid
          /\ \A p \in Round!Parties : news'[p] = {} /\ rec'[p].state \notin AfterValidation
          /\ \A m \in msgs' \ msgs : m.type # "credential-state-change"
          /\ \A c \in todo' \ todo : c.call \notin {"acceptOffer", "attach"}

\* Such a step keeps the invariant.
LEMMA FlowStepInv == RoundInv /\ FlowStep => RoundInv'
<1> SUFFICES ASSUME RoundInv, FlowStep PROVE RoundInv'
  OBVIOUS
<1>0. RoundTypes /\ ExchangesInv /\ BeforeInv /\ Round!CompletedThisRound
  BY DEF RoundInv
<1>1. RoundTypes'
  BY <1>0 DEF RoundTypes, FlowStep
<1>2. \A x \in Round!Exchanges : Ends(x)' = Ends(x)
  BY DEF Ends, FlowStep, Round!Parties
<1>3. ExchangesInv'
  <2>1. \A m \in msgs' : m \in msgs \/ m.type \notin ExchangeTypes
    BY DEF FlowStep, PlainMessages, PlainTypes, ExchangeTypes
  <2>2. \A m \in msgs' : MessageFits(m)'
    <3> SUFFICES ASSUME NEW m \in msgs' PROVE MessageFits(m)'
      OBVIOUS
    <3>1. CASE m.type \in ExchangeTypes
      <4>1. m \in msgs /\ m.x \in Round!Exchanges
        BY <1>0, <2>1, <3>1 DEF RoundTypes, PlainMessages, PlainTypes, ExchangeTypes, ExchangeMessages
      <4> QED
        BY <1>0, <1>2, <4>1 DEF ExchangesInv, MessageFits
    <3>2. CASE m.type \notin ExchangeTypes
      BY <3>2 DEF MessageFits, ExchangeTypes
    <3> QED
      BY <3>1, <3>2
  <2>3. \A c \in todo' : CallFits(c)'
    <3> SUFFICES ASSUME NEW c \in todo' PROVE CallFits(c)'
      OBVIOUS
    <3>1. CASE c.call \in {"issue", "verify"}
      <4>1. c \in todo /\ c.x \in Round!Exchanges
        BY <1>0, <3>1 DEF RoundTypes, FlowStep, PlainTodo, PlainCalls, ExchangeTodo
      <4> QED
        BY <1>0, <1>2, <4>1 DEF ExchangesInv, CallFits
    <3>2. CASE c.call \notin {"issue", "verify"}
      BY <3>2 DEF CallFits
    <3> QED
      BY <3>1, <3>2
  <2> QED
    BY <1>0, <1>2, <2>1, <2>2, <2>3 DEF ExchangesInv
<1>4. BeforeInv'
  <2> SUFFICES ASSUME NotYetValid' PROVE BeforeInv'
    BY DEF BeforeInv
  <2>1. NotYetValid
    BY DEF FlowStep
  <2>2. \A p \in Round!Parties : news'[p] = {} /\ rec'[p].state \notin AfterValidation
    BY DEF FlowStep
  <2>3. \A x \in Round!Exchanges : Ends(x)' = <<"none", "none">>
    BY <1>0, <1>2, <2>1 DEF BeforeInv
  <2>4. \A m \in msgs' : m.type \notin ExchangeTypes \cup {"credential-state-change"}
    BY <1>0, <2>1 DEF BeforeInv, FlowStep, PlainMessages, PlainTypes, ExchangeTypes
  <2>5. \A c \in todo' : c.call \notin ExchangeCalls \cup {"acceptOffer"}
    BY <1>0, <2>1 DEF BeforeInv, FlowStep, PlainTodo, PlainCalls, ExchangeTodo, ExchangeCalls
  <2> QED
    BY <2>2, <2>3, <2>4, <2>5 DEF BeforeInv
<1>5. Round!CompletedThisRound'
  <2> SUFFICES ASSUME NEW p \in Round!Parties, rec'[p].state = "COMPLETED"
               PROVE  \E x \in Round!Exchanges :
                        /\ xs'["applicant"][x].state = "Done" /\ xs'[p][x].state = "Done"
                        /\ xs'[p][x].parent = rec'[p].thread
    BY DEF Round!CompletedThisRound
  <2>1. rec[p].state = "COMPLETED" /\ rec'[p].thread = rec[p].thread
    BY DEF FlowStep
  <2>2. PICK x \in Round!Exchanges :
            /\ xs["applicant"][x].state = "Done" /\ xs[p][x].state = "Done"
            /\ xs[p][x].parent = rec[p].thread
    BY <1>0, <2>1 DEF Round!CompletedThisRound
  <2> QED
    BY <2>1, <2>2 DEF FlowStep, Round!Parties
<1> QED
  BY <1>1, <1>3, <1>4, <1>5 DEF RoundInv


\* updateState changes the state of one record, and sets off plain calls.
LEMMA UpdateState ==
    ASSUME rec \in [Round!Parties -> FlowRecords], NEW p \in Round!Parties, NEW r \in FlowRecords,
           NEW s \in Round!VtFlowState, NEW calls0, Round!updateState(p, r, s, calls0)
    PROVE  /\ rec' \in [Round!Parties -> FlowRecords]
           /\ rec'[p] \in FlowRecords
           /\ rec'[p].state = s /\ rec'[p].thread = r.thread /\ rec'[p].xchg = r.xchg
           /\ \A q \in Round!Parties \ {p} : rec'[q] = rec[q]
           /\ \A c \in todo' \ calls0 : c \in PlainTodo /\ (c.call = "acceptOffer" => s = "CRED_OFFERED")
<1>1. rec' = [rec EXCEPT ![p] = [r EXCEPT !.state = s]]
  BY DEF Round!updateState
<1>2. [r EXCEPT !.state = s] \in FlowRecords
  BY DEF FlowRecords
<1>3. /\ [r EXCEPT !.state = s].state = s /\ [r EXCEPT !.state = s].thread = r.thread
      /\ [r EXCEPT !.state = s].xchg = r.xchg
  BY DEF FlowRecords
<1>4. \A c \in todo' \ calls0 : c \in PlainTodo /\ (c.call = "acceptOffer" => s = "CRED_OFFERED")
  <2> SUFFICES ASSUME NEW c \in todo' \ calls0
               PROVE  c \in PlainTodo /\ (c.call = "acceptOffer" => s = "CRED_OFFERED")
    OBVIOUS
  <2>1. c \in Round!AutoChain(p, r.state, s)
    BY DEF Round!updateState
  <2>2. c.who = p /\ c.x = 0 /\ c.call \in PlainCalls /\ (c.call = "acceptOffer" => s = "CRED_OFFERED")
        /\ c = [who |-> c.who, call |-> c.call, x |-> c.x]
    BY <2>1 DEF Round!AutoChain, Round!Call, PlainCalls
  <2> QED
    BY <2>2, OnboardingBounds DEF PlainTodo, FlowCalls
<1> QED
  BY <1>1, <1>2, <1>3, <1>4

\* A message of the flow is well typed.
LEMMA PlainMsg ==
    ASSUME NEW to \in Round!Parties, NEW type \in PlainTypes \ {"problem-report"},
           NEW thread \in 0..MaxStarts + 1
    PROVE  Round!Msg(to, type, thread) \in PlainMessages /\ Round!Msg(to, type, thread).type = type
  BY OnboardingBounds DEF Round!Msg, PlainMessages, FlowMessages, PlainTypes, ExchangeTypes

\* So is a problem report.
LEMMA PlainReport ==
    ASSUME NEW to \in Round!Parties, NEW thread \in 0..MaxStarts + 1, NEW code \in Codes
    PROVE  /\ Round!Report(to, code, thread) \in PlainMessages
           /\ Round!Report(to, code, thread).type = "problem-report"
  BY OnboardingBounds DEF Round!Msg, Round!Report, PlainMessages, FlowMessages, PlainTypes, ExchangeTypes

\* And a request with the number of its round.
LEMMA RequestMsg ==
    ASSUME NEW thread \in 0..MaxStarts + 1, NEW n \in 0..MaxStarts + 1
    PROVE  LET m == [Round!Msg("validator", "onboarding-request", thread) EXCEPT !.n = n]
           IN  m \in PlainMessages /\ m.type = "onboarding-request"
  BY OnboardingBounds
     DEF Round!Msg, PlainMessages, FlowMessages, PlainTypes, ExchangeTypes, Round!Parties

\* The other conjuncts of FlowStep follow when only the record of p changes.
LEMMA OneRecord ==
    ASSUME RoundInv, NEW p \in Round!Parties, rec' \in [Round!Parties -> FlowRecords],
           \A q \in Round!Parties \ {p} : rec'[q] = rec[q],
           \/ rec'[p].state # "COMPLETED"
           \/ rec'[p].state = rec[p].state /\ rec'[p].thread = rec[p].thread,
           NotYetValid => rec'[p].state \notin AfterValidation,
           xs' = xs, entry' = entry, onboarding' = onboarding, starts' \in 0..MaxStarts,
           news' \in [Round!Parties -> SUBSET {"validated", "revoked"}],
           \A q \in Round!Parties : news'[q] \subseteq news[q],
           \A m \in msgs' \ msgs : m \in PlainMessages /\ (NotYetValid => m.type # "credential-state-change"),
           \A c \in todo' \ todo :
              c \in PlainTodo /\ (NotYetValid => c.call # "acceptOffer")
    PROVE  FlowStep
<1>0. RoundTypes /\ BeforeInv
  BY DEF RoundInv
<1>1. NotYetValid' = NotYetValid
  BY DEF NotYetValid
<1>2. NotYetValid => \A q \in Round!Parties : news'[q] = {} /\ rec'[q].state \notin AfterValidation
  BY <1>0 DEF BeforeInv
<1>3. \A q \in Round!Parties :
          rec'[q].state = "COMPLETED" => rec[q].state = "COMPLETED" /\ rec'[q].thread = rec[q].thread
  OBVIOUS
<1>4. \A c \in PlainTodo : c.call # "attach"
  BY DEF PlainTodo, PlainCalls
<1> QED
  BY <1>0, <1>1, <1>2, <1>3, <1>4 DEF FlowStep, RoundTypes

\* The flow of one party moves by updateState.
LEMMA MoveStep ==
    ASSUME RoundInv, NEW p \in Round!Parties, NEW r \in FlowRecords, NEW s \in Round!VtFlowState,
           NEW calls0, Round!updateState(p, r, s, calls0),
           s # "COMPLETED" \/ (s = rec[p].state /\ r.thread = rec[p].thread),
           NotYetValid => s \notin AfterValidation,
           xs' = xs, entry' = entry, onboarding' = onboarding, starts' \in 0..MaxStarts,
           news' \in [Round!Parties -> SUBSET {"validated", "revoked"}],
           \A q \in Round!Parties : news'[q] \subseteq news[q],
           \A m \in msgs' \ msgs : m \in PlainMessages /\ (NotYetValid => m.type # "credential-state-change"),
           \A c \in calls0 \ todo : c \in PlainTodo /\ (NotYetValid => c.call # "acceptOffer")
    PROVE  FlowStep
<1>1. rec \in [Round!Parties -> FlowRecords]
  BY DEF RoundInv, RoundTypes
<1>2. /\ rec' \in [Round!Parties -> FlowRecords] /\ rec'[p].state = s /\ rec'[p].thread = r.thread
      /\ \A q \in Round!Parties \ {p} : rec'[q] = rec[q]
      /\ \A c \in todo' \ calls0 : c \in PlainTodo /\ (c.call = "acceptOffer" => s = "CRED_OFFERED")
  BY <1>1, UpdateState
<1>3. \A c \in todo' \ todo : c \in PlainTodo /\ (NotYetValid => c.call # "acceptOffer")
  BY <1>2 DEF AfterValidation
<1> QED
  BY <1>2, <1>3, OneRecord


\* releaseCredentialExchange, from CRED_OFFERED, forgets the thread of the
\* exchange and nothing else.
LEMMA OneRecordReleased ==
    ASSUME RoundInv, NEW p \in Round!Parties, rec[p].state = "CRED_OFFERED",
           rec' \in [Round!Parties -> FlowRecords],
           \A q \in Round!Parties \ {p} : rec'[q] = rec[q],
           rec'[p].state # "COMPLETED", xs' = Round!Released(p),
           entry' = entry, onboarding' = onboarding, starts' \in 0..MaxStarts, news' = news,
           \A m \in msgs' \ msgs : m \in PlainMessages,
           \A c \in todo' \ todo : c \in PlainTodo
    PROVE  FlowStep
<1>0. RoundTypes /\ BeforeInv
  BY DEF RoundInv
<1>1. ~NotYetValid /\ ~NotYetValid'
  BY <1>0 DEF BeforeInv, AfterValidation, NotYetValid
<1>2. /\ xs' \in [Round!Parties -> [Round!Exchanges -> ExchangeRecords]]
      /\ \A q \in Round!Parties, x \in Round!Exchanges :
            xs'[q][x].state = xs[q][x].state /\ (q # p => xs'[q][x] = xs[q][x])
  <2>1. CASE rec[p].xchg = 0
    BY <1>0, <2>1 DEF Round!Released, RoundTypes
  <2>2. CASE rec[p].xchg # 0
    <3> DEFINE y == rec[p].xchg
    <3>1. y \in Round!Exchanges
      BY <1>0, <2>2, OnboardingBounds DEF RoundTypes, FlowRecords, Round!Exchanges
    <3>2. xs' = [xs EXCEPT ![p][y].parent = 0]
      BY <2>2 DEF Round!Released
    <3>a. xs[p][y] \in ExchangeRecords
      BY <1>0, <3>1 DEF RoundTypes
    <3>3. [xs[p][y] EXCEPT !.parent = 0] \in ExchangeRecords
          /\ [xs[p][y] EXCEPT !.parent = 0].state = xs[p][y].state
      BY <3>a, OnboardingBounds DEF ExchangeRecords
    <3> HIDE DEF y
    <3>4. xs' = [xs EXCEPT ![p] = [xs[p] EXCEPT ![y] = [xs[p][y] EXCEPT !.parent = 0]]]
      BY <1>0, <3>1, <3>2 DEF RoundTypes
    <3> QED
      BY <1>0, <3>1, <3>3, <3>4 DEF RoundTypes
  <2> QED
    BY <2>1, <2>2
<1>3. \A q \in Round!Parties, x \in Round!Exchanges :
          xs'[q][x].parent = xs[q][x].parent \/ rec'[q].state # "COMPLETED"
  BY <1>2
<1>4. \A q \in Round!Parties :
          rec'[q].state = "COMPLETED" => rec[q].state = "COMPLETED" /\ rec'[q].thread = rec[q].thread
  OBVIOUS
<1> QED
  BY <1>0, <1>1, <1>2, <1>3, <1>4 DEF FlowStep, RoundTypes

\* What the invariant says of the record of one party.
LEMMA OfRecord ==
    ASSUME RoundInv, NEW p \in Round!Parties
    PROVE  /\ rec \in [Round!Parties -> FlowRecords] /\ rec[p] \in FlowRecords
           /\ rec[p].state \in Round!VtFlowState /\ rec[p].thread \in 0..MaxStarts + 1
           /\ rec[p].xchg \in 0..MaxExchanges
           /\ NotYetValid => rec[p].state \notin AfterValidation /\ news[p] = {}
           /\ starts \in 0..MaxStarts
           /\ news \in [Round!Parties -> SUBSET {"validated", "revoked"}]
  BY DEF RoundInv, RoundTypes, FlowRecords, BeforeInv

\* The names that the steps use.
LEMMA Names ==
    /\ "applicant" \in Round!Parties /\ "validator" \in Round!Parties
    /\ {"OR_SENT", "AWAITING_OR", "IR_SENT", "AWAITING_IR", "OOB_PENDING", "VALIDATING", "VALIDATED",
        "VALIDATED_PENDING_CLAIMS", "CRED_OFFERED", "COMPLETED", "CRED_REVOKED", "ERROR",
        "TERMINATED_BY_VALIDATOR", "PARTICIPANT_REVOKED"} \subseteq Round!VtFlowState
    /\ {"onboarding-request", "issuance-request", "oob-link", "validating",
        "credential-state-change"} \subseteq PlainTypes \ {"problem-report"}
    /\ Codes = {"InvalidParticipantId", "InvalidParticipantSessionId", "NotAVerifiableService",
                "ValidationRefused", "InternalError", "ParticipantRevoked"}
    /\ 1 \in 0..MaxStarts + 1
  BY OnboardingBounds
     DEF Round!Parties, Round!VtFlowState, Round!VtFlowTerminalStates, PlainTypes, Codes,
         Round!VT_FLOW_ERROR_INFO

\* The calls of the applicant.
LEMMA RequestSteps ==
    RoundInv /\ (Round!sendOnboardingRequest \/ Round!resendOnboardingRequest \/ Round!sendIssuanceRequest)
        => FlowStep
<1> SUFFICES ASSUME RoundInv PROVE
        /\ Round!sendOnboardingRequest => FlowStep
        /\ Round!resendOnboardingRequest => FlowStep
        /\ Round!sendIssuanceRequest => FlowStep
  OBVIOUS
<1> USE OnboardingBounds, Names
<1> DEFINE p == "applicant"
<1>r. /\ rec \in [Round!Parties -> FlowRecords] /\ rec[p] \in FlowRecords
      /\ rec[p].thread \in 0..MaxStarts + 1 /\ starts \in 0..MaxStarts
      /\ NotYetValid => rec[p].state \notin AfterValidation
      /\ news \in [Round!Parties -> SUBSET {"validated", "revoked"}]
  BY OfRecord
<1>s. {"OR_SENT", "IR_SENT"} \cap (AfterValidation \cup {"COMPLETED"}) = {}
  BY DEF AfterValidation
<1>1. ASSUME Round!sendOnboardingRequest PROVE FlowStep
  <2> DEFINE r == [rec[p] EXCEPT !.thread = starts + 1]
             m == [Round!Msg("validator", "onboarding-request", starts + 1) EXCEPT !.n = starts + 1]
  <2>1. starts + 1 \in 0..MaxStarts + 1 /\ starts' \in 0..MaxStarts /\ r \in FlowRecords
    BY <1>1, <1>r DEF Round!sendOnboardingRequest, FlowRecords
  <2>2. Round!updateState(p, r, "OR_SENT", todo)
    BY <1>1 DEF Round!sendOnboardingRequest
  <2>3. msgs' = msgs \cup {m} /\ UNCHANGED <<xs, entry, news, onboarding>>
    BY <1>1 DEF Round!sendOnboardingRequest, Round!chain
  <2>4. m \in PlainMessages /\ m.type = "onboarding-request"
    BY <2>1, RequestMsg
  <2> HIDE DEF p, r, m
  <2> QED
    BY <1>r, <1>s, <2>1, <2>2, <2>3, <2>4, MoveStep DEF p
<1>2. ASSUME Round!resendOnboardingRequest PROVE FlowStep
  <2> DEFINE m == [Round!Msg("validator", "onboarding-request", rec[p].thread) EXCEPT !.n = starts + 1]
             r == [rec[p] EXCEPT !.xchg = 0]
  <2>1. starts + 1 \in 0..MaxStarts + 1 /\ starts' \in 0..MaxStarts /\ r \in FlowRecords
    BY <1>2, <1>r DEF Round!resendOnboardingRequest, FlowRecords
  <2>2. msgs' = msgs \cup {m} /\ UNCHANGED <<entry, news, onboarding>>
    BY <1>2 DEF Round!resendOnboardingRequest, Round!chain
  <2>3. m \in PlainMessages /\ m.type = "onboarding-request"
    BY <2>1, <1>r, RequestMsg
  <2>4. CASE rec[p].state = "CRED_OFFERED"
    <3>1. Round!updateState(p, r, "VALIDATING", todo) /\ xs' = Round!Released(p)
      BY <1>2, <2>4 DEF Round!resendOnboardingRequest
    <3> HIDE DEF r, m
    <3>2. /\ rec' \in [Round!Parties -> FlowRecords] /\ rec'[p].state = "VALIDATING"
          /\ \A q \in Round!Parties \ {p} : rec'[q] = rec[q]
          /\ \A c \in todo' \ todo : c \in PlainTodo
      BY <1>r, <2>1, <3>1, UpdateState
    <3> QED
      BY <2>1, <2>2, <2>3, <2>4, <3>1, <3>2, OneRecordReleased
  <2>5. CASE rec[p].state # "CRED_OFFERED"
    <3>1. UNCHANGED <<rec, xs, todo>>
      BY <1>2, <2>5 DEF Round!resendOnboardingRequest
    <3> HIDE DEF m
    <3> QED
      BY <1>r, <2>1, <2>2, <2>3, <3>1, OneRecord
  <2> QED
    BY <2>4, <2>5
<1>3. ASSUME Round!sendIssuanceRequest PROVE FlowStep
  <2> DEFINE r == [Round!NoRecord EXCEPT !.thread = 1]
             m == Round!Msg("validator", "issuance-request", 1)
  <2>1. r \in FlowRecords
    BY DEF Round!NoRecord, FlowRecords, Round!VtFlowState
  <2>2. Round!updateState(p, r, "IR_SENT", todo)
    BY <1>3 DEF Round!sendIssuanceRequest
  <2>3. msgs' = msgs \cup {m} /\ UNCHANGED <<xs, entry, news, onboarding, starts>>
    BY <1>3 DEF Round!sendIssuanceRequest, Round!chain, Round!bounds
  <2>4. m \in PlainMessages /\ m.type = "issuance-request"
    BY PlainMsg
  <2> HIDE DEF p, r, m
  <2> QED
    BY <1>r, <1>s, <2>1, <2>2, <2>3, <2>4, MoveStep DEF p
<1> QED
  BY <1>1, <1>2, <1>3


\* A message of the flow that was received.
LEMMA OfMessage ==
    ASSUME RoundInv, NEW m \in msgs, m.type \in PlainTypes
    PROVE  /\ m \in PlainMessages /\ m.to \in Round!Parties /\ m.thread \in 0..MaxStarts + 1
           /\ m.type = "problem-report" => m.code \in Codes
           /\ NotYetValid => m.type # "credential-state-change"
  BY DEF RoundInv, RoundTypes, BeforeInv, PlainMessages, ExchangeMessages, FlowMessages, PlainTypes,
         ExchangeTypes

\* The validator receives a request.
LEMMA ReceiveRequestSteps ==
    ASSUME RoundInv, NEW m \in msgs,
           \/ m.type = "onboarding-request" /\ Round!processReceiveOnboardingRequest(m)
           \/ m.type = "issuance-request" /\ Round!processReceiveIssuanceRequest(m),
           UNCHANGED <<entry, news, onboarding, starts>>
    PROVE  FlowStep
<1> USE OnboardingBounds, Names
<1> DEFINE p == "validator"
           r0 == IF rec[p].state = "NONE" THEN [Round!NoRecord EXCEPT !.thread = m.thread] ELSE rec[p]
           r == [rec[p] EXCEPT !.thread = m.thread]
           r1 == [Round!NoRecord EXCEPT !.thread = m.thread]
<1>m. m \in PlainMessages /\ m.thread \in 0..MaxStarts + 1
  BY OfMessage DEF PlainTypes
<1>r. /\ rec \in [Round!Parties -> FlowRecords] /\ rec[p] \in FlowRecords
      /\ starts \in 0..MaxStarts
      /\ NotYetValid => rec[p].state \notin AfterValidation
      /\ news \in [Round!Parties -> SUBSET {"validated", "revoked"}]
  BY OfRecord
<1>0. /\ r \in FlowRecords /\ r.state = rec[p].state /\ r.thread = m.thread /\ r1 \in FlowRecords
      /\ r0 \in FlowRecords
  BY <1>m, <1>r DEF FlowRecords, Round!NoRecord, Round!VtFlowState
<1>s. {"ERROR", "AWAITING_OR", "AWAITING_IR"} \cap (AfterValidation \cup {"COMPLETED"}) = {}
  BY DEF AfterValidation
<1>1. ASSUME Round!RefuseRequest(m) PROVE FlowStep
  <2> DEFINE n == Round!Report("applicant", "NotAVerifiableService", m.thread)
  <2>1. msgs' = (msgs \ {m}) \cup {n} /\ UNCHANGED xs
    BY <1>1 DEF Round!RefuseRequest
  <2>2. n \in PlainMessages /\ n.type = "problem-report"
    BY <1>m, PlainReport
  <2>3. CASE UNCHANGED <<rec, todo>>
    <3> HIDE DEF p, r, r0, r1, n
    <3> QED
      BY <1>r, <2>1, <2>2, <2>3, OneRecord DEF p
  <2>4. CASE Round!updateState(p, r0, "ERROR", todo)
    <3> HIDE DEF p, r, r0, r1, n
    <3> QED
      BY <1>0, <1>r, <1>s, <2>1, <2>2, <2>4, MoveStep DEF p
  <2> QED
    BY <1>1, <2>3, <2>4 DEF Round!RefuseRequest
<1>2. ASSUME Round!RequestForEndedFlow(m) PROVE FlowStep
  <2> DEFINE n == Round!Report("applicant", "InvalidParticipantSessionId", m.thread)
  <2>1. msgs' = (msgs \ {m}) \cup {n} /\ UNCHANGED <<rec, xs, todo>>
    BY <1>2 DEF Round!RequestForEndedFlow
  <2>2. n \in PlainMessages /\ n.type = "problem-report"
    BY <1>m, PlainReport
  <2> HIDE DEF p, r, r0, r1, n
  <2> QED
    BY <1>r, <2>1, <2>2, OneRecord DEF p
<1>3. ASSUME msgs' = msgs \ {m}, r.state = "NONE" \/ Round!isVtFlowRenewable(r),
             Round!updateState(p, r, "AWAITING_OR", todo), UNCHANGED xs
      PROVE  FlowStep
  <2> HIDE DEF p, r, r0, r1
  <2> QED
    BY <1>0, <1>3, <1>r, <1>s, MoveStep DEF p
<1>4. ASSUME msgs' = msgs \ {m}, r.state = "CRED_OFFERED", xs' = Round!Released(p),
             Round!updateState(p, [r EXCEPT !.xchg = 0], "VALIDATED", todo)
      PROVE  FlowStep
  <2> DEFINE r2 == [r EXCEPT !.xchg = 0]
  <2>1. r2 \in FlowRecords
    <3> HIDE DEF r
    <3> QED
      BY <1>0 DEF FlowRecords
  <2>2. rec[p].state = "CRED_OFFERED" /\ Round!updateState(p, r2, "VALIDATED", todo)
    BY <1>0, <1>4
  <2> HIDE DEF r, r0, r1, r2
  <2>3. /\ rec' \in [Round!Parties -> FlowRecords] /\ rec'[p].state = "VALIDATED"
        /\ \A q \in Round!Parties \ {p} : rec'[q] = rec[q]
        /\ \A c \in todo' \ todo : c \in PlainTodo
    BY <1>r, <2>1, <2>2, UpdateState
  <2> QED
    BY <1>4, <1>r, <2>2, <2>3, OneRecordReleased
<1>5. ASSUME msgs' = msgs \ {m}, ~(r.state = "NONE" \/ Round!isVtFlowRenewable(r)),
             rec' = [rec EXCEPT ![p] = r],
             todo' = todo \cup (IF r.state = "AWAITING_OR"
                                THEN {Round!Call("validator", "acceptOR", 0)} ELSE {}),
             UNCHANGED xs
      PROVE  FlowStep
  <2>1. Round!Call("validator", "acceptOR", 0) \in PlainTodo
        /\ Round!Call("validator", "acceptOR", 0).call = "acceptOR"
    BY DEF Round!Call, PlainTodo, FlowCalls, PlainCalls
  <2>2. rec'[p].state = rec[p].state /\ rec'[p].state # "COMPLETED"
    BY <1>0, <1>5, <1>r DEF Round!isVtFlowRenewable
  <2>3. rec' \in [Round!Parties -> FlowRecords] /\ \A q \in Round!Parties \ {p} : rec'[q] = rec[q]
    BY <1>0, <1>5, <1>r
  <2>4. \A c \in todo' \ todo : c \in PlainTodo /\ c.call # "acceptOffer"
    BY <1>5, <2>1
  <2> HIDE DEF p, r, r0, r1
  <2> QED
    BY <1>5, <1>r, <2>2, <2>3, <2>4, OneRecord DEF p
<1>6. ASSUME msgs' = msgs \ {m}, Round!updateState(p, r1, "AWAITING_IR", todo), UNCHANGED xs
      PROVE  FlowStep
  <2> HIDE DEF p, r, r0, r1
  <2> QED
    BY <1>0, <1>6, <1>r, <1>s, MoveStep DEF p
<1>7. CASE Round!processReceiveOnboardingRequest(m)
  <2>1. CASE /\ r.state \notin Round!VtFlowTerminalStates /\ msgs' = msgs \ {m}
             /\ r.state = "NONE" \/ Round!isVtFlowRenewable(r)
             /\ Round!updateState(p, r, "AWAITING_OR", todo) /\ UNCHANGED xs
    BY <1>3, <2>1
  <2>2. CASE /\ msgs' = msgs \ {m} /\ r.state = "CRED_OFFERED" /\ xs' = Round!Released(p)
             /\ Round!updateState(p, [r EXCEPT !.xchg = 0], "VALIDATED", todo)
    BY <1>4, <2>2
  <2>3. CASE /\ msgs' = msgs \ {m} /\ ~(r.state = "NONE" \/ Round!isVtFlowRenewable(r))
             /\ rec' = [rec EXCEPT ![p] = r]
             /\ todo' = todo \cup (IF r.state = "AWAITING_OR"
                                   THEN {Round!Call("validator", "acceptOR", 0)} ELSE {})
             /\ UNCHANGED xs
    BY <1>5, <2>3
  <2> QED
    BY <1>1, <1>2, <1>7, <2>1, <2>2, <2>3 DEF Round!processReceiveOnboardingRequest
<1>8. CASE Round!processReceiveIssuanceRequest(m)
  BY <1>1, <1>2, <1>6, <1>8 DEF Round!processReceiveIssuanceRequest
<1> QED
  BY <1>7, <1>8

\* The other messages of the flow.
LEMMA ReceiveFlowSteps ==
    ASSUME RoundInv, NEW m \in msgs,
           \/ Round!processReceiveOobLink(m) \/ Round!processReceiveValidating(m)
           \/ Round!processReceiveCredentialStateChange(m) \/ Round!processReceiveProblemReport(m),
           UNCHANGED <<entry, news, onboarding, starts>>
    PROVE  FlowStep
<1> USE OnboardingBounds, Names
<1>1. ASSUME m.type \in PlainTypes, NEW p \in Round!Parties, NEW s \in Round!VtFlowState,
             s # "COMPLETED", NotYetValid => s \notin AfterValidation,
             msgs' = msgs \ {m}, UNCHANGED xs,
             Round!updateState(p, rec[p], s, todo) \/ UNCHANGED <<rec, todo>>
      PROVE  FlowStep
  <2>1. /\ rec \in [Round!Parties -> FlowRecords] /\ rec[p] \in FlowRecords
        /\ starts \in 0..MaxStarts
        /\ NotYetValid => rec[p].state \notin AfterValidation
        /\ news \in [Round!Parties -> SUBSET {"validated", "revoked"}]
    BY OfRecord
  <2>2. CASE Round!updateState(p, rec[p], s, todo)
    BY <1>1, <2>1, <2>2, MoveStep
  <2>3. CASE UNCHANGED <<rec, todo>>
    BY <1>1, <2>1, <2>3, OneRecord
  <2> QED
    BY <1>1, <2>2, <2>3
<1>2. CASE Round!processReceiveOobLink(m)
  <2>1. "OOB_PENDING" # "COMPLETED" /\ "OOB_PENDING" \notin AfterValidation /\ m.type \in PlainTypes
    BY <1>2 DEF AfterValidation, Round!processReceiveOobLink, PlainTypes
  <2>2. Round!updateState("applicant", rec["applicant"], "OOB_PENDING", todo) \/ UNCHANGED <<rec, todo>>
    BY <1>2 DEF Round!processReceiveOobLink
  <2>3. msgs' = msgs \ {m} /\ UNCHANGED xs
    BY <1>2 DEF Round!processReceiveOobLink
  <2> QED
    BY <1>1, <2>1, <2>2, <2>3
<1>3. CASE Round!processReceiveValidating(m)
  <2>1. "VALIDATING" # "COMPLETED" /\ "VALIDATING" \notin AfterValidation /\ m.type \in PlainTypes
    BY <1>3 DEF AfterValidation, Round!processReceiveValidating, PlainTypes
  <2>2. Round!updateState("applicant", rec["applicant"], "VALIDATING", todo) \/ UNCHANGED <<rec, todo>>
    BY <1>3 DEF Round!processReceiveValidating
  <2>3. msgs' = msgs \ {m} /\ UNCHANGED xs
    BY <1>3 DEF Round!processReceiveValidating
  <2> QED
    BY <1>1, <2>1, <2>2, <2>3
<1>4. CASE Round!processReceiveCredentialStateChange(m)
  <2>1. m.type \in PlainTypes /\ m.type = "credential-state-change" /\ "CRED_REVOKED" # "COMPLETED"
    BY <1>4 DEF Round!processReceiveCredentialStateChange, PlainTypes
  <2>2. ~NotYetValid
    BY <2>1, OfMessage
  <2>3. Round!updateState("applicant", rec["applicant"], "CRED_REVOKED", todo) \/ UNCHANGED <<rec, todo>>
    BY <1>4 DEF Round!processReceiveCredentialStateChange
  <2>4. msgs' = msgs \ {m} /\ UNCHANGED xs
    BY <1>4 DEF Round!processReceiveCredentialStateChange
  <2> QED
    BY <1>1, <2>1, <2>2, <2>3, <2>4
<1>5. CASE Round!processReceiveProblemReport(m)
  <2> DEFINE s == Round!VT_FLOW_ERROR_INFO[m.code]
             p == m.to
  <2>1. m.type \in PlainTypes /\ m.type = "problem-report" /\ msgs' = msgs \ {m} /\ UNCHANGED xs
    BY <1>5 DEF Round!processReceiveProblemReport, PlainTypes
  <2>2. p \in Round!Parties /\ m.code \in Codes
    BY <2>1, OfMessage
  <2>3. CASE UNCHANGED <<rec, todo>>
    <3>1. "ERROR" # "COMPLETED" /\ "ERROR" \notin AfterValidation
      BY DEF AfterValidation
    <3> QED
      BY <1>1, <2>1, <2>3, <3>1
  <2>4. CASE s # "unchanged" /\ Round!updateState(p, rec[p], s, todo)
    <3>1. s \in {"ERROR", "TERMINATED_BY_VALIDATOR", "PARTICIPANT_REVOKED"}
      BY <2>2, <2>4 DEF Round!VT_FLOW_ERROR_INFO
    <3>2. s \in Round!VtFlowState /\ s # "COMPLETED" /\ s \notin AfterValidation
      BY <3>1 DEF AfterValidation
    <3> HIDE DEF s, p
    <3> QED
      BY <1>1, <2>1, <2>2, <2>4, <3>2
  <2> QED
    BY <1>5, <2>3, <2>4 DEF Round!processReceiveProblemReport
<1> QED
  BY <1>2, <1>3, <1>4, <1>5


\* The calls of the listeners that work on the flow.
LEMMA AutomaticFlowSteps ==
    ASSUME RoundInv, NEW c \in todo,
           \/ Round!acceptOnboardingRequest(c) \/ Round!acceptIssuanceRequest(c)
           \/ Round!offerRefused(c) \/ Round!attachCredentialExchangeRecord(c),
           UNCHANGED <<entry, news, onboarding, starts>>
    PROVE  FlowStep
<1> USE OnboardingBounds, Names
<1> DEFINE p == "validator"
           r == rec[p]
           offer == Round!Call("validator", "offer", 0)
<1>r. /\ rec \in [Round!Parties -> FlowRecords] /\ r \in FlowRecords
      /\ r.thread \in 0..MaxStarts + 1 /\ starts \in 0..MaxStarts
      /\ NotYetValid => r.state \notin AfterValidation
      /\ news \in [Round!Parties -> SUBSET {"validated", "revoked"}]
  BY OfRecord
<1>o. offer \in PlainTodo /\ offer.call = "offer"
  BY DEF Round!Call, PlainTodo, FlowCalls, PlainCalls
<1>1. CASE Round!acceptOnboardingRequest(c)
  <2> DEFINE m == Round!Msg("applicant", "validating", r.thread)
             n == Round!Report("applicant", "InvalidParticipantId", r.thread)
  <2>0. UNCHANGED xs
    BY <1>1 DEF Round!acceptOnboardingRequest
  <2>1. /\ m \in PlainMessages /\ m.type = "validating"
        /\ n \in PlainMessages /\ n.type = "problem-report"
    BY <1>r, PlainMsg, PlainReport
  <2>2. ASSUME Round!updateState(p, r, "VALIDATING", todo \ {c}), msgs' = msgs \cup {m}
        PROVE  FlowStep
    <3>1. "VALIDATING" # "COMPLETED" /\ "VALIDATING" \notin AfterValidation
      BY DEF AfterValidation
    <3> HIDE DEF p, m, n, offer
    <3> QED
      BY <1>r, <2>0, <2>1, <2>2, <3>1, MoveStep DEF p
  <2>3. ASSUME entry = "VALIDATED", msgs' = msgs,
               Round!updateState(p, r, "VALIDATED", (todo \ {c}) \cup {offer})
        PROVE  FlowStep
    <3>1. ~NotYetValid /\ "VALIDATED" # "COMPLETED"
      BY <2>3 DEF NotYetValid
    <3>2. \A d \in ((todo \ {c}) \cup {offer}) \ todo : d \in PlainTodo
      BY <1>o
    <3> HIDE DEF p, m, n, offer
    <3> QED
      BY <1>r, <2>0, <2>3, <3>1, <3>2, MoveStep DEF p
  <2>4. ASSUME todo' = todo \ {c}, rec' = rec, msgs' = msgs \/ msgs' = msgs \cup {n}
        PROVE  FlowStep
    <3> HIDE DEF p, m, n, offer
    <3> QED
      BY <1>r, <2>0, <2>1, <2>4, OneRecord DEF p
  <2> QED
    BY <1>1, <2>2, <2>3, <2>4 DEF Round!acceptOnboardingRequest
<1>2. CASE Round!acceptIssuanceRequest(c)
  <2> DEFINE m == Round!Msg("applicant", "validating", r.thread)
  <2>0. UNCHANGED xs
    BY <1>2 DEF Round!acceptIssuanceRequest
  <2>1. m \in PlainMessages /\ m.type = "validating"
    BY <1>r, PlainMsg
  <2>2. ASSUME Round!updateState(p, r, "VALIDATING", todo \ {c}), msgs' = msgs \cup {m}
        PROVE  FlowStep
    <3>1. "VALIDATING" # "COMPLETED" /\ "VALIDATING" \notin AfterValidation
      BY DEF AfterValidation
    <3> HIDE DEF p, m, offer
    <3> QED
      BY <1>r, <2>0, <2>1, <2>2, <3>1, MoveStep DEF p
  <2>3. ASSUME todo' = todo \ {c}, UNCHANGED <<rec, msgs>>
        PROVE  FlowStep
    <3> HIDE DEF p, m, offer
    <3> QED
      BY <1>r, <2>0, <2>3, OneRecord DEF p
  <2> QED
    BY <1>2, <2>2, <2>3 DEF Round!acceptIssuanceRequest
<1>3. CASE Round!offerRefused(c)
  <2>1. todo' = todo \ {c} /\ UNCHANGED <<xs, msgs>>
    BY <1>3 DEF Round!offerRefused
  <2>2. CASE UNCHANGED rec
    BY <1>r, <2>1, <2>2, OneRecord
  <2>3. CASE r.state = "VALIDATED" /\ rec' = [rec EXCEPT !["validator"].state = "VALIDATED_PENDING_CLAIMS"]
    <3>1. [r EXCEPT !.state = "VALIDATED_PENDING_CLAIMS"] \in FlowRecords
      BY <1>r DEF FlowRecords
    <3>2. /\ rec' \in [Round!Parties -> FlowRecords] /\ rec'[p].state = "VALIDATED_PENDING_CLAIMS"
          /\ \A q \in Round!Parties \ {p} : rec'[q] = rec[q]
      BY <1>r, <2>3, <3>1 DEF FlowRecords
    <3>3. ~NotYetValid
      BY <1>r, <2>3 DEF AfterValidation
    <3> HIDE DEF p, offer
    <3> QED
      BY <1>r, <2>1, <3>2, <3>3, OneRecord DEF p
  <2> QED
    BY <1>3, <2>2, <2>3 DEF Round!offerRefused
<1>4. CASE Round!attachCredentialExchangeRecord(c)
  <2> DEFINE r1 == [r EXCEPT !.xchg = c.x]
  <2>1. UNCHANGED <<xs, msgs>> /\ c.call = "attach"
    BY <1>4 DEF Round!attachCredentialExchangeRecord
  <2>2. c.x \in 0..MaxExchanges /\ ~NotYetValid
    BY <2>1 DEF RoundInv, RoundTypes, BeforeInv, PlainTodo, ExchangeTodo, FlowCalls, ExchangeCalls
  <2>3. r1 \in FlowRecords
    BY <1>r, <2>2 DEF FlowRecords
  <2>4. CASE Round!updateState(p, r1, "CRED_OFFERED", todo \ {c})
    <3> HIDE DEF p, r1, offer
    <3> QED
      BY <1>r, <2>1, <2>2, <2>3, <2>4, MoveStep DEF p
  <2>5. CASE todo' = todo \ {c} /\ UNCHANGED rec
    BY <1>r, <2>1, <2>5, OneRecord
  <2> QED
    BY <1>4, <2>4, <2>5 DEF Round!attachCredentialExchangeRecord
<1> QED
  BY <1>1, <1>2, <1>3, <1>4

\* Admin calls on the flow.
LEMMA AdminFlowSteps ==
    ASSUME RoundInv,
           \/ Round!sendOobLink \/ Round!startValidation \/ Round!rejectFlow \/ Round!validateFlow
           \/ Round!notifyCredentialStateChange,
           UNCHANGED <<entry, news, onboarding, starts>>
    PROVE  FlowStep
<1> USE OnboardingBounds, Names
<1> DEFINE p == "validator"
           r == rec[p]
           offer == Round!Call("validator", "offer", 0)
<1>r. /\ rec \in [Round!Parties -> FlowRecords] /\ r \in FlowRecords
      /\ r.thread \in 0..MaxStarts + 1 /\ starts \in 0..MaxStarts
      /\ NotYetValid => r.state \notin AfterValidation
      /\ news \in [Round!Parties -> SUBSET {"validated", "revoked"}]
  BY OfRecord
<1>1. ASSUME NEW s \in Round!VtFlowState, NEW m \in PlainMessages, Round!ValidatorSends(s, m),
             s # "COMPLETED",
             NotYetValid => s \notin AfterValidation /\ m.type # "credential-state-change"
      PROVE  FlowStep
  <2>1. Round!updateState(p, r, s, todo) /\ msgs' = msgs \cup {m} /\ UNCHANGED xs
    BY <1>1 DEF Round!ValidatorSends
  <2> HIDE DEF p, offer
  <2> QED
    BY <1>1, <1>r, <2>1, MoveStep DEF p
<1>2. CASE Round!sendOobLink
  <2> DEFINE m == Round!Msg("applicant", "oob-link", r.thread)
  <2>1. m \in PlainMessages /\ m.type = "oob-link"
    BY <1>r, PlainMsg
  <2>2. Round!ValidatorSends("OOB_PENDING", m)
    BY <1>2 DEF Round!sendOobLink
  <2>3. "OOB_PENDING" # "COMPLETED" /\ "OOB_PENDING" \notin AfterValidation
    BY DEF AfterValidation
  <2> HIDE DEF m, p
  <2> QED
    BY <1>1, <2>1, <2>2, <2>3
<1>3. CASE Round!startValidation
  <2> DEFINE m == Round!Msg("applicant", "validating", r.thread)
  <2>1. m \in PlainMessages /\ m.type = "validating"
    BY <1>r, PlainMsg
  <2>2. Round!ValidatorSends("VALIDATING", m)
    BY <1>3 DEF Round!startValidation
  <2>3. "VALIDATING" # "COMPLETED" /\ "VALIDATING" \notin AfterValidation
    BY DEF AfterValidation
  <2> HIDE DEF m, p
  <2> QED
    BY <1>1, <2>1, <2>2, <2>3
<1>4. CASE Round!rejectFlow
  <2> DEFINE m == Round!Report("applicant", "ValidationRefused", r.thread)
  <2>1. m \in PlainMessages /\ m.type = "problem-report"
    BY <1>r, PlainReport
  <2>2. Round!ValidatorSends("TERMINATED_BY_VALIDATOR", m)
    BY <1>4 DEF Round!rejectFlow
  <2>3. "TERMINATED_BY_VALIDATOR" # "COMPLETED" /\ "TERMINATED_BY_VALIDATOR" \notin AfterValidation
    BY DEF AfterValidation
  <2> HIDE DEF m, p
  <2> QED
    BY <1>1, <2>1, <2>2, <2>3
<1>5. CASE Round!validateFlow
  <2>1. todo' = todo \cup {offer} /\ UNCHANGED <<rec, xs, msgs>>
    BY <1>5 DEF Round!validateFlow
  <2>2. offer \in PlainTodo /\ offer.call = "offer"
    BY DEF Round!Call, PlainTodo, FlowCalls, PlainCalls
  <2> HIDE DEF p, offer
  <2> QED
    BY <1>r, <2>1, <2>2, OneRecord DEF p
<1>6. CASE Round!notifyCredentialStateChange
  <2> DEFINE m == Round!Msg("applicant", "credential-state-change", r.thread)
  <2>1. m \in PlainMessages
    BY <1>r, PlainMsg
  <2>2. Round!ValidatorSends("CRED_REVOKED", m)
    BY <1>6 DEF Round!notifyCredentialStateChange
  <2>3. ~NotYetValid /\ "CRED_REVOKED" # "COMPLETED"
    BY <1>6, <1>r DEF Round!notifyCredentialStateChange, AfterValidation
  <2> HIDE DEF m, p
  <2> QED
    BY <1>1, <2>1, <2>2, <2>3
<1> QED
  BY <1>2, <1>3, <1>4, <1>5, <1>6

\* The chain, its notifications, and losses.
LEMMA ChainFlowSteps ==
    ASSUME RoundInv,
           \/ Round!Validate \/ Round!Renew \/ Round!Revoke
           \/ \E p \in Round!Parties : Round!onValidated(p) \/ Round!onRevoked(p)
           \/ \E m \in msgs : Round!Lose(m)
    PROVE  FlowStep
<1> USE OnboardingBounds, Names
<1>r. /\ rec \in [Round!Parties -> FlowRecords] /\ starts \in 0..MaxStarts
      /\ news \in [Round!Parties -> SUBSET {"validated", "revoked"}]
  BY OfRecord
<1>1. ASSUME NEW from, NEW to \in {"VALIDATED", "RENEWED", "REVOKED"},
             NEW note \in {"validated", "none", "revoked"}, Round!SetEntry(from, to, note)
      PROVE  FlowStep
  <2>1. UNCHANGED <<rec, xs, msgs, todo, onboarding, starts>> /\ entry' = to
    BY <1>1 DEF Round!SetEntry, Round!bounds
  <2>2. news' \in [Round!Parties -> SUBSET {"validated", "revoked"}]
    <3>1. CASE note = "none"
      BY <1>1, <1>r, <3>1 DEF Round!SetEntry
    <3>2. CASE note # "none"
      <4>1. news' = [p \in Round!Parties |-> news[p] \cup {note}]
        BY <1>1, <3>2 DEF Round!SetEntry
      <4>2. \A p \in Round!Parties : news[p] \cup {note} \in SUBSET {"validated", "revoked"}
        BY <1>1, <1>r, <3>2
      <4> QED
        BY <4>1, <4>2
    <3> QED
      BY <3>1, <3>2
  <2>3. ~NotYetValid'
    BY <2>1 DEF NotYetValid
  <2>4. /\ xs \in [Round!Parties -> [Round!Exchanges -> ExchangeRecords]]
        /\ to \in Round!PendingEntry \cup {"VALIDATED", "REVOKED"}
    BY DEF RoundInv, RoundTypes, Round!PendingEntry
  <2> QED
    BY <1>r, <2>1, <2>2, <2>3, <2>4 DEF FlowStep
<1>2. CASE Round!Validate \/ Round!Renew \/ Round!Revoke
  BY <1>1, <1>2 DEF Round!Validate, Round!Renew, Round!Revoke
<1>3. ASSUME NEW p \in Round!Parties, Round!onValidated(p) PROVE FlowStep
  <2>0. /\ "validated" \in news[p] /\ news' = [news EXCEPT ![p] = @ \ {"validated"}]
        /\ UNCHANGED <<xs, msgs, entry, onboarding, starts>>
    BY <1>3 DEF Round!onValidated, Round!bounds
  <2>1. /\ news' \in [Round!Parties -> SUBSET {"validated", "revoked"}]
        /\ \A q \in Round!Parties : news'[q] \subseteq news[q]
    BY <1>r, <2>0
  <2>2. ~NotYetValid
    BY <2>0, OfRecord
  <2>3. rec[p] \in FlowRecords
    BY <1>r
  <2>4. CASE UNCHANGED <<rec, todo>>
    BY <1>r, <2>0, <2>1, <2>2, <2>4, OneRecord
  <2>5. ASSUME NEW k \in {todo, todo \cup {Round!Call(p, "offer", 0)}},
               Round!updateState(p, rec[p], "VALIDATED", k)
        PROVE  FlowStep
    <3>1. \A d \in k \ todo : d \in PlainTodo
      BY <2>5 DEF Round!Call, PlainTodo, FlowCalls, PlainCalls
    <3>2. "VALIDATED" # "COMPLETED"
      OBVIOUS
    <3> QED
      BY <1>r, <2>0, <2>1, <2>2, <2>3, <2>5, <3>1, <3>2, MoveStep
  <2> QED
    BY <1>3, <2>4, <2>5 DEF Round!onValidated
<1>4. ASSUME NEW p \in Round!Parties, Round!onRevoked(p) PROVE FlowStep
  <2> DEFINE m == Round!Report(Round!Peer(p), "ParticipantRevoked", rec[p].thread)
  <2>0. /\ "revoked" \in news[p] /\ news' = [news EXCEPT ![p] = @ \ {"revoked"}]
        /\ UNCHANGED <<xs, entry, onboarding, starts>>
    BY <1>4 DEF Round!onRevoked, Round!bounds
  <2>1. /\ news' \in [Round!Parties -> SUBSET {"validated", "revoked"}]
        /\ \A q \in Round!Parties : news'[q] \subseteq news[q]
    BY <1>r, <2>0
  <2>2. ~NotYetValid
    BY <2>0, OfRecord
  <2>3. rec[p] \in FlowRecords /\ rec[p].thread \in 0..MaxStarts + 1 /\ Round!Peer(p) \in Round!Parties
    BY OfRecord DEF Round!Peer, Round!Parties
  <2>4. m \in PlainMessages
    BY <2>3, PlainReport
  <2>5. CASE UNCHANGED <<rec, todo, msgs>>
    BY <1>r, <2>0, <2>1, <2>2, <2>5, OneRecord
  <2>6. CASE Round!terminateByChainEvent(p)
    <3>1. Round!updateState(p, rec[p], "PARTICIPANT_REVOKED", todo) /\ msgs' = msgs \cup {m}
      BY <2>6 DEF Round!terminateByChainEvent
    <3>2. "PARTICIPANT_REVOKED" # "COMPLETED"
      OBVIOUS
    <3> HIDE DEF m
    <3> QED
      BY <1>r, <2>0, <2>1, <2>2, <2>3, <2>4, <3>1, <3>2, MoveStep
  <2> QED
    BY <1>4, <2>5, <2>6 DEF Round!onRevoked
<1>5. ASSUME NEW m \in msgs, Round!Lose(m) PROVE FlowStep
  <2>1. msgs' = msgs \ {m} /\ UNCHANGED <<rec, xs, todo, entry, news, onboarding, starts>>
    BY <1>5 DEF Round!Lose, Round!chain
  <2>2. NotYetValid => rec["applicant"].state \notin AfterValidation
    BY OfRecord
  <2> QED
    BY <1>r, <2>1, <2>2, OneRecord
<1> QED
  BY <1>2, <1>3, <1>4, <1>5


\* The listener of credential exchange events.
LEMMA ListenStep ==
    ASSUME RoundInv, NEW p \in Round!Parties, NEW x \in Round!Exchanges, NEW s \in Round!VtFlowState,
           NEW calls0, Round!Listen(p, x, s, calls0)
    PROVE  /\ rec' \in [Round!Parties -> FlowRecords]
           /\ \A q \in Round!Parties \ {p} : rec'[q] = rec[q]
           /\ rec'[p].thread = rec[p].thread
           /\ \/ rec'[p].state = rec[p].state
              \/ rec'[p].state = s /\ xs[p][x].parent = rec[p].thread
           /\ \A c \in todo' \ calls0 : c \in PlainTodo
<1>r. rec \in [Round!Parties -> FlowRecords] /\ rec[p] \in FlowRecords
  BY OfRecord
<1>1. CASE Round!Linked(p, x)
  <2> DEFINE r == [rec[p] EXCEPT !.xchg = x]
  <2>1. r \in FlowRecords /\ r.thread = rec[p].thread
    BY <1>r, OnboardingBounds DEF FlowRecords, Round!Exchanges
  <2>2. Round!updateState(p, r, s, calls0) /\ xs[p][x].parent = rec[p].thread
    BY <1>1 DEF Round!Listen, Round!Linked
  <2> HIDE DEF r
  <2> QED
    BY <1>r, <2>1, <2>2, UpdateState
<1>2. CASE ~Round!Linked(p, x)
  BY <1>r, <1>2 DEF Round!Listen
<1> QED
  BY <1>1, <1>2

\* One exchange record changes its state.
NewState(p, x, s) == xs' = [xs EXCEPT ![p][x].state = s]
\* Its parent stays, and so do the other records.
LEMMA SetState ==
    ASSUME RoundInv, NEW p \in Round!Parties, NEW x \in Round!Exchanges, NEW s \in ExchangeStates,
           NewState(p, x, s), NEW t, t = xs[p][x].parent
    PROVE  /\ xs' = [xs EXCEPT ![p] = [xs[p] EXCEPT ![x] = [state |-> s, parent |-> t]]]
           /\ t \in 0..MaxStarts + 1
<1>1. xs \in [Round!Parties -> [Round!Exchanges -> ExchangeRecords]]
  BY DEF RoundInv, RoundTypes
<1>2. xs[p][x] \in ExchangeRecords
  BY <1>1
<1>3. [xs[p][x] EXCEPT !.state = s] = [state |-> s, parent |-> t]
  BY <1>2 DEF ExchangeRecords
<1> QED
  BY <1>1, <1>2, <1>3 DEF ExchangeRecords, NewState

\* What the invariant says of one exchange and of its messages and calls.
LEMMA OfExchange ==
    ASSUME RoundInv, NEW x \in Round!Exchanges
    PROVE  /\ Ends(x) \in EndPairs
           /\ \A m \in msgs : m.type \in ExchangeTypes /\ m.x = x => MessageFits(m)
           /\ \A m, n \in msgs : m.type \in ExchangeTypes /\ m.type = n.type /\ m.x = n.x => m = n
           /\ \A c \in todo : c.call \in {"issue", "verify"} /\ c.x = x => CallFits(c)
  BY DEF RoundInv, ExchangesInv

\* Nobody completes the flow, but for the end of an exchange of its round; and
\* the messages and calls of an exchange are new, and fit its new states.
Completes(p, x, s, t) ==
    \A q \in Round!Parties : rec'[q].state = "COMPLETED" =>
        \/ rec[q].state = "COMPLETED" /\ rec'[q].thread = rec[q].thread
        \/ /\ q = p /\ s = "Done" /\ t = rec'[q].thread
           /\ xs'["applicant"][x].state = "Done"
NewMessages(x) ==
    /\ \A m \in msgs' \ msgs :
          m \in PlainMessages \/ (m \in ExchangeMessages /\ m.x = x /\ MessageFits(m)')
    /\ \A m, n \in msgs' \ msgs : m \in ExchangeMessages /\ n \in ExchangeMessages => m = n
    /\ \A m \in msgs' \cap msgs : ~(m.type \in ExchangeTypes /\ m.x = x)
NewCalls(x) ==
    /\ \A c \in todo' \ todo :
          c \in PlainTodo \/ (c \in ExchangeTodo /\ c.x = x /\ CallFits(c)')
    /\ \A c \in todo' \cap todo : ~(c.call \in {"issue", "verify"} /\ c.x = x)

\* One end of one exchange moves, from a state that is not the last one.
LEMMA ExchangeStepInv ==
    ASSUME RoundInv, NEW p \in Round!Parties, NEW x \in Round!Exchanges, NEW s \in ExchangeStates,
           NEW t \in 0..MaxStarts + 1,
           xs' = [xs EXCEPT ![p] = [xs[p] EXCEPT ![x] = [state |-> s, parent |-> t]]],
           xs[p][x].state # "Done", Ends(x)' \in EndPairs,
           rec' \in [Round!Parties -> FlowRecords],
           Completes(p, x, s, t), NewMessages(x), NewCalls(x),
           ~NotYetValid, UNCHANGED <<entry, news, onboarding, starts>>
    PROVE  RoundInv'
<1> USE OnboardingBounds DEF Completes, NewMessages, NewCalls
<1>0. RoundTypes /\ ExchangesInv /\ Round!CompletedThisRound
  BY DEF RoundInv
<1>1. /\ \A q \in Round!Parties, y \in Round!Exchanges : q # p \/ y # x => xs'[q][y] = xs[q][y]
      /\ xs'[p][x].state = s /\ xs'[p][x].parent = t
      /\ xs' \in [Round!Parties -> [Round!Exchanges -> ExchangeRecords]]
  <2>1. [state |-> s, parent |-> t] \in ExchangeRecords
        /\ [state |-> s, parent |-> t].state = s /\ [state |-> s, parent |-> t].parent = t
    BY DEF ExchangeRecords
  <2> DEFINE e == [state |-> s, parent |-> t]
             row == [xs[p] EXCEPT ![x] = e]
  <2>2. xs[p] \in [Round!Exchanges -> ExchangeRecords]
    BY <1>0 DEF RoundTypes
  <2> HIDE DEF e
  <2>3. /\ row \in [Round!Exchanges -> ExchangeRecords] /\ row[x] = e
        /\ \A y \in Round!Exchanges : y # x => row[y] = xs[p][y]
    BY <2>1, <2>2 DEF e
  <2>4. xs' = [xs EXCEPT ![p] = row] /\ e.state = s /\ e.parent = t
    BY <2>1 DEF e
  <2> HIDE DEF row
  <2> QED
    BY <1>0, <2>3, <2>4 DEF RoundTypes
<1>2. RoundTypes'
  BY <1>0, <1>1 DEF RoundTypes
<1>3. \A y \in Round!Exchanges : y # x => Ends(y)' = Ends(y)
  BY <1>1, Names DEF Ends
<1>4. ExchangesInv'
  <2>1. \A y \in Round!Exchanges : Ends(y)' \in EndPairs
    BY <1>0, <1>3 DEF ExchangesInv
  <2>2. \A m \in msgs' : MessageFits(m)'
    <3> SUFFICES ASSUME NEW m \in msgs' PROVE MessageFits(m)'
      OBVIOUS
    <3>1. CASE m \in ExchangeMessages /\ m \in msgs
      <4>1. m.x # x /\ m.x \in Round!Exchanges /\ MessageFits(m)
        BY <1>0, <3>1 DEF ExchangeMessages, ExchangesInv
      <4> QED
        BY <1>3, <4>1 DEF MessageFits
    <3>2. CASE m \in ExchangeMessages /\ m \notin msgs
      <4>1. m \notin PlainMessages
        BY <3>2 DEF ExchangeMessages, PlainMessages, ExchangeTypes, PlainTypes
      <4> QED
        BY <3>2, <4>1
    <3>3. CASE m \in PlainMessages
      BY <3>3 DEF PlainMessages, PlainTypes, MessageFits
    <3> QED
      BY <1>2, <3>1, <3>2, <3>3 DEF RoundTypes
  <2>3. \A m, n \in msgs' : m.type \in ExchangeTypes /\ m.type = n.type /\ m.x = n.x => m = n
    <3> SUFFICES ASSUME NEW m \in msgs', NEW n \in msgs',
                        m.type \in ExchangeTypes, m.type = n.type, m.x = n.x
                 PROVE  m = n
      OBVIOUS
    <3>1. \A k \in {m, n} : k \in ExchangeMessages
      BY <1>2 DEF RoundTypes, PlainMessages, PlainTypes, ExchangeTypes
    <3>2. \A k \in {m, n} : k \notin PlainMessages
      BY DEF PlainMessages, PlainTypes, ExchangeTypes
    <3>3. CASE m.x = x
      BY <3>1, <3>2, <3>3
    <3>4. CASE m.x # x
      BY <1>0, <3>1, <3>2, <3>4 DEF ExchangesInv
    <3> QED
      BY <3>3, <3>4
  <2>4. \A c \in todo' : CallFits(c)'
    <3> SUFFICES ASSUME NEW c \in todo', c.call \in {"issue", "verify"} PROVE CallFits(c)'
      BY DEF CallFits
    <3>1. c \in ExchangeTodo /\ c \notin PlainTodo
      BY <1>2 DEF RoundTypes, PlainTodo, PlainCalls
    <3>2. CASE c \in todo
      <4>1. c.x # x /\ c.x \in Round!Exchanges /\ CallFits(c)
        BY <1>0, <3>1, <3>2 DEF ExchangeTodo, ExchangesInv
      <4> QED
        BY <1>3, <4>1 DEF CallFits
    <3>3. CASE c \notin todo
      BY <3>1, <3>3
    <3> QED
      BY <3>2, <3>3
  <2> QED
    BY <2>1, <2>2, <2>3, <2>4 DEF ExchangesInv
<1>5. BeforeInv'
  BY DEF BeforeInv, NotYetValid
<1>6. Round!CompletedThisRound'
  <2> SUFFICES ASSUME NEW q \in Round!Parties, rec'[q].state = "COMPLETED"
               PROVE  \E y \in Round!Exchanges :
                        /\ xs'["applicant"][y].state = "Done" /\ xs'[q][y].state = "Done"
                        /\ xs'[q][y].parent = rec'[q].thread
    BY DEF Round!CompletedThisRound
  <2>1. CASE rec[q].state = "COMPLETED" /\ rec'[q].thread = rec[q].thread
    <3>1. PICK y \in Round!Exchanges :
              /\ xs["applicant"][y].state = "Done" /\ xs[q][y].state = "Done"
              /\ xs[q][y].parent = rec[q].thread
      BY <1>0, <2>1 DEF Round!CompletedThisRound
    <3>2. (q # p \/ y # x) /\ ("applicant" # p \/ y # x)
      BY <3>1
    <3> QED
      BY <1>1, <2>1, <3>1, <3>2, Names
  <2>2. CASE /\ q = p /\ s = "Done" /\ t = rec'[q].thread /\ xs'["applicant"][x].state = "Done"
    BY <1>1, <2>2
  <2> QED
    BY <2>1, <2>2
<1> QED
  BY <1>2, <1>4, <1>5, <1>6 DEF RoundInv


\* A message of an exchange is well typed.
LEMMA ExchangeMsgOK ==
    ASSUME NEW to \in Round!Parties, NEW type \in ExchangeTypes, NEW t \in 0..MaxStarts + 1,
           NEW x \in Round!Exchanges
    PROVE  /\ Round!ExchangeMsg(to, type, t, x) \in ExchangeMessages
           /\ Round!ExchangeMsg(to, type, t, x).type = type
           /\ Round!ExchangeMsg(to, type, t, x).x = x
  BY OnboardingBounds
     DEF Round!ExchangeMsg, Round!Msg, ExchangeMessages, FlowMessages, ExchangeTypes, PlainTypes,
         Round!Exchanges

\* And a call that works on an exchange.
LEMMA ExchangeCallOK ==
    ASSUME NEW p \in Round!Parties, NEW name \in ExchangeCalls, NEW x \in Round!Exchanges
    PROVE  /\ Round!Call(p, name, x) \in ExchangeTodo /\ Round!Call(p, name, x).x = x
           /\ Round!Call(p, name, x).call = name /\ Round!Call(p, name, x).who = p
  BY OnboardingBounds DEF Round!Call, ExchangeTodo, FlowCalls, ExchangeCalls, PlainCalls, Round!Exchanges

\* A message of an exchange, or a call that works on one, and its exchange.
LEMMA OfExchangeMessage ==
    ASSUME RoundInv, NEW m \in msgs, m.type \in ExchangeTypes
    PROVE  m.x \in Round!Exchanges /\ ~NotYetValid /\ m.thread \in 0..MaxStarts + 1
  BY DEF RoundInv, RoundTypes, BeforeInv, ExchangeMessages, PlainMessages, PlainTypes, ExchangeTypes,
         FlowMessages
\* So does a call of a listener that works on one.
LEMMA OfExchangeCall ==
    ASSUME RoundInv, NEW c \in todo, c.call \in ExchangeCalls
    PROVE  /\ c.x \in Round!Exchanges /\ ~NotYetValid
           /\ c = [who |-> c.who, call |-> c.call, x |-> c.x]
  BY DEF RoundInv, RoundTypes, BeforeInv, ExchangeTodo, FlowCalls, PlainTodo, PlainCalls, ExchangeCalls

\* The states of an exchange that one of its ends tells.
LEMMA PairOf ==
    ASSUME RoundInv, NEW x \in Round!Exchanges
    PROVE  LET a == xs["applicant"][x].state
               v == xs["validator"][x].state IN
           /\ v = "none" => Ends(x) = <<"none", "none">>
           /\ a = "OfferReceived" => Ends(x) = <<"OfferReceived", "OfferSent">>
           /\ v = "Unanchored" => Ends(x) = <<"RequestSent", "Unanchored">>
           /\ Ends(x) = <<a, v>>
  BY OfExchange DEF EndPairs, Ends

\* No message of an exchange is under way whose states do not say so.
LEMMA NoMessage ==
    ASSUME RoundInv, NEW x \in Round!Exchanges, NEW m \in msgs, m.type \in ExchangeTypes, m.x = x
    PROVE  /\ Ends(x) = <<"none", "OfferSent">> => m.type = "offer"
           /\ Ends(x) = <<"RequestSent", "OfferSent">> => m.type = "request"
           /\ Ends(x) = <<"Declined", "OfferSent">> => m.type = "decline"
           /\ Ends(x) = <<"RequestSent", "CredentialIssued">> => m.type = "credential"
           /\ Ends(x) = <<"Done", "CredentialIssued">> => m.type = "ack"
           /\ Ends(x) \in {<<"none", "OfferSent">>, <<"RequestSent", "OfferSent">>,
                           <<"Declined", "OfferSent">>, <<"RequestSent", "CredentialIssued">>,
                           <<"Done", "CredentialIssued">>}
<1>1. MessageFits(m)
  BY OfExchange
<1> QED
  BY <1>1 DEF MessageFits, ExchangeTypes

\* One call works on an exchange, the issuance or the verification, in the
\* states that are its own.
LEMMA NoCall ==
    ASSUME RoundInv, NEW x \in Round!Exchanges, NEW c \in todo, c.call \in {"issue", "verify"}, c.x = x
    PROVE  /\ Ends(x) = <<"RequestSent", "RequestReceived">> => c = Round!Call("validator", "issue", x)
           /\ Ends(x) = <<"CredentialReceived", "CredentialIssued">> =>
                 c = Round!Call("applicant", "verify", x)
           /\ Ends(x) \in {<<"RequestSent", "RequestReceived">>,
                           <<"CredentialReceived", "CredentialIssued">>}
<1>1. CallFits(c) /\ c = [who |-> c.who, call |-> c.call, x |-> c.x]
  BY OfExchange, OfExchangeCall DEF ExchangeCalls
<1> QED
  BY <1>1 DEF CallFits, Round!Call

\* offerCredentialForSession opens an exchange.
LEMMA OfferStep ==
    ASSUME RoundInv, NEW c \in todo, Round!offerCredentialForSession(c),
           UNCHANGED <<entry, news, onboarding, starts>>
    PROVE  RoundInv'
<1> USE Names
<1>p. PICK p : p = "validator"
  OBVIOUS
<1>t. PICK t : t = rec[p].thread
  OBVIOUS
<1>1. PICK x \in Round!Exchanges :
          /\ xs[p][x].state = "none" /\ rec[p].state \in Round!CanOffer
          /\ xs' = [xs EXCEPT ![p][x] = [state |-> "OfferSent", parent |-> t]]
          /\ msgs' = msgs \cup {Round!ExchangeMsg("applicant", "offer", t, x)}
          /\ todo' = (todo \ {c}) \cup {Round!Call(p, "attach", x)}
  BY <1>p, <1>t DEF Round!offerCredentialForSession
<1>2. rec' = rec
  BY DEF Round!offerCredentialForSession
<1>3. /\ rec \in [Round!Parties -> FlowRecords] /\ t \in 0..MaxStarts + 1
      /\ NotYetValid => rec[p].state \notin AfterValidation
  BY <1>p, <1>t, OfRecord
<1>4. ~NotYetValid
  BY <1>1, <1>3 DEF NotYetValid, Round!CanOffer, AfterValidation
<1>5. xs' = [xs EXCEPT ![p] = [xs[p] EXCEPT ![x] = [state |-> "OfferSent", parent |-> t]]]
  BY <1>1 DEF RoundInv, RoundTypes
<1>6. Ends(x) = <<"none", "none">> /\ Ends(x)' = <<"none", "OfferSent">>
  <2>1. Ends(x) = <<"none", "none">> /\ Ends(x) = <<xs["applicant"][x].state, xs["validator"][x].state>>
    BY <1>1, <1>p, PairOf
  <2>2. xs'["applicant"][x].state = "none" /\ xs'["validator"][x].state = "OfferSent"
    BY <1>1, <1>p, <2>1 DEF RoundInv, RoundTypes, ExchangeRecords
  <2> QED
    BY <2>1, <2>2 DEF Ends
<1>n. PICK n : n = Round!ExchangeMsg("applicant", "offer", t, x)
  OBVIOUS
<1>k. PICK k : k = Round!Call(p, "attach", x)
  OBVIOUS
<1>7. n \in ExchangeMessages /\ n.x = x /\ n.type = "offer" /\ k \in ExchangeTodo /\ k.x = x /\ k.call = "attach"
  BY <1>p, <1>n, <1>k, <1>3, ExchangeMsgOK, ExchangeCallOK DEF ExchangeTypes, ExchangeCalls
<1>8. MessageFits(n)' /\ CallFits(k)'
  BY <1>6, <1>7 DEF MessageFits, CallFits
<1>9. \A m \in msgs : ~(m.type \in ExchangeTypes /\ m.x = x)
  BY <1>6, NoMessage
<1>10. \A d \in todo : ~(d.call \in {"issue", "verify"} /\ d.x = x)
  BY <1>6, NoCall
<1>11. Ends(x)' \in EndPairs /\ "OfferSent" \in ExchangeStates /\ xs[p][x].state # "Done"
  BY <1>1, <1>6 DEF EndPairs, ExchangeStates
<1>12. msgs' = msgs \cup {n} /\ todo' = (todo \ {c}) \cup {k} /\ p \in Round!Parties
  BY <1>1, <1>n, <1>k, <1>p
<1>13. NewMessages(x) /\ NewCalls(x)
  BY <1>7, <1>8, <1>9, <1>10, <1>12 DEF NewMessages, NewCalls
<1>14. Completes(p, x, "OfferSent", t)
  BY <1>2 DEF Completes
<1> QED
  BY <1>2, <1>3, <1>4, <1>5, <1>11, <1>12, <1>13, <1>14, ExchangeStepInv


\* The applicant receives the offer.
LEMMA ReceiveOfferStep ==
    ASSUME RoundInv, NEW m \in msgs, Round!receiveOffer(m),
           UNCHANGED <<entry, news, onboarding, starts>>
    PROVE  RoundInv'
<1> USE Names
<1>p. PICK p : p = "applicant"
  OBVIOUS
<1>x. PICK x : x = m.x
  OBVIOUS
<1>t. PICK t : t = m.thread
  OBVIOUS
<1>1. m.type = "offer" /\ m.type \in ExchangeTypes
  BY DEF Round!receiveOffer, ExchangeTypes
<1>2. x \in Round!Exchanges /\ ~NotYetValid /\ t \in 0..MaxStarts + 1
  BY <1>1, <1>x, <1>t, OfExchangeMessage
<1>3. Ends(x) = <<"none", "OfferSent">> /\ Ends(x) = <<xs["applicant"][x].state, xs["validator"][x].state>>
  BY <1>1, <1>2, <1>x, OfExchange, PairOf DEF MessageFits
<1>4. /\ xs' = [xs EXCEPT ![p][x] = [state |-> "OfferReceived", parent |-> t]]
      /\ msgs' = msgs \ {m}
  BY <1>p, <1>x, <1>t DEF Round!receiveOffer
<1>5. xs' = [xs EXCEPT ![p] = [xs[p] EXCEPT ![x] = [state |-> "OfferReceived", parent |-> t]]]
  BY <1>4 DEF RoundInv, RoundTypes
<1>6. Ends(x)' = <<"OfferReceived", "OfferSent">>
  <2>1. xs'["applicant"][x].state = "OfferReceived" /\ xs'["validator"][x].state = "OfferSent"
    BY <1>2, <1>3, <1>5, <1>p DEF RoundInv, RoundTypes, ExchangeRecords
  <2> QED
    BY <2>1 DEF Ends
<1>7. /\ rec' \in [Round!Parties -> FlowRecords]
      /\ \A q \in Round!Parties : rec'[q].state = "COMPLETED" =>
            rec[q].state = "COMPLETED" /\ rec'[q].thread = rec[q].thread
      /\ \A c \in todo' \ todo : c \in PlainTodo
  <2>r. rec \in [Round!Parties -> FlowRecords] /\ rec[p] \in FlowRecords
    BY <1>p, OfRecord
  <2>1. CASE UNCHANGED <<rec, todo>>
    BY <2>r, <2>1
  <2>2. CASE Round!updateState("applicant", [rec["applicant"] EXCEPT !.xchg = m.x], "CRED_OFFERED", todo)
    <3>1. PICK r : r = [rec["applicant"] EXCEPT !.xchg = m.x]
      OBVIOUS
    <3>2. r \in FlowRecords
      BY <1>2, <1>p, <1>x, <2>r, <3>1, OnboardingBounds DEF FlowRecords, Round!Exchanges
    <3>3. Round!updateState(p, r, "CRED_OFFERED", todo) /\ p \in Round!Parties
      BY <1>p, <2>2, <3>1
    <3> QED
      BY <2>r, <3>2, <3>3, UpdateState
  <2> QED
    BY <2>1, <2>2 DEF Round!receiveOffer
<1>8. \A n \in msgs' \cap msgs : ~(n.type \in ExchangeTypes /\ n.x = x)
  BY <1>1, <1>2, <1>3, <1>4, <1>x, NoMessage, OfExchange
<1>9. \A d \in todo : ~(d.call \in {"issue", "verify"} /\ d.x = x)
  BY <1>2, <1>3, NoCall
<1>10. Ends(x)' \in EndPairs /\ "OfferReceived" \in ExchangeStates /\ xs[p][x].state # "Done"
       /\ p \in Round!Parties
  BY <1>3, <1>6, <1>p DEF EndPairs, ExchangeStates
<1>11. msgs' = msgs \ {m}
  BY <1>4
<1>12. NewMessages(x) /\ NewCalls(x)
  BY <1>7, <1>8, <1>9, <1>11 DEF NewMessages, NewCalls
<1>13. Completes(p, x, "OfferReceived", t)
  BY <1>7 DEF Completes
<1> QED
  BY <1>2, <1>5, <1>7, <1>10, <1>12, <1>13, ExchangeStepInv

\* acceptCredentialOffer, with Credo's refusal.
LEMMA AcceptOfferStep ==
    ASSUME RoundInv, NEW c \in todo, Round!acceptCredentialOffer(c),
           UNCHANGED <<entry, news, onboarding, starts>>
    PROVE  RoundInv'
<1> USE Names
<1>p. PICK p : p = "applicant"
  OBVIOUS
<1>x. PICK x : x = rec["applicant"].xchg
  OBVIOUS
<1>r. /\ rec \in [Round!Parties -> FlowRecords] /\ starts \in 0..MaxStarts
      /\ news \in [Round!Parties -> SUBSET {"validated", "revoked"}]
      /\ NotYetValid => rec[p].state \notin AfterValidation
  BY <1>p, OfRecord
<1>1. ASSUME x \in Round!Exchanges, xs[p][x].state = "OfferReceived",
             NEW s \in {"RequestSent", "Declined"}, NEW type \in {"request", "decline"},
             (s = "RequestSent") <=> (type = "request"),
             NewState(p, x, s),
             msgs' = msgs \cup {Round!ExchangeMsg("validator", type, 0, x)},
             \A d \in todo' \ todo : d \in PlainTodo,
             rec' \in [Round!Parties -> FlowRecords],
             \A q \in Round!Parties : rec'[q].state = "COMPLETED" =>
                rec[q].state = "COMPLETED" /\ rec'[q].thread = rec[q].thread
      PROVE  RoundInv'
  <2>1. Ends(x) = <<"OfferReceived", "OfferSent">>
        /\ Ends(x) = <<xs["applicant"][x].state, xs["validator"][x].state>>
    BY <1>1, <1>p, PairOf
  <2>2. PICK t : t = xs[p][x].parent
    OBVIOUS
  <2>a. s \in ExchangeStates /\ type \in ExchangeTypes /\ 0 \in 0..MaxStarts + 1
    BY <1>1, OnboardingBounds DEF ExchangeStates, ExchangeTypes
  <2>3. /\ xs' = [xs EXCEPT ![p] = [xs[p] EXCEPT ![x] = [state |-> s, parent |-> t]]]
        /\ t \in 0..MaxStarts + 1
    <3>1. p \in Round!Parties
      BY <1>p
    <3> QED
      BY <1>1, <2>2, <2>a, <3>1, SetState
  <2>4. Ends(x)' = <<s, "OfferSent">>
    <3>1. xs'["applicant"][x].state = s /\ xs'["validator"][x].state = "OfferSent"
      BY <1>1, <2>1, <2>3, <1>p DEF RoundInv, RoundTypes, ExchangeRecords
    <3> QED
      BY <3>1 DEF Ends
  <2>5. PICK n : n = Round!ExchangeMsg("validator", type, 0, x)
    OBVIOUS
  <2>6. n \in ExchangeMessages /\ n.x = x /\ n.type = type
    BY <1>1, <2>5, <2>a, ExchangeMsgOK
  <2>7. MessageFits(n)'
    BY <1>1, <2>4, <2>6 DEF MessageFits
  <2>8. /\ \A m \in msgs : ~(m.type \in ExchangeTypes /\ m.x = x)
        /\ \A d \in todo : ~(d.call \in {"issue", "verify"} /\ d.x = x)
    BY <1>1, <2>1, NoMessage, NoCall
  <2>9. Ends(x)' \in EndPairs /\ xs[p][x].state # "Done" /\ p \in Round!Parties
    BY <1>1, <2>4, <1>p DEF EndPairs
  <2>10. ~NotYetValid
    BY <1>1, <2>1 DEF RoundInv, BeforeInv
  <2>11. /\ msgs' = msgs \cup {n} /\ x \in Round!Exchanges
         /\ \A d \in todo' \ todo : d \in PlainTodo
         /\ rec' \in [Round!Parties -> FlowRecords]
         /\ \A q \in Round!Parties : rec'[q].state = "COMPLETED" =>
               rec[q].state = "COMPLETED" /\ rec'[q].thread = rec[q].thread
    BY <1>1, <2>5
  <2>12. NewMessages(x) /\ NewCalls(x)
    BY <2>6, <2>7, <2>8, <2>11 DEF NewMessages, NewCalls
  <2>13. Completes(p, x, s, t)
    BY <2>11 DEF Completes
  <2> QED
    BY <2>a, <2>3, <2>9, <2>10, <2>11, <2>12, <2>13, ExchangeStepInv
<1>2. ASSUME todo' = todo \ {c}, UNCHANGED <<rec, xs, msgs>> PROVE RoundInv'
  <2>1. p \in Round!Parties
    BY <1>p
  <2> QED
    BY <1>2, <1>r, <2>1, OneRecord, FlowStepInv
<1>3. ASSUME NEW y \in Round!Exchanges, y = x, xs["applicant"][y].state = "OfferReceived",
             xs' = [xs EXCEPT !["applicant"][x].state = "RequestSent"],
             msgs' = msgs \cup {Round!ExchangeMsg("validator", "request", 0, x)},
             todo' = todo \ {c}, rec' = rec
      PROVE  RoundInv'
  BY <1>1, <1>3, <1>p, <1>r DEF NewState
<1>4. ASSUME NEW y \in Round!Exchanges, y = x, xs["applicant"][y].state = "OfferReceived",
             xs' = [xs EXCEPT !["applicant"][x].state = "Declined"],
             msgs' = msgs \cup {Round!ExchangeMsg("validator", "decline", 0, x)},
             Round!Listen("applicant", x, "ERROR", todo \ {c})
      PROVE  RoundInv'
  <2>1. /\ rec' \in [Round!Parties -> FlowRecords]
        /\ \A q \in Round!Parties : rec'[q].state = "COMPLETED" =>
              rec[q].state = "COMPLETED" /\ rec'[q].thread = rec[q].thread
        /\ \A d \in todo' \ todo : d \in PlainTodo
    BY <1>4, <1>r, ListenStep
  <2> QED
    BY <1>1, <1>4, <1>p, <2>1 DEF NewState
<1> QED
  BY <1>2, <1>3, <1>4, <1>x DEF Round!acceptCredentialOffer


\* The states of an exchange after one end has moved.
LEMMA NewEnds ==
    ASSUME RoundInv, NEW p \in Round!Parties, NEW x \in Round!Exchanges, NEW s \in ExchangeStates,
           NewState(p, x, s)
    PROVE  /\ p = "applicant" => Ends(x)' = <<s, xs["validator"][x].state>>
           /\ p = "validator" => Ends(x)' = <<xs["applicant"][x].state, s>>
           /\ xs'[p][x].state = s
  BY Names DEF NewState, RoundInv, RoundTypes, ExchangeRecords, Ends

\* Such a move keeps the invariant when the pair that results is one of EndPairs.
LEMMA ExchangeMove ==
    ASSUME RoundInv, NEW p \in Round!Parties, NEW x \in Round!Exchanges, NEW s \in ExchangeStates,
           NewState(p, x, s), xs[p][x].state # "Done", Ends(x)' \in EndPairs,
           rec' \in [Round!Parties -> FlowRecords], NEW t, t = xs[p][x].parent, Completes(p, x, s, t),
           NewMessages(x), NewCalls(x), ~NotYetValid, UNCHANGED <<entry, news, onboarding, starts>>
    PROVE  RoundInv'
<1>1. /\ xs' = [xs EXCEPT ![p] = [xs[p] EXCEPT ![x] = [state |-> s, parent |-> t]]]
      /\ t \in 0..MaxStarts + 1
  BY SetState
<1> QED
  BY <1>1, ExchangeStepInv

\* A message of an exchange is received: no other one of that exchange is left.
LEMMA MessageGone ==
    ASSUME RoundInv, NEW x \in Round!Exchanges, NEW m \in msgs, m.type \in ExchangeTypes, m.x = x,
           msgs' = msgs \ {m}
    PROVE  NewMessages(x)
<1> SUFFICES ASSUME NEW n \in msgs' \cap msgs, n.type \in ExchangeTypes, n.x = x PROVE FALSE
  BY DEF NewMessages
<1>1. n.type = m.type
  BY NoMessage
<1> QED
  BY <1>1, OfExchange

\* The validator receives the answer to its offer, or the acknowledgement.
LEMMA ValidatorReceives ==
    ASSUME RoundInv, NEW m \in msgs,
           Round!receiveRequest(m) \/ Round!receiveDecline(m) \/ Round!receiveAck(m),
           UNCHANGED <<entry, news, onboarding, starts>>
    PROVE  RoundInv'
<1> USE Names
<1>p. PICK p : p = "validator"
  OBVIOUS
<1>x. PICK x : x = m.x
  OBVIOUS
<1>1. m.type \in {"request", "decline", "ack"} /\ m.type \in ExchangeTypes /\ msgs' = msgs \ {m}
  BY DEF Round!receiveRequest, Round!receiveDecline, Round!receiveAck, ExchangeTypes
<1>2. x \in Round!Exchanges /\ ~NotYetValid /\ p \in Round!Parties
  BY <1>1, <1>p, <1>x, OfExchangeMessage
<1>3. NewMessages(x)
  BY <1>1, <1>2, <1>x, MessageGone
<1>4. MessageFits(m) /\ Ends(x) = <<xs["applicant"][x].state, xs["validator"][x].state>>
  BY <1>1, <1>2, <1>x, OfExchange, PairOf
<1>5. PICK t : t = xs[p][x].parent
  OBVIOUS
<1>r. rec[p].state \in Round!VtFlowState /\ rec \in [Round!Parties -> FlowRecords]
  BY <1>2, OfRecord
<1>6. CASE Round!receiveRequest(m)
  <2>1. Ends(x) = <<"RequestSent", "OfferSent">> /\ xs[p][x].state # "Done"
    BY <1>4, <1>6, <1>p, <1>x DEF MessageFits, Round!receiveRequest
  <2>2. PICK s : s = "RequestReceived"
    OBVIOUS
  <2>3. NewState(p, x, s) /\ s \in ExchangeStates
    BY <1>6, <1>p, <1>x, <2>2 DEF NewState, Round!receiveRequest, ExchangeStates
  <2>4. Ends(x)' = <<"RequestSent", "RequestReceived">>
    BY <1>2, <1>4, <1>p, <2>1, <2>2, <2>3, NewEnds
  <2>5. PICK k : k = Round!Call("validator", "issue", m.x)
    OBVIOUS
  <2>6. k \in ExchangeTodo /\ k.x = x /\ k.call = "issue" /\ k.who = "validator"
    BY <1>2, <1>x, <2>5, ExchangeCallOK DEF ExchangeCalls
  <2>7. Round!Listen(p, x, rec[p].state, todo \cup {k})
    BY <1>6, <1>p, <1>x, <2>5 DEF Round!receiveRequest
  <2>8. /\ rec' \in [Round!Parties -> FlowRecords]
        /\ \A q \in Round!Parties : rec'[q].state = rec[q].state /\ rec'[q].thread = rec[q].thread
        /\ \A c \in todo' \ (todo \cup {k}) : c \in PlainTodo
    BY <1>2, <1>r, <2>7, ListenStep
  <2>9. NewCalls(x)
    <3>1. CallFits(k)'
      BY <2>4, <2>6 DEF CallFits
    <3>2. \A c \in todo : ~(c.call \in {"issue", "verify"} /\ c.x = x)
      BY <1>2, <2>1, NoCall
    <3> QED
      BY <2>6, <2>8, <3>1, <3>2 DEF NewCalls
  <2>10. Completes(p, x, s, t) /\ Ends(x)' \in EndPairs
    BY <2>4, <2>8 DEF Completes, EndPairs
  <2> QED
    BY <1>2, <1>3, <1>5, <2>1, <2>3, <2>8, <2>9, <2>10, ExchangeMove
<1>7. CASE Round!receiveDecline(m)
  <2>1. Ends(x) = <<"Declined", "OfferSent">> /\ xs[p][x].state # "Done"
    BY <1>4, <1>7, <1>p, <1>x DEF MessageFits, Round!receiveDecline
  <2>2. PICK s : s = "Abandoned"
    OBVIOUS
  <2>3. NewState(p, x, s) /\ s \in ExchangeStates
    BY <1>7, <1>p, <1>x, <2>2 DEF NewState, Round!receiveDecline, ExchangeStates
  <2>4. Ends(x)' = <<"Declined", "Abandoned">>
    BY <1>2, <1>4, <1>p, <2>1, <2>2, <2>3, NewEnds
  <2>5. Round!Listen(p, x, "ERROR", todo)
    BY <1>7, <1>p, <1>x DEF Round!receiveDecline
  <2>6. /\ rec' \in [Round!Parties -> FlowRecords]
        /\ \A q \in Round!Parties : rec'[q].state = "COMPLETED" =>
              rec[q].state = "COMPLETED" /\ rec'[q].thread = rec[q].thread
        /\ \A c \in todo' \ todo : c \in PlainTodo
    BY <1>2, <1>r, <2>5, ListenStep
  <2>7. NewCalls(x)
    <3>1. \A c \in todo : ~(c.call \in {"issue", "verify"} /\ c.x = x)
      BY <1>2, <2>1, NoCall
    <3> QED
      BY <2>6, <3>1 DEF NewCalls
  <2>8. Completes(p, x, s, t) /\ Ends(x)' \in EndPairs
    BY <2>4, <2>6 DEF Completes, EndPairs
  <2> QED
    BY <1>2, <1>3, <1>5, <2>1, <2>3, <2>6, <2>7, <2>8, ExchangeMove
<1>8. CASE Round!receiveAck(m)
  <2>1. Ends(x) = <<"Done", "CredentialIssued">> /\ xs[p][x].state # "Done"
    BY <1>4, <1>8, <1>p, <1>x DEF MessageFits, Round!receiveAck
  <2>2. PICK s : s = "Done"
    OBVIOUS
  <2>3. NewState(p, x, s) /\ s \in ExchangeStates
    BY <1>8, <1>p, <1>x, <2>2 DEF NewState, Round!receiveAck, ExchangeStates
  <2>4. Ends(x)' = <<"Done", "Done">> /\ xs'["applicant"][x].state = "Done"
    BY <1>2, <1>4, <1>p, <2>1, <2>2, <2>3, NewEnds DEF Ends
  <2>5. Round!Listen(p, x, "COMPLETED", todo)
    BY <1>8, <1>p, <1>x DEF Round!receiveAck
  <2>6. /\ rec' \in [Round!Parties -> FlowRecords]
        /\ \A q \in Round!Parties : rec'[q].state = "COMPLETED" =>
              \/ rec[q].state = "COMPLETED" /\ rec'[q].thread = rec[q].thread
              \/ q = p /\ xs[p][x].parent = rec'[q].thread
        /\ \A c \in todo' \ todo : c \in PlainTodo
    BY <1>2, <1>r, <2>5, ListenStep
  <2>7. NewCalls(x)
    <3>1. \A c \in todo : ~(c.call \in {"issue", "verify"} /\ c.x = x)
      BY <1>2, <2>1, NoCall
    <3> QED
      BY <2>6, <3>1 DEF NewCalls
  <2>8. Completes(p, x, s, t) /\ Ends(x)' \in EndPairs
    BY <1>5, <2>2, <2>4, <2>6 DEF Completes, EndPairs
  <2> QED
    BY <1>2, <1>3, <1>5, <2>1, <2>3, <2>6, <2>7, <2>8, ExchangeMove
<1> QED
  BY <1>6, <1>7, <1>8


\* The applicant receives the credential.
LEMMA ReceiveCredentialStep ==
    ASSUME RoundInv, NEW m \in msgs, Round!receiveCredential(m),
           UNCHANGED <<entry, news, onboarding, starts>>
    PROVE  RoundInv'
<1> USE Names
<1>p. PICK p : p = "applicant"
  OBVIOUS
<1>x. PICK x : x = m.x
  OBVIOUS
<1>s. PICK s : s = "CredentialReceived"
  OBVIOUS
<1>t. PICK t : t = xs[p][x].parent
  OBVIOUS
<1>k. PICK k : k = Round!Call("applicant", "verify", m.x)
  OBVIOUS
<1>1. m.type = "credential" /\ m.type \in ExchangeTypes /\ msgs' = msgs \ {m}
  BY DEF Round!receiveCredential, ExchangeTypes
<1>2. x \in Round!Exchanges /\ ~NotYetValid /\ p \in Round!Parties
  BY <1>1, <1>p, <1>x, OfExchangeMessage
<1>3. NewMessages(x)
  BY <1>1, <1>2, <1>x, MessageGone
<1>4. /\ Ends(x) = <<"RequestSent", "CredentialIssued">> /\ xs[p][x].state # "Done"
      /\ Ends(x) = <<xs["applicant"][x].state, xs["validator"][x].state>>
  BY <1>1, <1>2, <1>p, <1>x, OfExchange, PairOf DEF MessageFits
<1>5. NewState(p, x, s) /\ s \in ExchangeStates
  BY <1>p, <1>s, <1>x DEF NewState, Round!receiveCredential, ExchangeStates
<1>6. Ends(x)' = <<"CredentialReceived", "CredentialIssued">>
  BY <1>2, <1>4, <1>5, <1>p, <1>s, NewEnds
<1>7. k \in ExchangeTodo /\ k.x = x /\ k.call = "verify" /\ k.who = "applicant"
  BY <1>2, <1>k, <1>x, ExchangeCallOK DEF ExchangeCalls
<1>8. /\ rec' \in [Round!Parties -> FlowRecords]
      /\ \A q \in Round!Parties : rec'[q].state = rec[q].state /\ rec'[q].thread = rec[q].thread
      /\ \A c \in todo' \ (todo \cup {k}) : c \in PlainTodo
  <2>1. rec[p].state \in Round!VtFlowState /\ rec \in [Round!Parties -> FlowRecords]
    BY <1>2, OfRecord
  <2>2. Round!Listen(p, x, rec[p].state, todo \cup {k})
    BY <1>k, <1>p, <1>x DEF Round!receiveCredential
  <2> QED
    BY <1>2, <2>1, <2>2, ListenStep
<1>9. NewCalls(x)
  <2>1. CallFits(k)'
    BY <1>6, <1>7 DEF CallFits
  <2>2. \A c \in todo : ~(c.call \in {"issue", "verify"} /\ c.x = x)
    BY <1>2, <1>4, NoCall
  <2> QED
    BY <1>7, <1>8, <2>1, <2>2 DEF NewCalls
<1>10. Completes(p, x, s, t) /\ Ends(x)' \in EndPairs
  BY <1>6, <1>8 DEF Completes, EndPairs
<1> QED
  BY <1>2, <1>3, <1>4, <1>5, <1>8, <1>9, <1>10, <1>t, ExchangeMove

\* The applicant's hook, and the acknowledgement that it sends.
LEMMA VerifyStep ==
    ASSUME RoundInv, NEW c \in todo, Round!verifyCredential(c),
           UNCHANGED <<entry, news, onboarding, starts>>
    PROVE  RoundInv'
<1> USE Names
<1>p. PICK p : p = "applicant"
  OBVIOUS
<1>x. PICK x : x = c.x
  OBVIOUS
<1>s. PICK s : s = "Done"
  OBVIOUS
<1>t. PICK t : t = xs[p][x].parent
  OBVIOUS
<1>n. PICK n : n = Round!ExchangeMsg("validator", "ack", 0, c.x)
  OBVIOUS
<1>1. c.call = "verify" /\ c.call \in ExchangeCalls
  BY DEF Round!verifyCredential, ExchangeCalls
<1>2. x \in Round!Exchanges /\ ~NotYetValid /\ p \in Round!Parties
  BY <1>1, <1>p, <1>x, OfExchangeCall
<1>3. /\ Ends(x) = <<"CredentialReceived", "CredentialIssued">> /\ xs[p][x].state # "Done"
      /\ Ends(x) = <<xs["applicant"][x].state, xs["validator"][x].state>>
  BY <1>1, <1>2, <1>p, <1>x, OfExchange, PairOf DEF CallFits
<1>r. /\ rec \in [Round!Parties -> FlowRecords] /\ starts \in 0..MaxStarts
      /\ news \in [Round!Parties -> SUBSET {"validated", "revoked"}]
  BY OfRecord
<1>4. CASE todo' = todo \ {c} /\ UNCHANGED <<rec, xs, msgs>>
  BY <1>2, <1>4, <1>r, OneRecord, FlowStepInv
<1>5. ASSUME xs' = [xs EXCEPT !["applicant"][c.x].state = "Done"],
             msgs' = msgs \cup {Round!ExchangeMsg("validator", "ack", 0, c.x)},
             Round!Listen("applicant", c.x, "COMPLETED", todo \ {c})
      PROVE  RoundInv'
  <2>1. NewState(p, x, s) /\ s \in ExchangeStates
    BY <1>5, <1>p, <1>s, <1>x DEF NewState, ExchangeStates
  <2>2. Ends(x)' = <<"Done", "CredentialIssued">> /\ xs'["applicant"][x].state = "Done"
    BY <1>2, <1>3, <1>p, <1>s, <2>1, NewEnds
  <2>3. /\ rec' \in [Round!Parties -> FlowRecords]
        /\ \A q \in Round!Parties : rec'[q].state = "COMPLETED" =>
              \/ rec[q].state = "COMPLETED" /\ rec'[q].thread = rec[q].thread
              \/ q = p /\ xs[p][x].parent = rec'[q].thread
        /\ \A d \in todo' \ (todo \ {c}) : d \in PlainTodo
    <3>1. Round!Listen(p, x, "COMPLETED", todo \ {c})
      BY <1>5, <1>p, <1>x
    <3> QED
      BY <1>2, <1>r, <3>1, ListenStep
  <2>4. n \in ExchangeMessages /\ n.x = x /\ n.type = "ack"
    <3>1. "ack" \in ExchangeTypes /\ 0 \in 0..MaxStarts + 1
      BY OnboardingBounds DEF ExchangeTypes
    <3> QED
      BY <1>2, <1>n, <1>x, <3>1, ExchangeMsgOK
  <2>5. NewMessages(x)
    <3>1. MessageFits(n)'
      BY <2>2, <2>4 DEF MessageFits
    <3>2. \A m \in msgs : ~(m.type \in ExchangeTypes /\ m.x = x)
      BY <1>2, <1>3, NoMessage
    <3>3. msgs' = msgs \cup {n}
      BY <1>5, <1>n
    <3> QED
      BY <2>4, <3>1, <3>2, <3>3 DEF NewMessages
  <2>6. NewCalls(x)
    <3>1. \A d \in todo : d.call \in {"issue", "verify"} /\ d.x = x => d = c
      BY <1>1, <1>2, <1>3, <1>x, NoCall
    <3>2. c \notin PlainTodo
      BY <1>1 DEF PlainTodo, PlainCalls
    <3> QED
      BY <2>3, <3>1, <3>2 DEF NewCalls
  <2>7. Completes(p, x, s, t) /\ Ends(x)' \in EndPairs
    BY <1>s, <1>t, <2>2, <2>3 DEF Completes, EndPairs
  <2> QED
    BY <1>2, <1>3, <1>t, <2>1, <2>3, <2>5, <2>6, <2>7, ExchangeMove
<1> QED
  BY <1>4, <1>5 DEF Round!verifyCredential

\* issueCredentialForSession, and the operator's second attempt.
LEMMA IssueSteps ==
    ASSUME RoundInv, (\E c \in todo : Round!issueCredentialForSession(c)) \/ Round!reissueCredential,
           UNCHANGED <<entry, news, onboarding, starts>>
    PROVE  RoundInv'
<1> USE Names
<1>p. PICK p : p = "validator"
  OBVIOUS
<1>r. /\ rec \in [Round!Parties -> FlowRecords] /\ rec[p] \in FlowRecords
      /\ rec[p].xchg \in 0..MaxExchanges /\ p \in Round!Parties
      /\ rec[p].thread \in 0..MaxStarts + 1
      /\ NotYetValid => rec[p].state \notin AfterValidation
  BY <1>p, OfRecord
\* A credential goes out, for an exchange that waits for it.
<1>1. ASSUME NEW x \in Round!Exchanges, ~NotYetValid,
             Ends(x) \in {<<"RequestSent", "RequestReceived">>, <<"RequestSent", "Unanchored">>},
             xs' = [xs EXCEPT !["validator"][x].state = "CredentialIssued"],
             msgs' = msgs \cup {Round!Deliver(x)}, rec' = rec, todo' \subseteq todo,
             \A d \in todo' : ~(d.call \in {"issue", "verify"} /\ d.x = x)
      PROVE  RoundInv'
  <2>1. PICK s : s = "CredentialIssued"
    OBVIOUS
  <2>2. PICK t : t = xs[p][x].parent
    OBVIOUS
  <2>3. PICK n : n = Round!Deliver(x)
    OBVIOUS
  <2>4. NewState(p, x, s) /\ s \in ExchangeStates
    BY <1>1, <1>p, <2>1 DEF NewState, ExchangeStates
  <2>5. xs[p][x].state # "Done" /\ Ends(x)' = <<"RequestSent", "CredentialIssued">>
    <3>1. Ends(x) = <<xs["applicant"][x].state, xs["validator"][x].state>>
      BY PairOf
    <3> QED
      BY <1>1, <1>p, <1>r, <2>1, <2>4, <3>1, NewEnds
  <2>6. n \in ExchangeMessages /\ n.x = x /\ n.type = "credential"
    <3>1. "credential" \in ExchangeTypes /\ 0 \in 0..MaxStarts + 1
      BY OnboardingBounds DEF ExchangeTypes
    <3> QED
      BY <2>3, <3>1, ExchangeMsgOK DEF Round!Deliver
  <2>7. NewMessages(x)
    <3>1. MessageFits(n)'
      BY <2>5, <2>6 DEF MessageFits
    <3>2. \A m \in msgs : ~(m.type \in ExchangeTypes /\ m.x = x)
      BY <1>1, NoMessage
    <3>3. msgs' = msgs \cup {n}
      BY <1>1, <2>3
    <3> QED
      BY <2>6, <3>1, <3>2, <3>3 DEF NewMessages
  <2>8. NewCalls(x) /\ Completes(p, x, s, t) /\ Ends(x)' \in EndPairs
    BY <1>1, <2>5 DEF NewCalls, Completes, EndPairs
  <2>9. rec' \in [Round!Parties -> FlowRecords] /\ ~NotYetValid
    BY <1>1, <1>r
  <2> QED
    BY <1>r, <2>2, <2>4, <2>5, <2>7, <2>8, <2>9, ExchangeMove
\* Or it is not anchored.
<1>2. ASSUME NEW x \in Round!Exchanges, ~NotYetValid,
             Ends(x) = <<"RequestSent", "RequestReceived">>,
             xs' = [xs EXCEPT !["validator"][x].state = "Unanchored"],
             \A m \in msgs' \ msgs : m \in PlainMessages,
             rec' \in [Round!Parties -> FlowRecords],
             \A q \in Round!Parties : rec'[q].state = "COMPLETED" =>
                rec[q].state = "COMPLETED" /\ rec'[q].thread = rec[q].thread,
             \A d \in todo' \ todo : d \in PlainTodo,
             \A d \in todo' \cap todo : ~(d.call \in {"issue", "verify"} /\ d.x = x)
      PROVE  RoundInv'
  <2>1. PICK s : s = "Unanchored"
    OBVIOUS
  <2>2. PICK t : t = xs[p][x].parent
    OBVIOUS
  <2>3. NewState(p, x, s) /\ s \in ExchangeStates
    BY <1>2, <1>p, <2>1 DEF NewState, ExchangeStates
  <2>4. xs[p][x].state # "Done" /\ Ends(x)' = <<"RequestSent", "Unanchored">>
    <3>1. Ends(x) = <<xs["applicant"][x].state, xs["validator"][x].state>>
      BY PairOf
    <3> QED
      BY <1>2, <1>p, <1>r, <2>1, <2>3, <3>1, NewEnds
  <2>5. \A m \in msgs : ~(m.type \in ExchangeTypes /\ m.x = x)
    BY <1>2, NoMessage
  <2>6. NewMessages(x)
    <3>1. \A m \in PlainMessages : m \notin ExchangeMessages
      BY DEF PlainMessages, ExchangeMessages, PlainTypes, ExchangeTypes
    <3>2. \A m \in msgs' \ msgs : m \in PlainMessages
      BY <1>2
    <3> QED
      BY <2>5, <3>1, <3>2 DEF NewMessages
  <2>7. NewCalls(x) /\ Completes(p, x, s, t) /\ Ends(x)' \in EndPairs
    BY <1>2, <2>4 DEF NewCalls, Completes, EndPairs
  <2>8. rec' \in [Round!Parties -> FlowRecords] /\ ~NotYetValid
    BY <1>2
  <2> QED
    BY <1>r, <2>2, <2>3, <2>4, <2>6, <2>7, <2>8, ExchangeMove
<1>3. ASSUME NEW c \in todo, Round!issueCredentialForSession(c) PROVE RoundInv'
  <2>x. PICK x : x = c.x
    OBVIOUS
  <2>1. c.call = "issue" /\ c.call \in ExchangeCalls
    BY <1>3 DEF Round!issueCredentialForSession, ExchangeCalls
  <2>2. x \in Round!Exchanges /\ ~NotYetValid
    BY <2>1, <2>x, OfExchangeCall
  <2>3. Ends(x) = <<"RequestSent", "RequestReceived">>
    BY <2>1, <2>2, <2>x, OfExchange DEF CallFits
  <2>4. \A d \in todo : d.call \in {"issue", "verify"} /\ d.x = x => d = c
    BY <2>1, <2>2, <2>3, <2>x, NoCall
  <2>5. c \notin PlainTodo
    BY <2>1 DEF PlainTodo, PlainCalls
  <2>6. ASSUME xs' = [xs EXCEPT !["validator"][c.x].state = "CredentialIssued"],
               msgs' = msgs \cup {Round!Deliver(c.x)}, todo' = todo \ {c}, rec' = rec
        PROVE  RoundInv'
    <3>1. \A d \in todo' : ~(d.call \in {"issue", "verify"} /\ d.x = x)
      BY <2>4, <2>6
    <3> QED
      BY <1>1, <2>2, <2>3, <2>6, <2>x, <3>1
  <2>7. ASSUME xs' = [xs EXCEPT !["validator"][c.x].state = "Unanchored"],
               todo' = todo \ {c}, UNCHANGED <<rec, msgs>>
        PROVE  RoundInv'
    <3>1. /\ \A m \in msgs' \ msgs : m \in PlainMessages
          /\ rec' \in [Round!Parties -> FlowRecords]
          /\ \A q \in Round!Parties : rec'[q].state = "COMPLETED" =>
                rec[q].state = "COMPLETED" /\ rec'[q].thread = rec[q].thread
          /\ \A d \in todo' \ todo : d \in PlainTodo
          /\ \A d \in todo' \cap todo : ~(d.call \in {"issue", "verify"} /\ d.x = x)
      BY <1>r, <2>4, <2>7
    <3> QED
      BY <1>2, <2>2, <2>3, <2>7, <2>x, <3>1
  <2>8. ASSUME xs' = [xs EXCEPT !["validator"][c.x].state = "Unanchored"],
               Round!updateState("validator", rec["validator"], "TERMINATED_BY_VALIDATOR", todo \ {c}),
               msgs' = msgs \cup {Round!Report("applicant", "InternalError", rec["validator"].thread)}
        PROVE  RoundInv'
    <3>1. \A m \in msgs' \ msgs : m \in PlainMessages
      <4>1. Round!Report("applicant", "InternalError", rec["validator"].thread) \in PlainMessages
        BY <1>p, <1>r, PlainReport
      <4> QED
        BY <2>8, <4>1
    <3>2. /\ rec' \in [Round!Parties -> FlowRecords] /\ rec'[p].state = "TERMINATED_BY_VALIDATOR"
          /\ \A q \in Round!Parties \ {p} : rec'[q] = rec[q]
          /\ \A d \in todo' \ (todo \ {c}) : d \in PlainTodo
      BY <1>p, <1>r, <2>8, UpdateState
    <3>3. \A q \in Round!Parties : rec'[q].state = "COMPLETED" =>
              rec[q].state = "COMPLETED" /\ rec'[q].thread = rec[q].thread
      BY <3>2
    <3>4. /\ \A d \in todo' \ todo : d \in PlainTodo
          /\ \A d \in todo' \cap todo : ~(d.call \in {"issue", "verify"} /\ d.x = x)
      BY <2>4, <2>5, <3>2
    <3> QED
      BY <1>2, <2>2, <2>3, <2>8, <2>x, <3>1, <3>2, <3>3, <3>4
  <2> QED
    BY <1>3, <2>6, <2>7, <2>8 DEF Round!issueCredentialForSession
<1>4. ASSUME Round!reissueCredential PROVE RoundInv'
  <2>x. PICK x : x = rec["validator"].xchg
    OBVIOUS
  <2>1. /\ rec["validator"].state = "CRED_OFFERED" /\ x # 0
        /\ xs["validator"][x].state = "Unanchored"
        /\ xs' = [xs EXCEPT !["validator"][x].state = "CredentialIssued"]
        /\ msgs' = msgs \cup {Round!Deliver(x)} /\ UNCHANGED <<rec, todo>>
    BY <1>4, <2>x DEF Round!reissueCredential
  <2>2. x \in Round!Exchanges
    BY <1>p, <1>r, <2>1, <2>x, OnboardingBounds DEF Round!Exchanges
  <2>3. ~NotYetValid
    BY <1>p, <1>r, <2>1 DEF AfterValidation
  <2>4. Ends(x) = <<"RequestSent", "Unanchored">>
    BY <2>1, <2>2, PairOf
  <2>5. \A d \in todo' : ~(d.call \in {"issue", "verify"} /\ d.x = x)
    BY <2>1, <2>2, <2>4, NoCall
  <2> QED
    BY <1>1, <2>1, <2>2, <2>3, <2>4, <2>5
<1> QED
  BY <1>3, <1>4

\* Every step of the two parties, the chain and the network.
LEMMA RoundNext == RoundInv /\ Round!Next => RoundInv'
<1> SUFFICES ASSUME RoundInv, Round!Next PROVE RoundInv'
  OBVIOUS
<1>1. ASSUME NEW m \in msgs, Round!Receive(m) PROVE RoundInv'
  <2>1. UNCHANGED <<entry, news, onboarding, starts>>
    BY <1>1 DEF Round!Receive, Round!chain, Round!bounds
  <2>2. CASE \/ m.type = "onboarding-request" /\ Round!processReceiveOnboardingRequest(m)
             \/ m.type = "issuance-request" /\ Round!processReceiveIssuanceRequest(m)
    BY <2>1, <2>2, ReceiveRequestSteps, FlowStepInv
  <2>3. CASE \/ Round!processReceiveOobLink(m) \/ Round!processReceiveValidating(m)
             \/ Round!processReceiveCredentialStateChange(m) \/ Round!processReceiveProblemReport(m)
    BY <2>1, <2>3, ReceiveFlowSteps, FlowStepInv
  <2> QED
    BY <1>1, <2>1, <2>2, <2>3, ReceiveOfferStep, ValidatorReceives, ReceiveCredentialStep
       DEF Round!Receive
<1>2. ASSUME NEW c \in todo, Round!Automatic(c) PROVE RoundInv'
  <2>1. UNCHANGED <<entry, news, onboarding, starts>>
    BY <1>2 DEF Round!Automatic, Round!chain, Round!bounds
  <2>2. CASE \/ Round!acceptOnboardingRequest(c) \/ Round!acceptIssuanceRequest(c)
             \/ Round!offerRefused(c) \/ Round!attachCredentialExchangeRecord(c)
    BY <2>1, <2>2, AutomaticFlowSteps, FlowStepInv
  <2> QED
    BY <1>2, <2>1, <2>2, OfferStep, AcceptOfferStep, IssueSteps, VerifyStep DEF Round!Automatic
<1>3. CASE Round!AdminCall
  <2>1. UNCHANGED <<entry, news, onboarding, starts>>
    BY <1>3 DEF Round!AdminCall, Round!chain
  <2> QED
    BY <1>3, <2>1, AdminFlowSteps, IssueSteps, FlowStepInv DEF Round!AdminCall
<1>4. CASE \/ Round!Validate \/ Round!Renew \/ Round!Revoke
           \/ \E p \in Round!Parties : Round!onValidated(p) \/ Round!onRevoked(p)
           \/ \E m \in msgs : Round!Lose(m)
  BY <1>4, ChainFlowSteps, FlowStepInv
<1>5. CASE \/ Round!sendOnboardingRequest \/ Round!resendOnboardingRequest \/ Round!sendIssuanceRequest
  BY <1>5, RequestSteps, FlowStepInv
<1> QED
  BY <1>1, <1>2, <1>3, <1>4, <1>5 DEF Round!Next

\* What the invariant says of the parts of OnboardingSound.
LEMMA RoundSound == RoundInv => Round!TypeOK /\ Round!CompletedThisRound /\ Round!OfferNeedsEntry
<1> SUFFICES ASSUME RoundInv PROVE Round!TypeOK /\ Round!CompletedThisRound /\ Round!OfferNeedsEntry
  OBVIOUS
<1>1. RoundTypes /\ BeforeInv /\ Round!CompletedThisRound
  BY DEF RoundInv
<1>2. Round!TypeOK
  BY <1>1 DEF RoundTypes, Round!TypeOK, FlowRecords, ExchangeRecords, PlainTodo, ExchangeTodo,
              FlowCalls, PlainMessages, ExchangeMessages, FlowMessages
<1>3. Round!OfferNeedsEntry
  BY <1>1, Names DEF BeforeInv, NotYetValid, Round!OfferNeedsEntry, AfterValidation, Ends
<1> QED
  BY <1>1, <1>2, <1>3


(***************************************************************************)
(* The view of the operator, when an edit of the claims does not overlap   *)
(* with other calls.                                                       *)
(***************************************************************************)

DeskStates ==
    Desk!VtFlowValidatedFromStates \cup Desk!Ended
        \cup {"VALIDATED", "VALIDATED_PENDING_CLAIMS", "CRED_OFFERED"}
DeskRecords ==
    [state : DeskStates, claims : Desk!Claims, link : {"none", "open", "expires", "expired"},
     tx : {"none", "FAILED"}]

\* An edit under way holds the record as it still is, and the credential that
\* is about to be offered the claims on it: both keep the others out.
DeskInv ==
    /\ deskRec \in DeskRecords
    /\ (deskRec.link # "none") <=> (deskRec.state = "OOB_PENDING")
    /\ deskEntry \in {"PENDING", "VALIDATED"} /\ offered \in Desk!Good \cup {"none"}
    /\ editing = Desk!NoEdit \/
          /\ editing.at = "write" /\ editing.copy = deskRec /\ editing.claims \in Desk!Claims
          /\ deskRec.state \in Desk!EDIT_CLAIMS_STATES /\ issuing.at = "idle"
    /\ issuing.at \in {"idle", "read", "attach"}
    /\ issuing.at = "attach" => issuing.claims = deskRec.claims /\ deskRec.claims \in Desk!Good
    /\ Desk!OfferedIsRecorded

\* DeskInv holds of every record the operator may find.
LEMMA DeskInit == Desk!Init => DeskInv
  BY DEF Desk!Init, DeskInv, DeskRecords, DeskStates, Desk!VtFlowValidatedFromStates, Desk!NoEdit,
         Desk!OfferedIsRecorded

\* updateState of the record of the validator ends the link.
LEMMA MovedRecord ==
    ASSUME NEW r \in DeskRecords, (r.link # "none") <=> (r.state = "OOB_PENDING"),
           NEW s \in DeskStates \ {"OOB_PENDING"}
    PROVE  /\ Desk!Moved(r, s) \in DeskRecords
           /\ Desk!Moved(r, s).state = s /\ Desk!Moved(r, s).claims = r.claims
           /\ Desk!Moved(r, s).link = "none"
  BY DEF Desk!Moved, DeskRecords

\* So it does where the anchoring is forgotten with it.
LEMMA ClearedRecord ==
    ASSUME NEW r \in DeskRecords, (r.link # "none") <=> (r.state = "OOB_PENDING"),
           NEW s \in DeskStates \ {"OOB_PENDING"}
    PROVE  /\ [Desk!Moved(r, s) EXCEPT !.tx = "none"] \in DeskRecords
           /\ [Desk!Moved(r, s) EXCEPT !.tx = "none"].state = s
           /\ [Desk!Moved(r, s) EXCEPT !.tx = "none"].claims = r.claims
           /\ [Desk!Moved(r, s) EXCEPT !.tx = "none"].link = "none"
  BY DEF Desk!Moved, DeskRecords

\* The record moves to another state, and no claims change.
DeskMove(s) ==
    /\ deskRec' \in DeskRecords /\ deskRec'.state = s /\ deskRec'.claims = deskRec.claims
    /\ deskRec'.link = "none"

\* Outside of an edit such a move keeps the invariant, unless it offers.
LEMMA DeskMoveInv ==
    ASSUME DeskInv, NEW s \in DeskStates \ {"OOB_PENDING", "CRED_OFFERED", "COMPLETED"}, DeskMove(s),
           editing = Desk!NoEdit, editing' = editing, offered' = offered,
           deskEntry' \in {"PENDING", "VALIDATED"},
           issuing' = issuing \/ issuing'.at \in {"idle", "read"}
    PROVE  DeskInv'
  BY DEF DeskInv, DeskMove, Desk!OfferedIsRecorded

\* Where the operations of the validator move the record.
LEMMA DeskNames ==
    /\ {"AWAITING_OR", "VALIDATING", "AWAITING_VALIDATION_TX", "VALIDATION_TX_SUBMITTED",
        "VALIDATION_TX_FAILED", "VALIDATED", "VALIDATED_PENDING_CLAIMS",
        "TERMINATED_BY_VALIDATOR"} \subseteq DeskStates \ {"OOB_PENDING", "CRED_OFFERED", "COMPLETED"}
    /\ {"CRED_OFFERED", "COMPLETED"} \subseteq DeskStates \ {"OOB_PENDING"}
    /\ "OOB_PENDING" \in DeskStates
  BY DEF DeskStates, Desk!VtFlowValidatedFromStates, Desk!Ended

\* Every operation and every late step of one keeps DeskInv.
LEMMA DeskNext == DeskInv /\ Desk!Next => DeskInv'
<1> SUFFICES ASSUME DeskInv, Desk!Next PROVE DeskInv'
  OBVIOUS
<1> USE DeskNames
<1>r. deskRec \in DeskRecords /\ ((deskRec.link # "none") <=> (deskRec.state = "OOB_PENDING"))
      /\ deskEntry \in {"PENDING", "VALIDATED"}
  BY DEF DeskInv
<1>m. ASSUME NEW s \in DeskStates \ {"OOB_PENDING"}, Desk!Move(s) PROVE DeskMove(s)
  <2> DEFINE n == Desk!Moved(deskRec, s)
  <2>1. deskRec' = n
    BY <1>m DEF Desk!Move
  <2>2. n \in DeskRecords /\ n.state = s /\ n.claims = deskRec.claims /\ n.link = "none"
    BY <1>r, MovedRecord
  <2> HIDE DEF n
  <2> QED
    BY <2>1, <2>2 DEF DeskMove
<1>q. Desk!Alone => editing = Desk!NoEdit /\ issuing.at = "idle"
  BY DEF Desk!Alone, Desk!Quiet
<1>i. Desk!Issue => issuing'.at = "read"
  BY DEF Desk!Issue
<1>1. CASE Desk!acceptOnboardingRequest
  <2>1. editing = Desk!NoEdit
    BY <1>1 DEF Desk!acceptOnboardingRequest, DeskInv, Desk!EDIT_CLAIMS_STATES
  <2> QED
    BY <1>1, <1>m, <1>r, <2>1, DeskMoveInv DEF Desk!acceptOnboardingRequest
<1>2. CASE Desk!updateClaims
  <2> DEFINE r == [deskRec EXCEPT !.claims = editing.claims]
  <2>1. /\ editing.copy = deskRec /\ editing.claims \in Desk!Claims /\ issuing.at = "idle"
        /\ deskRec.state \in Desk!EDIT_CLAIMS_STATES
    BY <1>2 DEF Desk!updateClaims, DeskInv, Desk!NoEdit
  <2>2. r \in DeskRecords /\ r.state = deskRec.state /\ r.link = deskRec.link
    BY <1>r, <2>1 DEF DeskRecords
  <2>3. deskRec' = r /\ editing' = Desk!NoEdit /\ UNCHANGED <<deskEntry, issuing, offered>>
    BY <1>2, <2>1 DEF Desk!updateClaims
  <2>4. deskRec.state \notin {"CRED_OFFERED", "COMPLETED"}
    BY <2>1 DEF Desk!EDIT_CLAIMS_STATES, Desk!VtFlowValidatedFromStates
  <2> HIDE DEF r
  <2> QED
    BY <2>1, <2>2, <2>3, <2>4 DEF DeskInv, Desk!OfferedIsRecorded
<1>3. CASE Desk!markValidated
  BY <1>3, <1>i, <1>m, <1>q, <1>r, DeskMoveInv DEF Desk!markValidated
<1>4. CASE Desk!issuanceAfterValidated
  <2>1. issuing.at = "read" /\ UNCHANGED <<deskEntry, editing, offered>>
    BY <1>4 DEF Desk!issuanceAfterValidated
  <2>2. editing = Desk!NoEdit
    BY <2>1 DEF DeskInv
  <2>3. CASE /\ Desk!Move("VALIDATED_PENDING_CLAIMS")
             /\ issuing' = [at |-> "idle", claims |-> "none"]
    BY <1>m, <1>r, <2>1, <2>2, <2>3, DeskMoveInv
  <2>4. CASE deskRec' = deskRec /\ issuing' = [at |-> "idle", claims |-> "none"]
    BY <2>1, <2>2, <2>4 DEF DeskInv, Desk!OfferedIsRecorded
  <2>5. CASE /\ deskRec.claims # "bad" /\ deskRec' = deskRec
             /\ issuing' = [at |-> "attach", claims |-> deskRec.claims]
    <3>1. deskRec.claims \in Desk!Good
      BY <1>r, <2>5 DEF DeskRecords, Desk!Claims
    <3> QED
      BY <2>1, <2>2, <2>5, <3>1 DEF DeskInv, Desk!OfferedIsRecorded
  <2> QED
    BY <1>4, <2>3, <2>4, <2>5 DEF Desk!issuanceAfterValidated
<1>5. CASE Desk!attach
  <2>1. /\ issuing.at = "attach" /\ issuing'.at = "idle" /\ offered' = issuing.claims
        /\ UNCHANGED <<deskEntry, editing>>
    BY <1>5 DEF Desk!attach
  <2>2. editing = Desk!NoEdit /\ issuing.claims = deskRec.claims /\ deskRec.claims \in Desk!Good
    BY <2>1 DEF DeskInv
  <2>3. CASE deskRec' = deskRec
    BY <2>1, <2>2, <2>3 DEF DeskInv, Desk!OfferedIsRecorded
  <2>4. CASE deskRec' = [Desk!Moved(deskRec, "CRED_OFFERED") EXCEPT !.tx = "none"]
    <3>1. DeskMove("CRED_OFFERED")
      BY <1>r, <2>4, ClearedRecord DEF DeskMove
    <3> QED
      BY <2>1, <2>2, <3>1 DEF DeskInv, DeskMove, Desk!OfferedIsRecorded
  <2> QED
    BY <1>5, <2>3, <2>4 DEF Desk!attach
<1>6. CASE Desk!anchor
  <2>1. /\ deskRec.state = "CRED_OFFERED" /\ editing = Desk!NoEdit
        /\ UNCHANGED <<deskEntry, editing, issuing, offered>>
    BY <1>6 DEF Desk!anchor, Desk!Quiet
  <2>2. CASE Desk!Move("COMPLETED")
    <3>1. DeskMove("COMPLETED")
      BY <1>m, <2>2
    <3> QED
      BY <2>1, <3>1 DEF DeskInv, DeskMove, Desk!OfferedIsRecorded
  <2>3. CASE deskRec' = [deskRec EXCEPT !.tx = "FAILED"]
    <3>1. DeskMove("CRED_OFFERED")
      BY <1>r, <2>1, <2>3 DEF DeskMove, DeskRecords
    <3> QED
      BY <2>1, <3>1 DEF DeskInv, DeskMove, Desk!OfferedIsRecorded
  <2> QED
    BY <1>6, <2>2, <2>3 DEF Desk!anchor
<1>7. CASE Desk!sendOobLink
  <2>1. PICK l \in {"open", "expires"} : deskRec' = [deskRec EXCEPT !.state = "OOB_PENDING", !.link = l]
    BY <1>7 DEF Desk!sendOobLink
  <2>2. /\ deskRec' \in DeskRecords /\ deskRec'.state = "OOB_PENDING" /\ deskRec'.link # "none"
        /\ deskRec'.claims = deskRec.claims
    BY <1>r, <2>1 DEF DeskRecords
  <2>3. UNCHANGED <<deskEntry, editing, issuing, offered>> /\ editing = Desk!NoEdit
    BY <1>7, <1>q DEF Desk!sendOobLink
  <2> QED
    BY <2>2, <2>3 DEF DeskInv, Desk!OfferedIsRecorded
<1>8. CASE Desk!linkExpires
  <2>1. /\ deskRec' \in DeskRecords /\ deskRec'.state = deskRec.state /\ deskRec'.link # "none"
        /\ deskRec'.claims = deskRec.claims /\ deskRec.link # "none"
    BY <1>8, <1>r DEF Desk!linkExpires, DeskRecords
  <2>2. UNCHANGED <<deskEntry, editing, issuing, offered>> /\ editing = Desk!NoEdit
    BY <1>8 DEF Desk!linkExpires, Desk!Quiet
  <2> QED
    BY <2>1, <2>2 DEF DeskInv, Desk!OfferedIsRecorded
<1>9. CASE Desk!startValidation
  BY <1>9, <1>m, <1>q, <1>r, DeskMoveInv DEF Desk!startValidation
<1>10. CASE Desk!validateFlow
  <2>1. UNCHANGED <<deskEntry, editing, offered>> /\ editing = Desk!NoEdit /\ issuing.at = "idle"
    BY <1>10, <1>q DEF Desk!validateFlow
  <2>2. CASE Desk!Issue /\ deskRec' = deskRec
    BY <1>i, <2>1, <2>2 DEF DeskInv, Desk!OfferedIsRecorded
  <2>3. CASE Desk!Move("VALIDATED") /\ Desk!Issue
    BY <1>i, <1>m, <1>r, <2>1, <2>3, DeskMoveInv
  <2>4. CASE /\ UNCHANGED issuing
             /\ \/ Desk!Move("AWAITING_VALIDATION_TX") \/ Desk!Move("VALIDATION_TX_SUBMITTED")
                \/ Desk!Move("VALIDATION_TX_FAILED")
    BY <1>m, <1>r, <2>1, <2>4, DeskMoveInv
  <2> QED
    BY <1>10, <2>2, <2>3, <2>4 DEF Desk!validateFlow
<1>11. CASE Desk!reissue
  <2>1. DeskMove("CRED_OFFERED") /\ deskRec.state = "CRED_OFFERED"
    BY <1>11, <1>r DEF Desk!reissue, Desk!ReissueAccepted, DeskMove, DeskRecords
  <2>2. UNCHANGED <<deskEntry, editing, issuing, offered>> /\ editing = Desk!NoEdit
    BY <1>11, <1>q DEF Desk!reissue
  <2> QED
    BY <2>1, <2>2 DEF DeskInv, DeskMove, Desk!OfferedIsRecorded
<1>12. CASE Desk!rejectFlow
  BY <1>12, <1>m, <1>q, <1>r, DeskMoveInv DEF Desk!rejectFlow
<1>13. ASSUME NEW c \in Desk!Claims, Desk!editCredentialClaims(c) PROVE DeskInv'
  <2>1. /\ editing' = [at |-> "write", copy |-> deskRec, claims |-> c]
        /\ deskRec.state \in Desk!EDIT_CLAIMS_STATES /\ issuing.at = "idle"
        /\ UNCHANGED <<deskRec, deskEntry, issuing, offered>>
    BY <1>13, <1>q DEF Desk!editCredentialClaims
  <2> QED
    BY <1>13, <2>1 DEF DeskInv, Desk!OfferedIsRecorded
<1>14. CASE Desk!operatorSubmits
  BY <1>14 DEF Desk!operatorSubmits, DeskInv, Desk!OfferedIsRecorded
<1>15. CASE Desk!txSettles
  <2>1. UNCHANGED <<editing, issuing, offered>>
    BY <1>15 DEF Desk!txSettles
  <2>2. CASE deskEntry' = "VALIDATED" /\ UNCHANGED deskRec
    BY <2>1, <2>2 DEF DeskInv, Desk!OfferedIsRecorded
  <2>3. CASE Desk!Quiet /\ Desk!Move("VALIDATION_TX_FAILED") /\ UNCHANGED deskEntry
    BY <1>m, <1>r, <2>1, <2>3, DeskMoveInv DEF Desk!Quiet
  <2> QED
    BY <1>15, <2>2, <2>3 DEF Desk!txSettles
<1>16. CASE Desk!loseConnection
  BY <1>16 DEF Desk!loseConnection, DeskInv, Desk!OfferedIsRecorded
<1>17. CASE Desk!reattach
  <2>1. UNCHANGED <<deskEntry, editing, issuing, offered>> /\ editing = Desk!NoEdit
    BY <1>17 DEF Desk!reattach, Desk!Quiet
  <2>2. CASE deskRec' = [Desk!Moved(deskRec, "VALIDATED") EXCEPT !.tx = "none"]
    <3>1. DeskMove("VALIDATED")
      BY <1>r, <2>2, ClearedRecord DEF DeskMove
    <3> QED
      BY <1>r, <2>1, <3>1, DeskMoveInv
  <2>3. CASE deskRec' = deskRec
    BY <2>1, <2>3 DEF DeskInv, Desk!OfferedIsRecorded
  <2> QED
    BY <1>17, <2>2, <2>3 DEF Desk!reattach
<1> QED
  BY <1>1, <1>2, <1>3, <1>4, <1>5, <1>6, <1>7, <1>8, <1>9, <1>10, <1>11, <1>12, <1>13, <1>14, <1>15,
     <1>16, <1>17 DEF Desk!Next, Desk!Agent

\* What the operator is told and allowed follows from the states alone.
LEMMA DeskSound == DeskInv => Desk!TypeOK /\ Desk!ValidatorCanAct /\ Desk!OfferedIsRecorded
<1> SUFFICES ASSUME DeskInv PROVE Desk!TypeOK /\ Desk!ValidatorCanAct
  BY DEF DeskInv
<1>1. Desk!TypeOK
  BY DEF DeskInv, Desk!TypeOK, DeskRecords, DeskStates, Desk!NoEdit
<1>2. Desk!ValidatorCanAct
  <2>1. deskRec.state \in DeskStates /\ deskRec.claims \in Desk!Claims
    BY DEF DeskInv, DeskRecords
  <2> SUFFICES ASSUME Desk!pendingActionOf(deskRec) = "VALIDATOR"
               PROVE  \/ Desk!ReissueAccepted \/ deskRec.state = "AWAITING_VALIDATION_TX"
                      \/ deskRec.state \in Desk!ValidateStates /\ Desk!Repairable
    BY DEF Desk!ValidatorCanAct, Desk!Asked
  <2>2. \/ deskRec.state \in Desk!VALIDATOR_STATES \cup {"OOB_PENDING"}
        \/ deskRec.state = "CRED_OFFERED" /\ deskRec.tx = "FAILED"
    BY <2>1 DEF Desk!pendingActionOf, DeskStates, Desk!Ended, Desk!VtFlowValidatedFromStates,
                Desk!VALIDATOR_STATES
  <2> QED
    BY <2>2 DEF Desk!ReissueAccepted, Desk!ValidateStates, Desk!Repairable, Desk!VALIDATOR_STATES,
                Desk!EDIT_CLAIMS_STATES, Desk!VtFlowValidatedFromStates
<1> QED
  BY <1>1, <1>2


(***************************************************************************)
(* The parts as one system: a behaviour runs one of them, and the others   *)
(* keep their initial states.                                              *)
(***************************************************************************)

\* What every state satisfies of the part that its behaviour runs.
OnboardingInv ==
    /\ scenario \in {"renewal", "direct issuance"} => RoundInv
    /\ scenario = "one issuer" => AnchoringInv /\ OneCall
    /\ scenario = "desk" => DeskInv

\* Each part starts in a state of its invariant.
LEMMA OnboardingInit == MCInit => OnboardingInv
<1> SUFFICES ASSUME MCInit PROVE OnboardingInv
  OBVIOUS
<1>1. ASSUME scenario \in {"renewal", "direct issuance"} PROVE RoundInv
  <2>1. Round!Init
    BY <1>1 DEF MCInit
  <2> QED
    BY <2>1, RoundInit
<1>2. AnchoringInv /\ OneCall
  <2>1. Init
    BY DEF MCInit
  <2> QED
    BY <2>1, InitInv, OneCallInit
<1>3. ASSUME scenario = "desk" PROVE DeskInv
  <2>1. Desk!Init
    BY <1>3 DEF MCInit
  <2> QED
    BY <2>1, DeskInit
<1> QED
  BY <1>1, <1>2, <1>3 DEF OnboardingInv

\* The two parties rest while another part runs.
LEMMA RoundRests == RoundInv /\ UNCHANGED vtFlowVars => RoundInv'
<1> SUFFICES ASSUME RoundInv, UNCHANGED vtFlowVars PROVE RoundInv'
  OBVIOUS
<1>1. UNCHANGED <<rec, xs, msgs, todo, entry, news, onboarding, starts>>
  BY DEF vtFlowVars
<1>2. RoundTypes /\ BeforeInv
  BY DEF RoundInv
<1>3. FlowStep
  BY <1>1, <1>2 DEF FlowStep, RoundTypes, BeforeInv, NotYetValid
<1> QED
  BY <1>3, FlowStepInv

\* So does the view of the operator.
LEMMA DeskRests == DeskInv /\ UNCHANGED flowDeskVars => DeskInv'
  BY DEF DeskInv, flowDeskVars, Desk!OfferedIsRecorded

\* Every step, of whichever part, keeps the invariants.
LEMMA OnboardingNext == OnboardingInv /\ [MCNext]_allVars => OnboardingInv'
<1> SUFFICES ASSUME OnboardingInv, [MCNext]_allVars PROVE OnboardingInv'
  OBVIOUS
<1>0. scenario' = scenario
  BY DEF MCNext, allVars
<1>1. ASSUME scenario \in {"renewal", "direct issuance"} PROVE RoundInv'
  <2>1. RoundInv
    BY <1>1 DEF OnboardingInv
  <2>2. Round!Next \/ UNCHANGED vtFlowVars
    BY <1>1 DEF MCNext, allVars
  <2> QED
    BY <2>1, <2>2, RoundNext, RoundRests
<1>2. ASSUME scenario = "one issuer" PROVE AnchoringInv' /\ OneCall'
  <2>1. AnchoringInv /\ OneCall
    BY <1>2 DEF OnboardingInv
  <2>2. CASE Next /\ OneIssuer
    <3>1. AdminsInTurn'
      BY <2>2, OnboardingBounds DEF AdminsInTurn, Active, OneIssuer, Idle
    <3> QED
      BY <2>1, <2>2, <3>1, NextInv, OneCallNext
  <2>3. CASE UNCHANGED vars
    <3>1. AnchoringInv'
      BY <2>1, <2>3, NextInv
    <3>2. OneCall'
      BY <2>1, <2>3 DEF vars, OneCall, Active
    <3> QED
      BY <3>1, <3>2
  <2> QED
    BY <1>2, <2>2, <2>3 DEF MCNext, allVars
<1>3. ASSUME scenario = "desk" PROVE DeskInv'
  <2>1. DeskInv
    BY <1>3 DEF OnboardingInv
  <2>2. Desk!Next \/ UNCHANGED flowDeskVars
    BY <1>3 DEF MCNext, allVars
  <2> QED
    BY <2>1, <2>2, DeskNext, DeskRests
<1> QED
  BY <1>0, <1>1, <1>2, <1>3 DEF OnboardingInv

\* Renewed, rejected, lost or out of turn, one onboarding stays sound: a flow
\* is COMPLETED by a credential of its own round, nothing is offered before the
\* entry is VALIDATED, a FAILED anchoring was not delivered, and the operator
\* is told to act only where an operation moves the flow, on the claims that
\* are offered; for any number of rounds, exchanges, losses and operations.
THEOREM OnboardingIsSound == MCSpec => []OnboardingSound
<1>1. MCInit => OnboardingInv
  BY OnboardingInit
<1>2. OnboardingInv /\ [MCNext]_allVars => OnboardingInv'
  BY OnboardingNext
<1>3. OnboardingInv => OnboardingSound
  <2>1. OneCall => FailedIsUndelivered
    BY DEF OneCall, FailedIsUndelivered
  <2> QED
    BY <2>1, RoundSound, DeskSound DEF OnboardingInv, OnboardingSound
<1> QED
  BY <1>1, <1>2, <1>3, PTL DEF MCSpec

=============================================================================
