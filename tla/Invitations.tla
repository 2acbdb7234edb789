---------------------------- MODULE Invitations ----------------------------
(***************************************************************************)
(* One out-of-band invitation and the connections that peers open with it. *)
(* Credo binds a first message to an invitation that is not done, and      *)
(* marks a single-use one done only after it saved the connection, with no *)
(* lock between, so two peers that race both bind. The agent answers with  *)
(* two queues (one save at a time for each out-of-band record, one         *)
(* acceptance at a time for each invitation record) and with a listener    *)
(* that closes the extra connection. Meanwhile the administrator deletes   *)
(* the invitation in three steps, each of which can fail, and the short    *)
(* URL is served or not. The invitation is not under the public DID of     *)
(* the agent: the listener leaves one that is alone.                       *)
(***************************************************************************)
EXTENDS Naturals, Sequences, SequencesExt, FiniteSets

CONSTANTS
    MaxPeers,        \* bound: peers 1..MaxPeers; the number orders the ids of their connections
    Reusable,        \* the invitation is multi-use
    V2,              \* it is a DIDComm v2 invitation
    Recorded,        \* an invitation record wraps it; FALSE for one that carries an offer
    Reusers,         \* peers that answer with a handshake reuse of an older connection
    MaxDeletes       \* bound: administrator calls that delete something

VARIABLES
    creating,        \* how far createInvitation is
    oob,             \* state of Credo's out-of-band record
    tagged,          \* it has INVITATION_RECORD_TAG
    short,           \* the short URL record exists
    record,          \* the invitation record: state and acceptances
    conn,            \* per peer: its connection
    claims,          \* connections with INVITATION_ID_TAG
    born,            \* per connection: createdAt, in milliseconds
    clock,           \* the current millisecond
    saving,          \* savingForOutOfBand: connections that wait for their save
    accepting,       \* acceptingInvitation: calls of accept, the first one runs
    snapshot,        \* what that call read of the record
    discarding,      \* per connection: where discardExtraConnection is
    deletion,        \* where deleteInvitation is
    deletes          \* administrator calls so far

inv == <<creating, oob, tagged, short>>
cons == <<conn, claims, born, clock, saving, discarding>>
acc == <<accepting, snapshot>>
adm == <<deletion, deletes>>
vars == <<inv, record, cons, acc, adm>>

Peers == 1..MaxPeers
NoRecord == [state |-> "none", acceptances |-> <<>>]

Init ==
    /\ creating = "start" /\ oob = "none" /\ tagged = FALSE /\ short = FALSE /\ record = NoRecord
    /\ conn = [p \in Peers |-> "none"] /\ claims = {} /\ born = [p \in Peers |-> 0] /\ clock = 1
    /\ saving = <<>> /\ accepting = <<>> /\ snapshot = NoRecord
    /\ discarding = [p \in Peers |-> "no"] /\ deletion = "idle" /\ deletes = 0

-----------------------------------------------------------------------------
\* Creation. The caller, or the peer the invitation is sent to, has it only
\* when the last step is over.

\* createInvitation of Credo: the out-of-band record.
createInvitation ==
    /\ creating = "start" /\ oob' = "await" /\ creating' = IF Recorded THEN "oob" ELSE "shared"
    /\ UNCHANGED <<tagged, short, record, cons, acc, adm>>

createShortUrl ==
    /\ creating = "oob" /\ short' = TRUE /\ creating' = "short"
    /\ UNCHANGED <<oob, tagged, record, cons, acc, adm>>

\* saveRecord: the tag of the out-of-band record, then the record of the
\* same id in state created.
saveRecord ==
    /\ creating = "short" /\ creating' = "shared"
    /\ tagged' = TRUE /\ record' = [state |-> "created", acceptances |-> <<>>]
    /\ UNCHANGED <<oob, short, cons, acc, adm>>

-----------------------------------------------------------------------------
\* Acceptance by new connections.

\* Credo finds the invitation, makes the connection record and calls save of
\* the repository, which enters it in the queue of the out-of-band record.
bind(p) ==
    /\ creating = "shared" /\ oob = "await" /\ conn[p] = "none" /\ p \notin Reusers
    /\ conn' = [conn EXCEPT ![p] = "bound"] /\ born' = [born EXCEPT ![p] = clock]
    /\ saving' = Append(saving, p)
    /\ UNCHANGED <<inv, record, claims, clock, discarding, acc, adm>>

tick == clock = 1 /\ clock' = 2 /\ UNCHANGED <<inv, record, conn, claims, born, saving, discarding, acc, adm>>

\* A single-use invitation with a record is consumed once it is done or once
\* another connection claimed it.
isConsumed(p) == ~Reusable /\ tagged /\ (oob = "done" \/ \E c \in claims : c # p /\ conn[c] = "open")

\* tagAndSave, one at a time for each out-of-band record; after it Credo
\* emits the state change to both listeners.
tagAndSave(p) ==
    LET claiming == oob \in {"await", "done"} /\ ~isConsumed(p) /\ tagged IN
    /\ saving # <<>> /\ p = Head(saving) /\ saving' = Tail(saving)
    /\ conn' = [conn EXCEPT ![p] = "open"]
    /\ claims' = IF claiming THEN claims \union {p} ELSE claims
    /\ discarding' = [discarding EXCEPT ![p] = "due"]
    /\ accepting' = IF claiming THEN Append(accepting, [by |-> p, reused |-> FALSE]) ELSE accepting
    /\ UNCHANGED <<inv, record, born, clock, snapshot, adm>>

\* Credo, after the connection of p: a single-use invitation is done.
markDone(p) ==
    /\ oob = "await" /\ ~Reusable /\ conn[p] \in {"open", "complete", "closed"}
    /\ oob' = "done" /\ UNCHANGED <<creating, tagged, short, record, cons, acc, adm>>

\* DID Exchange of a v1 connection goes on: a second state change.
completes(p) ==
    /\ ~V2 /\ conn[p] = "open" /\ discarding[p] = "no"
    /\ conn' = [conn EXCEPT ![p] = "complete"]
    /\ accepting' = IF p \in claims THEN Append(accepting, [by |-> p, reused |-> FALSE]) ELSE accepting
    /\ discarding' = [discarding EXCEPT ![p] = "due"]
    /\ UNCHANGED <<inv, record, claims, born, clock, saving, snapshot, adm>>

\* HandshakeReused: the peer keeps its older connection. Credo marks the
\* invitation done after it emits the event.
handshakeReused(p) ==
    /\ creating = "shared" /\ oob = "await" /\ p \in Reusers /\ conn[p] = "none"
    /\ conn' = [conn EXCEPT ![p] = "complete"]
    /\ accepting' = IF tagged THEN Append(accepting, [by |-> p, reused |-> TRUE]) ELSE accepting
    /\ UNCHANGED <<inv, record, claims, born, clock, saving, discarding, snapshot, adm>>

-----------------------------------------------------------------------------
\* The queue of acceptances.

\* recordAcceptance reads the record.
readRecord ==
    /\ accepting # <<>> /\ snapshot.state = "none"
    /\ snapshot' = IF record.state = "none" THEN [state |-> "gone", acceptances |-> <<>>] ELSE record
    /\ UNCHANGED <<inv, record, cons, accepting, adm>>

RefusedUnlessNew(call) ==
    snapshot.state = "gone" \/ (~call.reused /\ call \in Range(snapshot.acceptances))
\* Why an acceptance is not recorded.
Refused(call) ==
    \/ snapshot.state = "gone"
    \/ ~call.reused /\ call \in Range(snapshot.acceptances)
    \/ ~Reusable /\ snapshot.state = "accepted"

\* The update fails when the record was deleted meanwhile; the error is logged.
update(call) ==
    record' = IF record.state = "none" THEN record
              ELSE [state |-> "accepted", acceptances |-> Append(snapshot.acceptances, call)]

\* recordAcceptance refuses, or writes what it read with the acceptance
\* added; the next call of the queue starts.
recordAcceptance ==
    /\ accepting # <<>> /\ snapshot.state # "none"
    /\ IF Refused(Head(accepting)) THEN UNCHANGED record ELSE update(Head(accepting))
    /\ accepting' = Tail(accepting) /\ snapshot' = NoRecord
    /\ UNCHANGED <<inv, cons, adm>>

-----------------------------------------------------------------------------
\* discardExtraConnection.

Siblings == {p \in Peers \ Reusers : conn[p] \in {"open", "complete"}}
Oldest(S) == CHOOSE p \in S : \A q \in S : born[p] < born[q] \/ (born[p] = born[q] /\ p <= q)
\* The sibling that claimed the invitation record, else the oldest.
Accepted(S) == IF S \cap claims # {} THEN CHOOSE p \in S : p \in claims ELSE Oldest(S)

\* The listener reads the invitation and the siblings and decides.
discardExtraConnection(p) ==
    /\ discarding[p] = "due"
    /\ LET extra == /\ V2 /\ oob \in {"await", "done"} /\ ~Reusable
                    /\ Cardinality(Siblings) >= 2 /\ Accepted(Siblings) # p
       IN discarding' = [discarding EXCEPT ![p] = IF extra THEN "hangup" ELSE "no"]
    /\ UNCHANGED <<inv, record, conn, claims, born, clock, saving, acc, adm>>

\* After the hangup, failed or not, the record is deleted.
deleteExtra(p) ==
    /\ discarding[p] = "hangup" /\ discarding' = [discarding EXCEPT ![p] = "no"]
    /\ conn' = [conn EXCEPT ![p] = "closed"]
    /\ UNCHANGED <<inv, record, claims, born, clock, saving, acc, adm>>

-----------------------------------------------------------------------------
\* The administrator.

\* deleteConnection: hangup, then the record.
deleteConnection(p) ==
    /\ deletes < MaxDeletes /\ conn[p] \in {"open", "complete"} /\ p \notin Reusers
    /\ conn' = [conn EXCEPT ![p] = "closed"] /\ deletes' = deletes + 1
    /\ UNCHANGED <<inv, record, claims, born, clock, saving, discarding, acc, deletion>>

\* deleteInvitation finds the record; without one it answers unknown id.
deleteInvitation ==
    /\ deletes < MaxDeletes /\ deletion = "idle" /\ record.state # "none"
    /\ deletion' = "oob" /\ deletes' = deletes + 1
    /\ UNCHANGED <<inv, record, cons, acc>>

\* A step of it that fails ends the call with an error.
deletionFails == deletion # "idle" /\ deletion' = "idle" /\ UNCHANGED <<inv, record, cons, acc, deletes>>

deleteOob ==
    /\ deletion = "oob" /\ deletion' = "short" /\ oob' = "deleted"
    /\ UNCHANGED <<creating, tagged, short, record, cons, acc, deletes>>

deleteShortUrlByRelatedFlowId ==
    /\ deletion = "short" /\ deletion' = "record" /\ short' = FALSE
    /\ UNCHANGED <<creating, oob, tagged, record, cons, acc, deletes>>

deleteRecord ==
    /\ deletion = "record" /\ deletion' = "idle" /\ record' = NoRecord
    /\ UNCHANGED <<inv, cons, acc, deletes>>

\* getInvitation of the short URL: its record exists and is not used up.
Served == short /\ record.state # "none" /\ ~(record.state = "accepted" /\ ~Reusable)

-----------------------------------------------------------------------------
Handlers ==
    \/ createInvitation \/ createShortUrl \/ saveRecord \/ readRecord \/ recordAcceptance
    \/ \E p \in Peers : tagAndSave(p) \/ markDone(p) \/ discardExtraConnection(p) \/ deleteExtra(p)

Next ==
    \/ Handlers \/ tick \/ deleteInvitation \/ deletionFails \/ deleteOob
    \/ deleteShortUrlByRelatedFlowId \/ deleteRecord
    \/ \E p \in Peers : bind(p) \/ completes(p) \/ handshakeReused(p) \/ deleteConnection(p)

Spec == Init /\ [][Next]_vars
\* A handler that was started goes on: the process runs, a queue always
\* starts its next call (a failed one is caught).
Fairness ==
    /\ WF_vars(createInvitation \/ createShortUrl \/ saveRecord)
    /\ WF_vars(readRecord) /\ WF_vars(recordAcceptance)
    /\ \A p \in Peers :
         /\ WF_vars(tagAndSave(p)) /\ WF_vars(markDone(p))
         /\ WF_vars(discardExtraConnection(p)) /\ WF_vars(deleteExtra(p))

FairSpec == Spec /\ Fairness

-----------------------------------------------------------------------------
Acceptances == Range(record.acceptances)
InProgress(p) == \E i \in 1..Len(accepting) : accepting[i].by = p

\* The types, and what the two queues rest on: a snapshot belongs to a
\* running call, and the connections that wait to be saved are bound.
TypeOK ==
    /\ creating \in {"start", "oob", "short", "shared"} /\ oob \in {"none", "await", "done", "deleted"}
    /\ {tagged, short} \subseteq BOOLEAN /\ record.state \in {"none", "created", "accepted"}
    /\ Acceptances \subseteq [by : Peers, reused : BOOLEAN]
    /\ conn \in [Peers -> {"none", "bound", "open", "complete", "closed"}] /\ claims \subseteq Peers
    /\ born \in [Peers -> 0..2] /\ clock \in 1..2
    /\ Range(saving) = {p \in Peers : conn[p] = "bound"}
    /\ (snapshot.state # "none" => accepting # <<>>)
    /\ discarding \in [Peers -> {"no", "due", "hangup"}]
    /\ deletion \in {"idle", "oob", "short", "record"} /\ deletes \in 0..MaxDeletes

\* A single-use invitation has one acceptance, whatever races, and an
\* acceptance is recorded once although a DID Exchange connection reports
\* several states.
AcceptedOnce ==
    /\ ~Reusable => Len(record.acceptances) <= 1
    /\ \A i, j \in 1..Len(record.acceptances) : record.acceptances[i] = record.acceptances[j] => i = j

\* "concurrent acceptances cannot overwrite each other" (InvitationEvents):
\* a connection that claimed a multi-use invitation is among its acceptances
\* when its call is over, as long as the record is not deleted.
AcceptanceKept ==
    \A p \in claims : Reusable /\ record.state # "none" /\ ~InProgress(p) => \E a \in Acceptances : a.by = p

\* The listener never closes the connection that the acceptance names.
AcceptedNotClosedStep ==
    \A p \in Peers : discarding[p] = "hangup" /\ conn[p] # "closed" /\ conn'[p] = "closed"
      => \A a \in Acceptances : a.by # p
AcceptedNotClosed == [][AcceptedNotClosedStep]_vars

\* The record goes last: without it neither Credo nor the short URL has the
\* invitation, so nothing is left that deleteInvitation cannot reach.
NothingLeft == creating = "shared" /\ Recorded /\ record.state = "none" => oob = "deleted" /\ ~short

\* A short URL that stopped serving the invitation ([VSA-PUB-INV-1]) never
\* serves it again, and a used-up single-use invitation is not served.
NotServedAgainStep ==
    (creating = "shared" /\ ~Served => ~Served')
    /\ (~Reusable /\ Acceptances' # {} => ~Served')
NotServedAgain == [][NotServedAgainStep]_vars

\* The comment of discardExtraConnection, "only the connection that claimed
\* an invitation record carries its invitationId, and its acceptance names
\* it", for a single-use invitation.
ClaimIsAccepted ==
    ~Reusable /\ record.state # "none" =>
        \A p \in claims : ~InProgress(p) => \E a \in Acceptances : a.by = p

\* A single-use v2 invitation ends with one connection: the listener closes
\* the extra ones of peers that raced.
OneConnectionLeft == V2 /\ ~Reusable => <>[](Cardinality(Siblings) <= 1)
=============================================================================
