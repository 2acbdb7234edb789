--------------------------- MODULE PeerConnection ---------------------------
(***************************************************************************)
(* connectToPublicDid: calls for one peer share one attempt; an attempt    *)
(* uses a ready connection, or deletes the one it tagged before, dials the *)
(* public DID, tags the new record and waits for it, and deletes it when   *)
(* that fails. "The agent must keep one connection record only for each    *)
(* peer": with two, the message receiver cannot process any message of     *)
(* that peer.                                                              *)
(***************************************************************************)
EXTENDS Naturals, FiniteSets

CONSTANTS
    Callers,         \* calls of connectToPublicDid
    MaxRecords,      \* bound: connection records ever made
    Inbound,         \* the peer may connect to the agent
    MaxCrashes       \* bound: restarts of the process

VARIABLES
    records,         \* per id: "none", "pending", "ready", "ended", "gone"
    tag,             \* records with the tag publicDid
    calls,           \* per call: where it is, and the id it returned
    attempt,         \* the pending attempt: where it is, its record
    crashes

vars == <<records, tag, calls, attempt, crashes>>

Ids == 1..MaxRecords
Call(at, id) == [at |-> at, id |-> id]
Idle == [at |-> "none", id |-> 0]
\* What the query finds, and the records of the pair of DIDs among them.
Alive == {r \in Ids : records[r] \in {"pending", "ready", "ended"}}
Pair == {r \in Ids : records[r] \in {"pending", "ready"}}
Fresh == {r \in Ids : records[r] = "none" /\ \A z \in 1..(r - 1) : records[z] # "none"}

Init ==
    /\ records = [r \in Ids |-> "none"] /\ tag = {} /\ attempt = Idle /\ crashes = 0
    /\ calls = [c \in Callers |-> Call("idle", 0)]

\* The entry of pendingConnections is shared, or a new attempt starts.
connectToPublicDid(c) ==
    /\ calls[c].at = "idle" /\ calls' = [calls EXCEPT ![c] = Call("wait", 0)]
    /\ attempt' = IF attempt = Idle THEN [at |-> "find", id |-> 0] ELSE attempt
    /\ UNCHANGED <<records, tag, crashes>>

\* The attempt ends: the entry goes, and every call that shares it has its
\* result.
Settle(result) ==
    /\ attempt' = Idle
    /\ calls' = [c \in Callers |-> IF calls[c].at = "wait" THEN result ELSE calls[c]]

\* findAllByQuery has a usable connection of the peer, whoever opened it.
useReady ==
    /\ attempt.at = "find" /\ \E r \in Alive : records[r] = "ready" /\ Settle(Call("done", r))
    /\ UNCHANGED <<records, tag, crashes>>

dialAnyway ==
    /\ attempt.at = "find" /\ attempt' = [attempt EXCEPT !.at = "dial"]
    /\ UNCHANGED <<records, tag, calls, crashes>>
\* Without one, the record of an earlier dial is deleted.
deleteExisting ==
    LET existing == Alive \cap tag IN
    /\ attempt.at = "find" /\ ~\E r \in Alive : records[r] = "ready"
    /\ records' = [r \in Ids |-> IF existing # {} /\ r = CHOOSE e \in existing : TRUE THEN "gone" ELSE records[r]]
    /\ attempt' = [attempt EXCEPT !.at = "dial"] /\ UNCHANGED <<tag, calls, crashes>>

\* receiveImplicitInvitation makes the record, or fails before it.
receiveImplicitInvitation ==
    /\ attempt.at = "dial"
    /\ \/ \E r \in Fresh : records' = [records EXCEPT ![r] = "pending"] /\ attempt' = [at |-> "tag", id |-> r]
                           /\ UNCHANGED calls
       \/ Settle(Call("failed", 0)) /\ UNCHANGED records
    /\ UNCHANGED <<tag, crashes>>

setTag ==
    /\ attempt.at = "tag" /\ tag' = tag \union {attempt.id} /\ attempt' = [attempt EXCEPT !.at = "wait"]
    /\ UNCHANGED <<records, calls, crashes>>

\* The peer answers.
becomesReady(r) ==
    /\ records[r] = "pending" /\ records' = [records EXCEPT ![r] = "ready"]
    /\ UNCHANGED <<tag, calls, attempt, crashes>>

\* returnWhenIsConnected resolves.
returnWhenIsConnected ==
    /\ attempt.at = "wait" /\ records[attempt.id] = "ready" /\ Settle(Call("done", attempt.id))
    /\ UNCHANGED <<records, tag, crashes>>

\* The update of the tag fails or the wait times out: the record is deleted.
failDeletes ==
    /\ attempt.at \in {"tag", "wait"} /\ records[attempt.id] # "ready"
    /\ records' = [records EXCEPT ![attempt.id] = "gone"]
    /\ Settle(Call("failed", 0)) /\ UNCHANGED <<tag, crashes>>

\* The peer hangs up: the record stays, without a DID of the peer.
peerHangsUp(r) ==
    /\ records[r] = "ready"
    /\ records' = [records EXCEPT ![r] = "ended"] /\ UNCHANGED <<tag, calls, attempt, crashes>>

\* The administrator deletes the record.
deleteConnection(r) ==
    /\ records[r] \in {"ready", "ended"}
    /\ records' = [records EXCEPT ![r] = "gone"] /\ UNCHANGED <<tag, calls, attempt, crashes>>

\* A message of the peer makes a record when the pair of DIDs has none.
peerConnects ==
    /\ Inbound /\ Pair = {}
    /\ \E r \in Fresh : records' = [records EXCEPT ![r] = "ready"]
    /\ UNCHANGED <<tag, calls, attempt, crashes>>

callAgain(c) ==
    /\ calls[c].at \in {"failed", "done"} /\ calls' = [calls EXCEPT ![c] = Call("idle", 0)]
    /\ UNCHANGED <<records, tag, attempt, crashes>>

crash ==
    /\ crashes < MaxCrashes /\ crashes' = crashes + 1 /\ attempt' = Idle
    /\ calls' = [c \in Callers |-> Call("idle", 0)] /\ UNCHANGED <<records, tag>>

Attempt ==
    \/ useReady \/ deleteExisting \/ receiveImplicitInvitation \/ setTag \/ returnWhenIsConnected \/ failDeletes

Next ==
    \/ Attempt \/ peerConnects \/ crash
    \/ \E c \in Callers : connectToPublicDid(c) \/ callAgain(c)
    \/ \E r \in Ids : becomesReady(r) \/ peerHangsUp(r) \/ deleteConnection(r)

Spec == Init /\ [][Next]_vars
\* The waits have time limits, so an attempt goes on without the peer.
Fairness ==
    /\ WF_vars(useReady \/ deleteExisting) /\ WF_vars(receiveImplicitInvitation)
    /\ WF_vars(setTag) /\ WF_vars(returnWhenIsConnected \/ failDeletes)

FairSpec == Spec /\ Fairness

-----------------------------------------------------------------------------
\* The types; a call that waits has an attempt to wait for.
TypeOK ==
    /\ records \in [Ids -> {"none", "pending", "ready", "ended", "gone"}] /\ tag \subseteq Ids
    /\ \A c \in Callers : calls[c] \in [at : {"idle", "wait", "failed", "done"}, id : 0..MaxRecords]
    /\ attempt.at \in {"none", "find", "dial", "tag", "wait"} /\ attempt.id \in 0..MaxRecords
    /\ (\E c \in Callers : calls[c].at = "wait") => attempt # Idle

\* "The agent must keep one connection record only for each peer".
OneRecordPerPeer == Cardinality(Pair) <= 1

\* A call returns "the id of a ready connection record", and no failed or
\* abandoned dial is left behind: a pending record belongs to the attempt.
ReturnsReady ==
    [][\A c \in Callers : calls[c].at = "wait" /\ calls'[c].at = "done" => records[calls'[c].id] = "ready"]_vars
NothingLeftPending == \A r \in Ids : records[r] = "pending" => attempt.id = r

\* Every call ends, with a connection or an error.
CallEnds == \A c \in Callers : (calls[c].at = "wait") ~> (calls[c].at # "wait")
=============================================================================
