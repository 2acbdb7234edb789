--------------------------- MODULE ClientIssuance ---------------------------
(***************************************************************************)
(* CredentialService of the NestJS client: issue reserves an index of a    *)
(* revocation registry, asks the agent for an offer, records the exchange, *)
(* and only then advances the registry. The exchange ends by an event that *)
(* the agent posts on its own. revoke goes to the agent first and to the   *)
(* row second. One definition with revocation and one refId are modelled;  *)
(* every registry has the same size.                                       *)
(***************************************************************************)
EXTENDS Naturals, FiniteSets

CONSTANTS
    Issues,          \* calls of issue, each with its row
    Again,           \* the calls with revokeIfAlreadyIssued
    Maximum,         \* maximumCredentialNumber
    MaxRegistries,   \* bound: registries ever made
    Serial,          \* calls of issue do not overlap
    MaxFailures,     \* bound: calls to the agent that fail
    MaxCrashes       \* bound: restarts of the service

VARIABLES
    setup,           \* createCredentialDefinition
    current,         \* per registry in the database: its currentIndex
    rows,            \* per call: the credential's row
    calls,           \* per call: where it is, and the rows it has to revoke
    agent,           \* per call: the exchange at the agent; and the revoked indexes
    revoking,        \* the row that revoke is at
    failures, crashes

vars == <<setup, current, rows, calls, agent, revoking, failures, crashes>>

Registries == 1..MaxRegistries
Made == DOMAIN current
None == "none"
Slot(i) == <<rows[i].registry, rows[i].index>>
Accepted == {i \in Issues : rows[i].status = "accepted"}
At(i, step) == calls' = [calls EXCEPT ![i].at = step]
Fails == failures < MaxFailures /\ failures' = failures + 1

Init ==
    /\ setup = "none" /\ current = [r \in {} |-> 0]
    /\ rows = [i \in Issues |-> [status |-> None, registry |-> 0, index |-> 0]]
    /\ calls = [i \in Issues |-> [at |-> "idle", todo |-> {}]]
    /\ agent = [exchange |-> [i \in Issues |-> None], revoked |-> {}]
    /\ revoking = {} /\ failures = 0 /\ crashes = 0

\* createRevocationRegistry: at the agent, then in the database, at index 0.
createRevocationRegistry ==
    LET next == Cardinality(Made) + 1 IN
    next \in Registries /\ current' = [r \in Made \cup {next} |-> IF r = next THEN 0 ELSE current[r]]

\* createCredentialDefinition: the definition, then two registries. An
\* existing definition is returned as it is.
createCredentialDefinition ==
    /\ \/ setup = "none" /\ setup' = "first" /\ UNCHANGED current
       \/ setup = "first" /\ setup' = "second" /\ createRevocationRegistry
       \/ setup = "second" /\ setup' = "done" /\ createRevocationRegistry
    /\ UNCHANGED <<rows, calls, agent, revoking, failures, crashes>>

\* issue: without a definition it throws; with revokeIfAlreadyIssued the
\* accepted rows are read first.
issue(i) ==
    /\ calls[i].at = "idle" /\ setup # "none"
    /\ (Serial => \A k \in Issues : calls[k].at \in {"idle", "ended"})
    /\ calls' = [calls EXCEPT ![i] = [at |-> IF i \in Again THEN "revoke" ELSE "reserve",
                                      todo |-> IF i \in Again THEN Accepted ELSE {}]]
    /\ UNCHANGED <<setup, current, rows, agent, revoking, failures, crashes>>

\* One after the other, each of them is revoked at the agent and then in its row.
revokeAtAgent(i) ==
    /\ calls[i].at = "revoke"
    /\ \/ calls[i].todo = {} /\ At(i, "reserve") /\ UNCHANGED <<agent, failures>>
       \/ \E k \in calls[i].todo : agent' = [agent EXCEPT !.revoked = @ \cup {Slot(k)}] /\ At(i, "revokeRow")
                                   /\ UNCHANGED failures
       \/ calls[i].todo # {} /\ Fails /\ At(i, "ended") /\ UNCHANGED agent
    /\ UNCHANGED <<setup, current, rows, revoking, crashes>>
revokeRow(i) ==
    /\ calls[i].at = "revokeRow"
    /\ \E k \in calls[i].todo :
        /\ Slot(k) \in agent.revoked
        /\ rows' = [rows EXCEPT ![k].status = "revoked"]
        /\ calls' = [calls EXCEPT ![i] = [at |-> "revoke", todo |-> @.todo \ {k}]]
    /\ UNCHANGED <<setup, current, agent, revoking, failures, crashes>>

\* The transaction: under the lock, the fullest registry that is not full, or
\* a new one; the row takes its index.
reserve(i) ==
    LET open == {r \in Made : current[r] # Maximum} IN
    /\ calls[i].at = "reserve"
    /\ \/ \E r \in open :
            /\ \A s \in open : current[s] <= current[r]
            /\ rows' = [rows EXCEPT ![i].registry = r, ![i].index = current[r]]
            /\ At(i, "offer") /\ UNCHANGED current
       \/ /\ open = {} /\ createRevocationRegistry
          /\ rows' = [rows EXCEPT ![i].registry = Cardinality(Made) + 1, ![i].index = 0]
          /\ At(i, "offer")
    /\ UNCHANGED <<setup, agent, revoking, failures, crashes>>

\* The offer goes out with that index, or the agent refuses and issue throws.
createCredentialOffer(i) ==
    /\ calls[i].at = "offer"
    /\ \/ agent' = [agent EXCEPT !.exchange[i] = "offered"] /\ At(i, "save") /\ UNCHANGED failures
       \/ Fails /\ At(i, "ended") /\ UNCHANGED agent
    /\ UNCHANGED <<setup, current, rows, revoking, crashes>>

saveOffered(i) ==
    /\ calls[i].at = "save" /\ rows' = [rows EXCEPT ![i].status = "offered"]
    /\ At(i, "advance") /\ UNCHANGED <<setup, current, agent, revoking, failures, crashes>>

\* The registry as the transaction read it, plus one, is saved.
advance(i) ==
    /\ calls[i].at = "advance" /\ current' = [current EXCEPT ![rows[i].registry] = rows[i].index + 1]
    /\ At(i, IF rows[i].index + 1 = Maximum THEN "rollover" ELSE "ended")
    /\ UNCHANGED <<setup, rows, agent, revoking, failures, crashes>>
\* The registry is full: the next one is made.
rollover(i) ==
    /\ calls[i].at = "rollover" /\ At(i, "ended")
    /\ \/ createRevocationRegistry /\ UNCHANGED failures
       \/ Fails /\ UNCHANGED current
    /\ UNCHANGED <<setup, rows, agent, revoking, crashes>>

\* The holder answers the offer; the agent posts the state-updated event.
holderAnswers(i) ==
    /\ agent.exchange[i] = "offered"
    /\ \E answer \in {"done", "declined"} : agent' = [agent EXCEPT !.exchange[i] = answer]
    /\ UNCHANGED <<setup, current, rows, calls, revoking, failures, crashes>>

\* The event is handled: findOffered has the row, or it throws and nothing
\* handles the event again.
handleState(i) ==
    /\ agent.exchange[i] \in {"done", "declined"}
    /\ rows' = IF rows[i].status = "offered"
               THEN [rows EXCEPT ![i].status = IF agent.exchange[i] = "done" THEN "accepted" ELSE "rejected"]
               ELSE rows
    /\ agent' = [agent EXCEPT !.exchange[i] = IF @ = "done" THEN "acceptance" ELSE "rejection"]
    /\ UNCHANGED <<setup, current, calls, revoking, failures, crashes>>

\* revoke: an accepted row.
revoke ==
    /\ revoking = {} /\ \E k \in Accepted : revoking' = {k}
    /\ UNCHANGED <<setup, current, rows, calls, agent, failures, crashes>>
\* revokeCredential: at the agent, and in the row when the agent has answered.
revokeCredential ==
    /\ \E k \in revoking :
        \/ Slot(k) \notin agent.revoked /\ agent' = [agent EXCEPT !.revoked = @ \cup {Slot(k)}]
           /\ UNCHANGED <<rows, revoking, failures>>
        \/ Slot(k) \in agent.revoked /\ rows' = [rows EXCEPT ![k].status = "revoked"]
           /\ revoking' = {} /\ UNCHANGED <<agent, failures>>
        \/ Slot(k) \notin agent.revoked /\ Fails /\ revoking' = {} /\ UNCHANGED <<rows, agent>>
    /\ UNCHANGED <<setup, current, calls, crashes>>

\* A restart: calls under way are gone; the database and the agent stay.
crash ==
    /\ crashes < MaxCrashes /\ crashes' = crashes + 1 /\ revoking' = {}
    /\ setup' = IF setup \in {"first", "second"} THEN "done" ELSE setup
    /\ calls' = [i \in Issues |-> IF calls[i].at = "idle" THEN calls[i] ELSE [at |-> "ended", todo |-> {}]]
    /\ UNCHANGED <<current, rows, agent, failures>>

Issue(i) ==
    \/ issue(i) \/ revokeAtAgent(i) \/ revokeRow(i) \/ reserve(i) \/ createCredentialOffer(i)
    \/ saveOffered(i) \/ advance(i) \/ rollover(i)
Next ==
    \/ createCredentialDefinition \/ revoke \/ revokeCredential \/ crash
    \/ \E i \in Issues : Issue(i) \/ holderAnswers(i) \/ handleState(i)
Spec == Init /\ [][Next]_vars

-----------------------------------------------------------------------------
Steps == {"idle", "revoke", "revokeRow", "reserve", "offer", "save", "advance", "rollover", "ended"}
Offered(i) == agent.exchange[i] # None
\* A revocation of row i is between the agent and the row.
BeingRevoked(i) == i \in revoking \/ \E k \in Issues : i \in calls[k].todo

\* The rows, the registries and the calls are well formed; a registry's index
\* stays within its size, also when calls overlap and write what they read
\* before: past it, the query for a registry that is not full would find it
\* for ever.
TypeOK ==
    /\ setup \in {"none", "first", "second", "done"} /\ Made \subseteq Registries
    /\ \A r \in Made : current[r] \in 0..Maximum
    /\ \A i \in Issues : rows[i].status \in {None, "offered", "accepted", "rejected", "revoked"} /\ rows[i].index < Maximum
    /\ \A i \in Issues : calls[i].at \in Steps /\ calls[i].todo \subseteq Issues
    /\ revoking \subseteq Issues /\ failures \in Nat /\ crashes \in Nat

\* issue "reserves a revocation index": no two offers carry the same index of
\* the same registry, whatever fails on the way.
DistinctIndexes ==
    \A i, k \in Issues : (i # k /\ Offered(i) /\ Offered(k)) => Slot(i) # Slot(k)

\* What the service records as revoked is revoked at the agent, also after a
\* restart in the middle of a revocation.
RevokedAtAgent == \A i \in Issues : rows[i].status = "revoked" => Slot(i) \in agent.revoked

\* A credential its holder accepted is valid until it is revoked itself:
\* revoking one row, or reissuing, never revokes another's.
AcceptedIsValid ==
    \A i \in Issues : (rows[i].status \in {"offered", "accepted"} /\ ~BeingRevoked(i)) => Slot(i) \notin agent.revoked

\* Only a credential that its holder accepted is ever revoked at the agent.
RevokedWasAccepted ==
    \A s \in agent.revoked : \E i \in Issues : Slot(i) = s /\ agent.exchange[i] = "acceptance"

\* The event of a done exchange "marks the row accepted".
AcceptedIsRecorded ==
    \A i \in Issues : agent.exchange[i] = "acceptance" => rows[i].status \in {"accepted", "revoked"}
=============================================================================
