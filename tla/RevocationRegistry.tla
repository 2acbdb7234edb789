------------------------- MODULE RevocationRegistry -------------------------
(***************************************************************************)
(* The revocation registry of a credential definition: its creation with a *)
(* first status list, the revocation of credentials, and its deletion.     *)
(*                                                                         *)
(* A status list is stored as a resource of its own and found through the  *)
(* links of the attested resource of the registry definition, which are    *)
(* read, extended and written back with awaits in between.                 *)
(***************************************************************************)
EXTENDS Naturals, Sequences

CONSTANTS
    Callers,     \* requests in progress at a time
    Indexes,     \* indexes of issued credentials
    MaxLists,    \* bound: status lists
    MaxFails,    \* bound: calls to the AnonCreds registry that fail
    MaxCrashes   \* bound: stops of the process

ASSUME BoundsAssumption == MaxLists \in Nat /\ MaxFails \in Nat /\ MaxCrashes \in Nat

VARIABLES
    def,         \* parts of the definition that are stored
    links,       \* status lists the attested resource links to, in order
    lists,       \* indexes each status list revokes, by its number
    stored,      \* status lists stored as resources
    req,         \* the requests
    answered,    \* indexes whose revocation was answered with success
    fails, crashes

vars == <<def, links, lists, stored, req, answered, fails, crashes>>

Idle == [op |-> "none", pc |-> "idle", links |-> <<>>, list |-> 0, index |-> 0]
DefParts == {"record", "private", "tails", "attested"}

Init ==
    /\ def = {} /\ links = <<>> /\ lists = <<>> /\ stored = {}
    /\ req = [c \in Callers |-> Idle]
    /\ answered = {} /\ fails = 0 /\ crashes = 0

Goto(c, pc) == req' = [req EXCEPT ![c].pc = pc]
Answer(c) == req' = [req EXCEPT ![c] = Idle]
Fails == fails < MaxFails /\ fails' = fails + 1
\* A failure of the first status list is followed by rollbackRevocationRegistry.
\* Mutant: the definition is left behind.
noRollback(c) == Fails /\ Answer(c)

rollbackRevocationRegistry(c) ==
    /\ Fails /\ IF req[c].op = "create" THEN Goto(c, "delete") ELSE Answer(c)

-----------------------------------------------------------------------------

createRevocationRegistry(c) ==
    \/ /\ req[c] = Idle /\ def = {} /\ Len(lists) < MaxLists
       /\ def' = {"record", "private", "tails"}
       /\ req' = [req EXCEPT ![c] = [Idle EXCEPT !.op = "create", !.pc = "attested"]]
       /\ UNCHANGED <<links, lists, stored, answered, fails, crashes>>
    \/ /\ req[c].pc = "attested"
       /\ def' = def \cup {"attested"} /\ links' = <<>> /\ Goto(c, "list")
       /\ UNCHANGED <<lists, stored, answered, fails, crashes>>
    \/ /\ req[c].pc = "list"
       /\ \/ /\ Len(lists) < MaxLists /\ lists' = Append(lists, {})
             /\ req' = [req EXCEPT ![c].pc = "read", ![c].list = Len(lists) + 1] /\ UNCHANGED fails
          \/ rollbackRevocationRegistry(c) /\ UNCHANGED lists
       /\ UNCHANGED <<def, links, stored, answered, crashes>>

\* Read the links, sign the extended resource, store the list, write the links.
appendStatusListToRevocationRegistry(c) ==
    \/ /\ req[c].pc = "read" /\ UNCHANGED <<def, links, lists, stored, answered, crashes>>
       /\ IF "attested" \in def
          THEN \/ req' = [req EXCEPT ![c].pc = "save", ![c].links = links] /\ UNCHANGED fails
               \/ rollbackRevocationRegistry(c)
          ELSE Answer(c) /\ UNCHANGED fails
    \/ /\ req[c].pc = "save" /\ stored' = stored \cup {req[c].list} /\ Goto(c, "link")
       /\ UNCHANGED <<def, links, lists, answered, fails, crashes>>
    \/ /\ req[c].pc = "link" /\ Answer(c)
       /\ IF "attested" \in def
          THEN /\ links' = Append(req[c].links, req[c].list)
               /\ answered' = IF req[c].op = "revoke" THEN answered \cup {req[c].index} ELSE answered
          ELSE UNCHANGED <<links, answered>>
       /\ UNCHANGED <<def, lists, stored, fails, crashes>>

\* updateRevocationStatusList extends the list the last link names.
revokeCredential(c, i) ==
    /\ req[c] = Idle /\ i \notin answered /\ Len(lists) < MaxLists
    /\ "attested" \in def /\ links # <<>>
    /\ \/ /\ lists' = Append(lists, lists[links[Len(links)]] \cup {i})
          /\ req' = [req EXCEPT ![c] = [Idle EXCEPT !.op = "revoke", !.pc = "read",
                                             !.list = Len(lists) + 1, !.index = i]]
          /\ UNCHANGED fails
       \/ Fails /\ UNCHANGED <<lists, req>>
    /\ UNCHANGED <<def, links, stored, answered, crashes>>

\* The linked lists, the attested resource, tails and private key, the record.
deleteRevocationRegistry(c) ==
    \/ /\ req[c] = Idle /\ "record" \in def /\ Goto(c, "delete")
       /\ UNCHANGED <<def, links, lists, stored, answered, fails, crashes>>
    \/ /\ req[c].pc = "delete" /\ Goto(c, "attestedGone")
       /\ stored' = stored \ {links[k] : k \in DOMAIN links}
       /\ UNCHANGED <<def, links, lists, answered, fails, crashes>>
    \/ /\ req[c].pc = "attestedGone" /\ Goto(c, "keysGone")
       /\ def' = def \ {"attested"} /\ links' = <<>> /\ answered' = {}
       /\ UNCHANGED <<lists, stored, fails, crashes>>
    \/ /\ req[c].pc = "keysGone" /\ Goto(c, "recordGone") /\ def' = def \ {"tails", "private"}
       /\ UNCHANGED <<links, lists, stored, answered, fails, crashes>>
    \/ /\ req[c].pc = "recordGone" /\ Answer(c) /\ def' = {}
       /\ UNCHANGED <<links, lists, stored, answered, fails, crashes>>

crash ==
    /\ crashes < MaxCrashes /\ crashes' = crashes + 1
    /\ req' = [c \in Callers |-> Idle]
    /\ UNCHANGED <<def, links, lists, stored, answered, fails>>

Next ==
    \/ crash
    \/ \E c \in Callers :
        \/ createRevocationRegistry(c) \/ appendStatusListToRevocationRegistry(c)
        \/ \E i \in Indexes : revokeCredential(c, i)
        \/ deleteRevocationRegistry(c)

Spec == Init /\ [][Next]_vars

-----------------------------------------------------------------------------
Requests ==
    [op : {"none", "create", "revoke"},
     pc : {"idle", "attested", "list", "read", "save", "link", "delete", "attestedGone",
           "keysGone", "recordGone"},
     links : Seq(Nat), list : Nat, index : Indexes \cup {0}]

TypeOK ==
    /\ def \subseteq DefParts /\ links \in Seq(Nat)
    /\ lists \in Seq(SUBSET Indexes) /\ Len(lists) <= MaxLists
    /\ stored \subseteq Nat /\ answered \subseteq Indexes
    /\ req \in [Callers -> Requests]
    /\ fails \in 0..MaxFails /\ crashes \in 0..MaxCrashes

Quiet == \A c \in Callers : req[c] = Idle

\* createRevocationRegistry: "A registry without its first status list cannot
\* issue, so a failure here undoes the definition rather than leaving it behind
\* for listRevocationRegistries to report."
ListedCanIssue == (Quiet /\ "record" \in def /\ crashes = 0) => links # <<>>

\* deleteRevocationRegistry: "a revocation registry definition, its status
\* lists, and its tails file": a deletion or a rollback leaves nothing behind.
DeletedLeavesNothing ==
    (Quiet /\ "record" \notin def /\ crashes = 0) => def = {} /\ stored = {}

\* revokeCredential: "publish the new status list entry so holders/verifiers
\* resolve the revoked state": a credential whose revocation was answered is
\* revoked in the list the registry names last, and stays so.
RevokedStays ==
    ("attested" \in def /\ links # <<>>) => answered \subseteq lists[links[Len(links)]]

\* appendStatusListToRevocationRegistry: where a request stands, what is stored
\* and what it read agree; what it read is not stale when it writes.
Creating(c) == req[c].op = "create" /\ req[c].pc \in {"attested", "list", "read", "save", "link"}
Revoking(c) == req[c].op = "revoke" /\ req[c].pc \in {"read", "save", "link"}
Deleting(c) == req[c].pc \in {"delete", "attestedGone", "keysGone", "recordGone"}
Agrees(c) ==
    /\ req[c] = Idle \/ Creating(c) \/ Revoking(c) \/ Deleting(c)
    /\ req[c].pc = "attested" => def = DefParts \ {"attested"}
    /\ req[c].pc \in {"list", "read", "save", "link"} => def = DefParts
    /\ req[c].pc \in {"keysGone", "recordGone"} => "attested" \notin def
    /\ req[c].pc \in {"read", "save", "link"} => req[c].list \in 1..Len(lists)
    /\ req[c].pc \in {"save", "link"} => req[c].links = links

\* revokeCredential: a revocation in progress extends what is answered, and the
\* registry of a creation in progress has answered nothing.
RevocationsKept ==
    /\ \A k \in 1..Len(links) : links[k] \in 1..Len(lists)
    /\ IF "attested" \in def THEN def = DefParts ELSE links = <<>>
    /\ links = <<>> => answered = {}
    /\ \A c \in Callers :
        /\ Creating(c) => links = <<>>
        /\ Revoking(c) => links # <<>> /\ answered \cup {req[c].index} \subseteq lists[req[c].list]

\* createRevocationRegistry and its rollback, deleteRevocationRegistry: what is
\* stored at each step of a process that did not stop.
Pending(c) == IF req[c].pc = "link" THEN {req[c].list} ELSE {}
Complete(c) ==
    /\ req[c] = Idle => (def = {} /\ links = <<>>) \/ (def = DefParts /\ links # <<>>)
    /\ req[c].pc \in {"delete", "attestedGone"} => def = DefParts
    /\ req[c].pc = "keysGone" => def = DefParts \ {"attested"}
    /\ req[c].pc = "recordGone" => def = {"record"}
    /\ stored = IF req[c].pc \in {"attestedGone", "keysGone", "recordGone"} THEN {}
                ELSE {links[k] : k \in 1..Len(links)} \cup Pending(c)

\* The revocation registry is sound for requests that do not overlap.
RegistryInv ==
    /\ TypeOK /\ (\A c \in Callers : Agrees(c)) /\ RevocationsKept
    /\ crashes = 0 => \A c \in Callers : Complete(c)
    /\ RevokedStays /\ ListedCanIssue /\ DeletedLeavesNothing

=============================================================================
