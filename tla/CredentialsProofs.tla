--------------------------- MODULE CredentialsProofs ---------------------------
(***************************************************************************)
(* Proofs about the parts behind the credential operations, side by side   *)
(* as MCCredentials runs them.                                             *)
(*                                                                         *)
(* A revocation registry, for any credentials, any number of status lists, *)
(* failing calls and stops of the process, and requests that do not        *)
(* overlap.  RegistryInv is inductive.  That an answered revocation stays  *)
(* (RevokedStays) rests on what a request read being current when it       *)
(* writes the links back (Agrees), and on the list it is about to link     *)
(* containing everything answered before (RevocationsKept).  That a        *)
(* deletion or a rollback leaves nothing behind rests on Complete, which   *)
(* holds until the process stops: the lists stored are the linked ones     *)
(* and the one a request has stored and not linked yet.                    *)
(*                                                                         *)
(* Credential definitions and their schema: DefinitionsInv says where a    *)
(* request stands, in what it has read and written so far.                 *)
(* Presentations and exchanges: what a decision in progress goes by        *)
(* (ProofSteps) and the flow's link (ExchangeInv).  The trust decision     *)
(* behind a call: every restriction is still to be derived, still to be    *)
(* checked, or was active since the call began (GateInv).                  *)
(***************************************************************************)
EXTENDS MCCredentials, SequenceTheorems, TLAPS

-----------------------------------------------------------------------------
\* A revocation registry.

\* Requests about a registry do not overlap.
OneCaller == \E c : Callers = {c}

\* RevocationsKept for one request.
Kept(c) ==
    /\ \A k \in 1..Len(links) : links[k] \in 1..Len(lists)
    /\ IF "attested" \in def THEN def = DefParts ELSE links = <<>>
    /\ links = <<>> => answered = {}
    /\ Creating(c) => links = <<>>
    /\ Revoking(c) => /\ links # <<>>
                      /\ answered \cup {req[c].index} \subseteq lists[req[c].list]

\* What is stored, as long as the process did not stop.
Whole(c) == crashes = 0 => Complete(c)

\* A request that does not run has its type.
LEMMA IdleType == Idle \in Requests /\ Idle.pc = "idle" /\ Idle.op = "none"
  BY DEF Idle, Requests

\* With one request at a time, RegistryInv by its parts.
LEMMA PartsOf ==
  ASSUME NEW c, Callers = {c}, RegistryInv
  PROVE  TypeOK /\ Agrees(c) /\ Kept(c) /\ Whole(c) /\ RevokedStays
<1>1. c \in Callers
  OBVIOUS
<1> QED
  BY <1>1, Zenon DEF RegistryInv, RevocationsKept, Kept, Whole

\* RegistryInv holds before the registry is created.
LEMMA InitInv == OneCaller /\ Init => RegistryInv
<1> SUFFICES ASSUME NEW c, Callers = {c}, Init PROVE RegistryInv
  BY DEF OneCaller
<1> USE BoundsAssumption
<1>1. req = [x \in Callers |-> Idle] /\ req[c] = Idle
  BY DEF Init
<1>2. TypeOK
  BY <1>1, IdleType DEF Init, TypeOK
<1>3. Agrees(c)
  BY <1>1, IdleType DEF Agrees
<1>4. RevocationsKept
  BY <1>1, IdleType DEF Init, RevocationsKept, Creating, Revoking
<1>5. Complete(c)
  BY <1>1, IdleType DEF Init, Complete, Pending
<1>6. RevokedStays /\ ListedCanIssue /\ DeletedLeavesNothing
  BY DEF Init, RevokedStays, ListedCanIssue, DeletedLeavesNothing
<1> QED
  BY <1>2, <1>3, <1>4, <1>5, <1>6 DEF RegistryInv


\* RegistryInv from its parts: that a registry at rest can issue or has left
\* nothing behind follows from Complete.
LEMMA WholeNext ==
  ASSUME NEW c, Callers = {c}, TypeOK', Agrees(c)', Kept(c)', Whole(c)', RevokedStays'
  PROVE  RegistryInv'
<1>1. RevocationsKept'
  BY DEF RevocationsKept, Kept
<1>2. (crashes' = 0) => \A x \in Callers : Complete(x)'
  BY DEF Whole
<1>3. ASSUME Quiet', crashes' = 0
      PROVE  \/ def' = {} /\ links' = <<>> /\ stored' = {}
             \/ (def' = DefParts /\ links' # <<>>)
  <2>1. req'[c] = Idle /\ Complete(c)'
    BY <1>3 DEF Quiet, Whole
  <2>2. CASE def' = {} /\ links' = <<>>
    <3>1. stored' = {links'[k] : k \in 1..Len(links')}
      BY <2>1, IdleType DEF Complete, Pending
    <3>2. \A k \in 1..Len(links') : FALSE
      BY <2>2
    <3> QED
      BY <2>2, <3>1, <3>2
  <2> QED
    BY <2>1, <2>2 DEF Complete
<1>4. ListedCanIssue' /\ DeletedLeavesNothing'
  BY <1>3 DEF ListedCanIssue, DeletedLeavesNothing, DefParts
<1>5. \A x \in Callers : Agrees(x)'
  OBVIOUS
<1> QED
  BY <1>1, <1>2, <1>4, <1>5 DEF RegistryInv

\* A step that moves a request keeps the others.
LEMMA Moves ==
  ASSUME TypeOK, NEW c, Callers = {c}, NEW r \in Requests, req' = [req EXCEPT ![c] = r]
  PROVE  req' \in [Callers -> Requests] /\ req'[c] = r
  BY DEF TypeOK

\* Every step of the registry keeps RegistryInv: creation and its rollback,
\* the three steps that append a status list, revocation, the five steps of the
\* deletion, and a stop of the process.
LEMMA Step ==
  ASSUME NEW c, Callers = {c}, RegistryInv, [Next]_vars
  PROVE  RegistryInv'
<1> USE BoundsAssumption
<1>0. TypeOK /\ Agrees(c) /\ Kept(c) /\ Whole(c) /\ RevokedStays
  BY PartsOf
<1>a. c \in Callers /\ req[c] \in Requests
  BY <1>0 DEF TypeOK
<1>b. PICK n \in Nat : Len(lists) = n /\ n <= MaxLists /\ lists \in [1..n -> SUBSET Indexes]
  BY <1>0 DEF TypeOK
<1>c. PICK l \in Nat : Len(links) = l /\ links \in [1..l -> Nat] /\ (links = <<>> <=> l = 0)
  BY <1>0 DEF TypeOK
<1>d. fails \in 0..MaxFails /\ crashes \in 0..MaxCrashes
  BY <1>0 DEF TypeOK

<1>1. ASSUME req[c] = Idle, def = {}, n < MaxLists, def' = {"record", "private", "tails"},
             req' = [req EXCEPT ![c] = [Idle EXCEPT !.op = "create", !.pc = "attested"]],
             UNCHANGED <<links, lists, stored, answered, fails, crashes>>
      PROVE  RegistryInv'
  <2>1. /\ [Idle EXCEPT !.op = "create", !.pc = "attested"] \in Requests
        /\ req' = [req EXCEPT ![c] = [Idle EXCEPT !.op = "create", !.pc = "attested"]]
    BY <1>1, IdleType DEF Goto, Answer, rollbackRevocationRegistry, Requests
  <2>2. /\ req' \in [Callers -> Requests]
        /\ req'[c].op = "create" /\ req'[c].pc = "attested" /\ req'[c].links = <<>>
        /\ req'[c].list = 0 /\ req'[c].index = 0
    BY <1>0, <1>a, <2>1, Moves DEF Requests, Idle
  <2>3. TypeOK'
    BY <1>1, <1>0, <2>2 DEF TypeOK, DefParts
  <2>4. Agrees(c)'
    BY <1>1, <2>2 DEF Agrees, Creating, DefParts
  <2>5. Kept(c)'
    BY <1>1, <1>0 DEF Agrees, Kept, Revoking
  <2>6. Whole(c)'
    <3> SUFFICES ASSUME crashes' = 0 PROVE Complete(c)'
      BY DEF Whole
    <3>1. Complete(c)
      BY <1>0, <1>1 DEF Whole
    <3>2. /\ req'[c] = Idle =>
                (def' = {} /\ links' = <<>>) \/ (def' = DefParts /\ links' # <<>>)
          /\ req'[c].pc \in {"delete", "attestedGone"} => def' = DefParts
          /\ req'[c].pc = "keysGone" => def' = DefParts \ {"attested"}
          /\ req'[c].pc = "recordGone" => def' = {"record"}
      BY <1>0, <1>1, <2>2, <3>1, IdleType
         DEF Complete, Agrees, Kept, Creating, Revoking, DefParts
    <3>3. stored' = IF req'[c].pc \in {"attestedGone", "keysGone", "recordGone"} THEN {}
                    ELSE {links'[k] : k \in 1..Len(links')} \cup Pending(c)'
      BY <1>1, <2>2, <3>1, IdleType DEF Complete, Pending
    <3> QED
      BY <3>2, <3>3 DEF Complete
  <2>7. RevokedStays'
    BY <1>1 DEF RevokedStays
  <2> QED
    BY <2>3, <2>4, <2>5, <2>6, <2>7, WholeNext
<1>2. ASSUME req[c].pc = "attested", def' = def \cup {"attested"}, links' = <<>>,
             Goto(c, "list"),
             UNCHANGED <<lists, stored, answered, fails, crashes>>
      PROVE  RegistryInv'
  <2>1. /\ [req[c] EXCEPT !.pc = "list"] \in Requests
        /\ req' = [req EXCEPT ![c] = [req[c] EXCEPT !.pc = "list"]]
    BY <1>a, <1>2 DEF Goto, Answer, rollbackRevocationRegistry, Requests
  <2>2. /\ req' \in [Callers -> Requests]
        /\ req'[c].op = req[c].op /\ req'[c].pc = "list"
        /\ req'[c].links = req[c].links
        /\ req'[c].list = req[c].list /\ req'[c].index = req[c].index
    BY <1>0, <1>a, <2>1, Moves DEF Requests, Idle
  <2>3. links' = links /\ def' = DefParts
    BY <1>0, <1>2 DEF Agrees, Kept, DefParts
  <2>4. TypeOK'
    BY <1>2, <1>0, <2>2, <2>3 DEF TypeOK
  <2>5. Agrees(c)'
    BY <1>2, <1>0, IdleType, <2>2, <2>3 DEF Agrees, Creating, Deleting, Kept
  <2>6. Kept(c)'
    BY <1>2, <1>0, <2>2, <2>3 DEF Agrees, Kept, Revoking
  <2>7. Whole(c)'
    <3> SUFFICES ASSUME crashes' = 0 PROVE Complete(c)'
      BY DEF Whole
    <3>1. Complete(c)
      BY <1>0, <1>2 DEF Whole
    <3>2. /\ req'[c] = Idle =>
                (def' = {} /\ links' = <<>>) \/ (def' = DefParts /\ links' # <<>>)
          /\ req'[c].pc \in {"delete", "attestedGone"} => def' = DefParts
          /\ req'[c].pc = "keysGone" => def' = DefParts \ {"attested"}
          /\ req'[c].pc = "recordGone" => def' = {"record"}
      BY <1>0, <1>2, <2>2, <3>1, IdleType, <2>3
         DEF Complete, Agrees, Kept, Creating, Revoking, DefParts
    <3>3. stored' = IF req'[c].pc \in {"attestedGone", "keysGone", "recordGone"} THEN {}
                    ELSE {links'[k] : k \in 1..Len(links')} \cup Pending(c)'
      BY <1>2, <2>2, <2>3, <3>1 DEF Complete, Pending
    <3> QED
      BY <3>2, <3>3 DEF Complete
  <2>8. RevokedStays'
    BY <1>2 DEF RevokedStays
  <2> QED
    BY <2>4, <2>5, <2>6, <2>7, <2>8, WholeNext
<1>3. ASSUME req[c].pc = "list", n < MaxLists, lists' = Append(lists, {}),
             req' = [req EXCEPT ![c].pc = "read", ![c].list = n + 1],
             UNCHANGED <<def, links, stored, answered, fails, crashes>>
      PROVE  RegistryInv'
  <2>1. /\ [req[c] EXCEPT !.pc = "read", !.list = n + 1] \in Requests
        /\ req' = [req EXCEPT ![c] = [req[c] EXCEPT !.pc = "read", !.list = n + 1]]
    <3>1. [req[c] EXCEPT !.pc = "read", !.list = n + 1] \in Requests
      <4>1. n + 1 \in Nat
        BY <1>b
      <4> QED
        BY <1>a, <1>3, <4>1 DEF Requests, Idle
    <3>2. req' = [req EXCEPT ![c] = [req[c] EXCEPT !.pc = "read", !.list = n + 1]]
      BY <1>0, <1>a, <1>3 DEF TypeOK
    <3> QED
      BY <3>1, <3>2
  <2>2. /\ req' \in [Callers -> Requests]
        /\ req'[c].op = req[c].op /\ req'[c].pc = "read"
        /\ req'[c].links = req[c].links
        /\ req'[c].list = n + 1 /\ req'[c].index = req[c].index
    BY <1>0, <1>a, <2>1, Moves DEF Requests, Idle
  <2>3. /\ lists' \in Seq(SUBSET Indexes) /\ Len(lists') = n + 1
        /\ \A k \in 1..n : lists'[k] = lists[k]
    BY <1>0, <1>b, <1>3 DEF TypeOK
  <2>4. TypeOK'
    BY <1>3, <1>0, <2>2, <2>3 DEF TypeOK
  <2>5. Agrees(c)'
    BY <1>3, <1>0, IdleType, <2>2, <2>3 DEF Agrees, Creating, Revoking, Deleting, Kept
  <2>6. Kept(c)'
    <3>1. links' = <<>> /\ answered' = {} /\ req[c].op = "create"
      BY <1>0, <1>3, IdleType DEF Agrees, Kept, Creating, Revoking, Deleting
    <3> QED
      BY <1>0, <1>c, <1>3, <2>2, <2>3, <3>1 DEF Kept, Creating, Revoking
  <2>7. Whole(c)'
    <3> SUFFICES ASSUME crashes' = 0 PROVE Complete(c)'
      BY DEF Whole
    <3>1. Complete(c)
      BY <1>0, <1>3 DEF Whole
    <3>2. /\ req'[c] = Idle =>
                (def' = {} /\ links' = <<>>) \/ (def' = DefParts /\ links' # <<>>)
          /\ req'[c].pc \in {"delete", "attestedGone"} => def' = DefParts
          /\ req'[c].pc = "keysGone" => def' = DefParts \ {"attested"}
          /\ req'[c].pc = "recordGone" => def' = {"record"}
      BY <1>0, <1>3, <2>2, <3>1, IdleType
         DEF Complete, Agrees, Kept, Creating, Revoking, DefParts
    <3>3. stored' = IF req'[c].pc \in {"attestedGone", "keysGone", "recordGone"} THEN {}
                    ELSE {links'[k] : k \in 1..Len(links')} \cup Pending(c)'
      BY <1>3, <2>2, <3>1, IdleType DEF Complete, Pending
    <3> QED
      BY <3>2, <3>3 DEF Complete
  <2>8. RevokedStays'
    BY <1>0, <1>3 DEF RevokedStays, Kept, Agrees, Creating, Revoking
  <2> QED
    BY <2>4, <2>5, <2>6, <2>7, <2>8, WholeNext
<1>4. ASSUME req[c].pc \in {"list", "read"}, req[c].op = "create",
             rollbackRevocationRegistry(c),
             UNCHANGED <<def, links, lists, stored, answered, crashes>>
      PROVE  RegistryInv'
  <2>1. /\ [req[c] EXCEPT !.pc = "delete"] \in Requests
        /\ req' = [req EXCEPT ![c] = [req[c] EXCEPT !.pc = "delete"]]
    BY <1>a, <1>4 DEF Goto, rollbackRevocationRegistry, Requests
  <2>2. /\ req' \in [Callers -> Requests]
        /\ req'[c].op = req[c].op /\ req'[c].pc = "delete"
        /\ req'[c].links = req[c].links
        /\ req'[c].list = req[c].list /\ req'[c].index = req[c].index
    BY <1>0, <1>a, <2>1, Moves DEF Requests, Idle
  <2>3. fails' \in 0..MaxFails
    BY <1>d, <1>4 DEF rollbackRevocationRegistry, Fails
  <2>4. TypeOK'
    BY <1>4, <1>0, <2>2, <2>3 DEF TypeOK
  <2>5. Agrees(c)'
    BY <2>2 DEF Agrees, Deleting
  <2>6. Kept(c)'
    BY <1>4, <1>0, <2>2 DEF Agrees, Kept, Creating, Revoking
  <2>7. Whole(c)'
    <3> SUFFICES ASSUME crashes' = 0 PROVE Complete(c)'
      BY DEF Whole
    <3>1. Complete(c)
      BY <1>0, <1>4 DEF Whole
    <3>2. /\ req'[c] = Idle =>
                (def' = {} /\ links' = <<>>) \/ (def' = DefParts /\ links' # <<>>)
          /\ req'[c].pc \in {"delete", "attestedGone"} => def' = DefParts
          /\ req'[c].pc = "keysGone" => def' = DefParts \ {"attested"}
          /\ req'[c].pc = "recordGone" => def' = {"record"}
      BY <1>0, <1>4, <2>2, <3>1, IdleType
         DEF Complete, Agrees, Kept, Creating, Revoking, DefParts
    <3>3. stored' = IF req'[c].pc \in {"attestedGone", "keysGone", "recordGone"} THEN {}
                    ELSE {links'[k] : k \in 1..Len(links')} \cup Pending(c)'
      BY <1>4, <2>2, <3>1, IdleType DEF Complete, Pending
    <3> QED
      BY <3>2, <3>3 DEF Complete
  <2>8. RevokedStays'
    BY <1>4, <1>0 DEF RevokedStays
  <2> QED
    BY <2>4, <2>5, <2>6, <2>7, <2>8, WholeNext
<1>5. ASSUME req[c].pc \in {"list", "read"}, req[c].op # "create",
             rollbackRevocationRegistry(c),
             UNCHANGED <<def, links, lists, stored, answered, crashes>>
      PROVE  RegistryInv'
  <2>1. /\ Idle \in Requests
        /\ req' = [req EXCEPT ![c] = Idle]
    BY <1>5, IdleType DEF Goto, Answer, rollbackRevocationRegistry
  <2>2. /\ req' \in [Callers -> Requests]
        /\ req'[c].op = "none" /\ req'[c].pc = "idle" /\ req'[c].links = <<>>
        /\ req'[c].list = 0 /\ req'[c].index = 0
        /\ req'[c] = Idle
    BY <1>0, <1>a, <2>1, Moves DEF Requests, Idle
  <2>3. fails' \in 0..MaxFails
    BY <1>d, <1>5 DEF rollbackRevocationRegistry, Fails
  <2>4. TypeOK'
    BY <1>5, <1>0, <2>2, <2>3 DEF TypeOK
  <2>5. Agrees(c)'
    BY <2>2 DEF Agrees
  <2>6. Kept(c)'
    BY <1>5, <1>0, <2>2 DEF Agrees, Kept, Creating, Revoking
  <2>7. Whole(c)'
    BY <1>5, <1>0, <2>2 DEF Agrees, Creating, Deleting, Whole, Complete, Pending, Kept
  <2>8. RevokedStays'
    BY <1>5, <1>0 DEF RevokedStays
  <2> QED
    BY <2>4, <2>5, <2>6, <2>7, <2>8, WholeNext
<1>6. ASSUME req[c].pc = "read", req' = [req EXCEPT ![c].pc = "save", ![c].links = links],
             UNCHANGED <<def, links, lists, stored, answered, fails, crashes>>
      PROVE  RegistryInv'
  <2>1. /\ [req[c] EXCEPT !.pc = "save", !.links = links] \in Requests
        /\ req' = [req EXCEPT ![c] = [req[c] EXCEPT !.pc = "save", !.links = links]]
    BY <1>0, <1>6 DEF Goto, Answer, rollbackRevocationRegistry, Requests, TypeOK
  <2>2. /\ req' \in [Callers -> Requests]
        /\ req'[c].op = req[c].op /\ req'[c].pc = "save" /\ req'[c].links = links
        /\ req'[c].list = req[c].list /\ req'[c].index = req[c].index
    BY <1>0, <1>a, <2>1, Moves DEF Requests, Idle
  <2>3. TypeOK'
    BY <1>6, <1>0, <2>2 DEF TypeOK
  <2>4. Agrees(c)'
    BY <1>6, <1>0, IdleType, <2>2 DEF Agrees, Creating, Revoking, Deleting, Kept
  <2>5. Kept(c)'
    BY <1>6, <1>0, <2>2 DEF Agrees, Kept, Creating, Revoking
  <2>6. Whole(c)'
    <3> SUFFICES ASSUME crashes' = 0 PROVE Complete(c)'
      BY DEF Whole
    <3>1. Complete(c)
      BY <1>0, <1>6 DEF Whole
    <3>2. /\ req'[c] = Idle =>
                (def' = {} /\ links' = <<>>) \/ (def' = DefParts /\ links' # <<>>)
          /\ req'[c].pc \in {"delete", "attestedGone"} => def' = DefParts
          /\ req'[c].pc = "keysGone" => def' = DefParts \ {"attested"}
          /\ req'[c].pc = "recordGone" => def' = {"record"}
      BY <1>0, <1>6, <2>2, <3>1, IdleType
         DEF Complete, Agrees, Kept, Creating, Revoking, DefParts
    <3>3. stored' = IF req'[c].pc \in {"attestedGone", "keysGone", "recordGone"} THEN {}
                    ELSE {links'[k] : k \in 1..Len(links')} \cup Pending(c)'
      BY <1>6, <2>2, <3>1, IdleType DEF Complete, Pending
    <3> QED
      BY <3>2, <3>3 DEF Complete
  <2>7. RevokedStays'
    BY <1>6, <1>0 DEF RevokedStays
  <2> QED
    BY <2>3, <2>4, <2>5, <2>6, <2>7, WholeNext
<1>7. ASSUME req[c].pc = "save", stored' = stored \cup {req[c].list}, Goto(c, "link"),
             UNCHANGED <<def, links, lists, answered, fails, crashes>>
      PROVE  RegistryInv'
  <2>1. /\ [req[c] EXCEPT !.pc = "link"] \in Requests
        /\ req' = [req EXCEPT ![c] = [req[c] EXCEPT !.pc = "link"]]
    BY <1>a, <1>7 DEF Goto, Answer, rollbackRevocationRegistry, Requests
  <2>2. /\ req' \in [Callers -> Requests]
        /\ req'[c].op = req[c].op /\ req'[c].pc = "link"
        /\ req'[c].links = req[c].links
        /\ req'[c].list = req[c].list /\ req'[c].index = req[c].index
    BY <1>0, <1>a, <2>1, Moves DEF Requests, Idle
  <2>3. TypeOK'
    <3>1. req[c].list \in Nat
      BY <1>a DEF Requests
    <3> QED
      BY <1>0, <1>7, <2>2, <3>1 DEF TypeOK
  <2>4. Agrees(c)'
    BY <1>7, <1>0, IdleType, <2>2 DEF Agrees, Creating, Revoking, Deleting, Kept
  <2>5. Kept(c)'
    BY <1>7, <1>0, <2>2 DEF Agrees, Kept, Creating, Revoking
  <2>6. Whole(c)'
    <3> SUFFICES ASSUME crashes' = 0 PROVE Complete(c)'
      BY DEF Whole
    <3>1. Complete(c)
      BY <1>0, <1>7 DEF Whole
    <3>2. /\ req'[c] = Idle =>
                (def' = {} /\ links' = <<>>) \/ (def' = DefParts /\ links' # <<>>)
          /\ req'[c].pc \in {"delete", "attestedGone"} => def' = DefParts
          /\ req'[c].pc = "keysGone" => def' = DefParts \ {"attested"}
          /\ req'[c].pc = "recordGone" => def' = {"record"}
      BY <1>0, <1>7, <2>2, <3>1, IdleType
         DEF Complete, Agrees, Kept, Creating, Revoking, DefParts
    <3>3. stored' = IF req'[c].pc \in {"attestedGone", "keysGone", "recordGone"} THEN {}
                    ELSE {links'[k] : k \in 1..Len(links')} \cup Pending(c)'
      BY <1>7, <2>2, <3>1, IdleType DEF Complete, Pending
    <3> QED
      BY <3>2, <3>3 DEF Complete
  <2>7. RevokedStays'
    BY <1>7, <1>0 DEF RevokedStays
  <2> QED
    BY <2>3, <2>4, <2>5, <2>6, <2>7, WholeNext
<1>8. ASSUME req[c].pc = "link", Answer(c), links' = Append(req[c].links, req[c].list),
             answered' = IF req[c].op = "revoke" THEN answered \cup {req[c].index}
                         ELSE answered,
             UNCHANGED <<def, lists, stored, fails, crashes>>
      PROVE  RegistryInv'
  <2>1. /\ Idle \in Requests
        /\ req' = [req EXCEPT ![c] = Idle]
    BY <1>8, IdleType DEF Goto, Answer, rollbackRevocationRegistry
  <2>2. /\ req' \in [Callers -> Requests]
        /\ req'[c].op = "none" /\ req'[c].pc = "idle" /\ req'[c].links = <<>>
        /\ req'[c].list = 0 /\ req'[c].index = 0
        /\ req'[c] = Idle
    BY <1>0, <1>a, <2>1, Moves DEF Requests, Idle
  <2>3. /\ links' \in Seq(Nat) /\ Len(links') = l + 1 /\ links' # <<>>
        /\ \A k \in 1..l : links'[k] = links[k]
        /\ links'[l + 1] = req[c].list
    BY <1>0, <1>a, <1>c, <1>8 DEF Agrees, Requests, TypeOK
  <2>4. TypeOK'
    <3>1. req[c].op = "revoke" => req[c].index \in Indexes
      BY <1>0, <1>b, <1>8 DEF Kept, Revoking, Agrees
    <3>2. answered' \subseteq Indexes
      BY <1>0, <1>8, <3>1 DEF TypeOK
    <3> QED
      BY <1>0, <1>8, <2>2, <2>3, <3>2 DEF TypeOK
  <2>5. Agrees(c)'
    BY <2>2 DEF Agrees
  <2>6. Kept(c)'
    BY <1>8, <1>0, <2>1, <2>2 DEF Agrees, Kept, Creating, Revoking, DefParts
  <2>7. Whole(c)'
    <3> SUFFICES ASSUME crashes' = 0 PROVE Complete(c)'
      BY DEF Whole
    <3>1. Complete(c)
      BY <1>0, <1>8 DEF Whole
    <3>2. /\ req'[c] = Idle =>
                (def' = {} /\ links' = <<>>) \/ (def' = DefParts /\ links' # <<>>)
          /\ req'[c].pc \in {"delete", "attestedGone"} => def' = DefParts
          /\ req'[c].pc = "keysGone" => def' = DefParts \ {"attested"}
          /\ req'[c].pc = "recordGone" => def' = {"record"}
      BY <1>0, <1>8, <2>2, <3>1, IdleType, <2>3
         DEF Complete, Agrees, Kept, Creating, Revoking, DefParts
    <3>3. stored' = IF req'[c].pc \in {"attestedGone", "keysGone", "recordGone"} THEN {}
                    ELSE {links'[k] : k \in 1..Len(links')} \cup Pending(c)'
      <4>1. {links'[k] : k \in 1..(l + 1)} = {links[k] : k \in 1..l} \cup {req[c].list}
        <5>1. \A k \in 1..(l + 1) : k \in 1..l \/ k = l + 1
          BY <1>c
        <5>2. l + 1 \in 1..(l + 1) /\ \A k \in 1..l : k \in 1..(l + 1)
          BY <1>c
        <5> QED
          BY <2>3, <5>1, <5>2
      <4> QED
        BY <1>8, <1>c, <2>2, <2>3, <3>1, <4>1 DEF Complete, Pending
    <3> QED
      BY <3>2, <3>3 DEF Complete
  <2>8. RevokedStays'
    <3>1. answered' \subseteq lists[req[c].list]
      <4>1. CASE Creating(c)
        BY <1>0, <1>8, <4>1 DEF Kept, Creating
      <4>2. CASE Revoking(c)
        BY <1>0, <1>8, <4>2 DEF Kept, Revoking
      <4> QED
        BY <1>0, <1>8, <4>1, <4>2, IdleType DEF Agrees, Deleting
    <3> QED
      BY <1>8, <1>c, <2>3, <3>1 DEF RevokedStays
  <2> QED
    BY <2>4, <2>5, <2>6, <2>7, <2>8, WholeNext
<1>9. ASSUME NEW i \in Indexes, req[c] = Idle, n < MaxLists, "attested" \in def,
             links # <<>>,
             lists' = Append(lists, lists[links[l]] \cup {i}),
             req' = [req EXCEPT ![c] = [Idle EXCEPT !.op = "revoke", !.pc = "read",
                                             !.list = n + 1, !.index = i]],
             UNCHANGED <<def, links, stored, answered, fails, crashes>>
      PROVE  RegistryInv'
  <2>1. /\ [Idle EXCEPT !.op = "revoke", !.pc = "read", !.list = n + 1,
                                   !.index = i] \in Requests
        /\ req' = [req EXCEPT ![c] =
                                  [Idle EXCEPT !.op = "revoke", !.pc = "read", !.list = n + 1,
                                   !.index = i]]
    <3>1. [Idle EXCEPT !.op = "revoke", !.pc = "read", !.list = n + 1,
                                   !.index = i] \in Requests
      <4>1. n + 1 \in Nat
        BY <1>b
      <4> QED
        BY <1>a, <1>9, <4>1 DEF Requests, Idle
    <3>2. req' = [req EXCEPT ![c] =
                                  [Idle EXCEPT !.op = "revoke", !.pc = "read", !.list = n + 1,
                                   !.index = i]]
      BY <1>0, <1>a, <1>9 DEF TypeOK
    <3> QED
      BY <3>1, <3>2
  <2>2. /\ req' \in [Callers -> Requests]
        /\ req'[c].op = "revoke" /\ req'[c].pc = "read" /\ req'[c].links = <<>>
        /\ req'[c].list = n + 1 /\ req'[c].index = i
    BY <1>0, <1>a, <2>1, Moves DEF Requests, Idle
  <2>3. /\ lists' \in Seq(SUBSET Indexes) /\ Len(lists') = n + 1
        /\ \A k \in 1..n : lists'[k] = lists[k]
        /\ lists'[n + 1] = lists[links[l]] \cup {i} /\ l \in 1..l /\ links[l] \in 1..n
    BY <1>0, <1>b, <1>c, <1>9 DEF TypeOK, Kept
  <2>4. TypeOK'
    BY <1>9, <1>0, <2>2, <2>3 DEF TypeOK
  <2>5. Agrees(c)'
    BY <1>9, <1>0, <2>3 DEF Agrees, Revoking, Kept
  <2>6. Kept(c)'
    <3>1. answered \subseteq lists[links[l]]
      BY <1>0, <1>c, <1>9 DEF RevokedStays
    <3>2. \A k \in 1..l : links[k] \in 1..(n + 1)
      BY <1>0, <1>b, <1>c DEF Kept
    <3>3. answered \cup {i} \subseteq lists'[n + 1]
      BY <2>3, <3>1
    <3> QED
      BY <1>0, <1>c, <1>9, <2>2, <2>3, <3>2, <3>3 DEF Kept, Creating, Revoking
  <2>7. Whole(c)'
    <3> SUFFICES ASSUME crashes' = 0 PROVE Complete(c)'
      BY DEF Whole
    <3>1. Complete(c)
      BY <1>0, <1>9 DEF Whole
    <3>2. /\ req'[c] = Idle =>
                (def' = {} /\ links' = <<>>) \/ (def' = DefParts /\ links' # <<>>)
          /\ req'[c].pc \in {"delete", "attestedGone"} => def' = DefParts
          /\ req'[c].pc = "keysGone" => def' = DefParts \ {"attested"}
          /\ req'[c].pc = "recordGone" => def' = {"record"}
      BY <1>0, <1>9, <2>2, <3>1, IdleType
         DEF Complete, Agrees, Kept, Creating, Revoking, DefParts
    <3>3. stored' = IF req'[c].pc \in {"attestedGone", "keysGone", "recordGone"} THEN {}
                    ELSE {links'[k] : k \in 1..Len(links')} \cup Pending(c)'
      BY <1>9, <2>2, <3>1, IdleType DEF Complete, Pending
    <3> QED
      BY <3>2, <3>3 DEF Complete
  <2>8. RevokedStays'
    BY <1>0, <1>c, <1>9, <2>3 DEF RevokedStays
  <2> QED
    BY <2>4, <2>5, <2>6, <2>7, <2>8, WholeNext
<1>10. ASSUME req[c] = Idle, "record" \in def, Goto(c, "delete"),
             UNCHANGED <<def, links, lists, stored, answered, fails, crashes>>
      PROVE  RegistryInv'
  <2>1. /\ [req[c] EXCEPT !.pc = "delete"] \in Requests
        /\ req' = [req EXCEPT ![c] = [req[c] EXCEPT !.pc = "delete"]]
    BY <1>10, IdleType DEF Goto, Answer, rollbackRevocationRegistry, Requests
  <2>2. /\ req' \in [Callers -> Requests]
        /\ req'[c].op = req[c].op /\ req'[c].pc = "delete"
        /\ req'[c].links = req[c].links
        /\ req'[c].list = req[c].list /\ req'[c].index = req[c].index
    BY <1>0, <1>a, <2>1, Moves DEF Requests, Idle
  <2>3. TypeOK'
    BY <1>10, <1>0, <2>2 DEF TypeOK
  <2>4. Agrees(c)'
    BY <2>2 DEF Agrees, Deleting
  <2>5. Kept(c)'
    BY <1>10, <1>0, <2>2 DEF Agrees, Kept, Creating, Revoking
  <2>6. Whole(c)'
    BY <1>10, <1>0, IdleType, <2>2 DEF Agrees, Whole, Complete, Pending
  <2>7. RevokedStays'
    BY <1>10, <1>0 DEF RevokedStays
  <2> QED
    BY <2>3, <2>4, <2>5, <2>6, <2>7, WholeNext
<1>11. ASSUME req[c].pc = "delete", Goto(c, "attestedGone"),
             stored' = stored \ {links[k] : k \in DOMAIN links},
             UNCHANGED <<def, links, lists, answered, fails, crashes>>
      PROVE  RegistryInv'
  <2>1. /\ [req[c] EXCEPT !.pc = "attestedGone"] \in Requests
        /\ req' = [req EXCEPT ![c] = [req[c] EXCEPT !.pc = "attestedGone"]]
    BY <1>a, <1>11 DEF Goto, Answer, rollbackRevocationRegistry, Requests
  <2>2. /\ req' \in [Callers -> Requests]
        /\ req'[c].op = req[c].op /\ req'[c].pc = "attestedGone"
        /\ req'[c].links = req[c].links
        /\ req'[c].list = req[c].list /\ req'[c].index = req[c].index
    BY <1>0, <1>a, <2>1, Moves DEF Requests, Idle
  <2>3. TypeOK'
    BY <1>11, <1>0, <2>2 DEF TypeOK
  <2>4. Agrees(c)'
    BY <2>2 DEF Agrees, Deleting
  <2>5. Kept(c)'
    BY <1>11, <1>0, <2>2 DEF Agrees, Kept, Creating, Revoking
  <2>6. Whole(c)'
    BY <1>11, <1>0, <1>c, IdleType, <2>2 DEF Agrees, Whole, Complete, Pending
  <2>7. RevokedStays'
    BY <1>11, <1>0 DEF RevokedStays
  <2> QED
    BY <2>3, <2>4, <2>5, <2>6, <2>7, WholeNext
<1>12. ASSUME req[c].pc = "attestedGone", Goto(c, "keysGone"), def' = def \ {"attested"},
             links' = <<>>, answered' = {}, UNCHANGED <<lists, stored, fails, crashes>>
      PROVE  RegistryInv'
  <2>1. /\ [req[c] EXCEPT !.pc = "keysGone"] \in Requests
        /\ req' = [req EXCEPT ![c] = [req[c] EXCEPT !.pc = "keysGone"]]
    BY <1>a, <1>12 DEF Goto, Answer, rollbackRevocationRegistry, Requests
  <2>2. /\ req' \in [Callers -> Requests]
        /\ req'[c].op = req[c].op /\ req'[c].pc = "keysGone"
        /\ req'[c].links = req[c].links
        /\ req'[c].list = req[c].list /\ req'[c].index = req[c].index
    BY <1>0, <1>a, <2>1, Moves DEF Requests, Idle
  <2>3. TypeOK'
    BY <1>12, <1>0, <2>2 DEF TypeOK
  <2>4. Agrees(c)'
    BY <1>12, <2>2 DEF Agrees, Deleting
  <2>5. Kept(c)'
    BY <1>12, <2>2 DEF Agrees, Kept, Revoking
  <2>6. Whole(c)'
    BY <1>12, <1>0, IdleType, <2>2 DEF Agrees, Whole, Complete
  <2>7. RevokedStays'
    BY <1>12 DEF RevokedStays
  <2> QED
    BY <2>3, <2>4, <2>5, <2>6, <2>7, WholeNext
<1>13. ASSUME req[c].pc = "keysGone", Goto(c, "recordGone"),
             def' = def \ {"tails", "private"},
             UNCHANGED <<links, lists, stored, answered, fails, crashes>>
      PROVE  RegistryInv'
  <2>1. /\ [req[c] EXCEPT !.pc = "recordGone"] \in Requests
        /\ req' = [req EXCEPT ![c] = [req[c] EXCEPT !.pc = "recordGone"]]
    BY <1>a, <1>13 DEF Goto, Answer, rollbackRevocationRegistry, Requests
  <2>2. /\ req' \in [Callers -> Requests]
        /\ req'[c].op = req[c].op /\ req'[c].pc = "recordGone"
        /\ req'[c].links = req[c].links
        /\ req'[c].list = req[c].list /\ req'[c].index = req[c].index
    BY <1>0, <1>a, <2>1, Moves DEF Requests, Idle
  <2>3. TypeOK'
    BY <1>13, <1>0, <2>2 DEF TypeOK
  <2>4. Agrees(c)'
    BY <1>13, <1>0, <2>2 DEF Agrees, Deleting
  <2>5. Kept(c)'
    BY <1>13, <1>0, <2>2 DEF Agrees, Kept, Revoking
  <2>6. Whole(c)'
    BY <1>13, <1>0, IdleType, <2>2 DEF Agrees, Whole, Complete, DefParts
  <2>7. RevokedStays'
    BY <1>13, <1>0 DEF RevokedStays
  <2> QED
    BY <2>3, <2>4, <2>5, <2>6, <2>7, WholeNext
<1>14. ASSUME req[c].pc = "recordGone", Answer(c), def' = {},
             UNCHANGED <<links, lists, stored, answered, fails, crashes>>
      PROVE  RegistryInv'
  <2>1. /\ Idle \in Requests
        /\ req' = [req EXCEPT ![c] = Idle]
    BY <1>14, IdleType DEF Goto, Answer, rollbackRevocationRegistry
  <2>2. /\ req' \in [Callers -> Requests]
        /\ req'[c].op = "none" /\ req'[c].pc = "idle" /\ req'[c].links = <<>>
        /\ req'[c].list = 0 /\ req'[c].index = 0
        /\ req'[c] = Idle
    BY <1>0, <1>a, <2>1, Moves DEF Requests, Idle
  <2>3. TypeOK'
    BY <1>14, <1>0, <2>2 DEF TypeOK
  <2>4. Agrees(c)'
    BY <2>2 DEF Agrees
  <2>5. Kept(c)'
    BY <1>14, <1>0, <2>2 DEF Agrees, Kept, Revoking
  <2>6. Whole(c)'
    BY <1>14, <1>0, <2>2 DEF Agrees, Whole, Complete, Pending, Kept
  <2>7. RevokedStays'
    BY <1>14 DEF RevokedStays
  <2> QED
    BY <2>3, <2>4, <2>5, <2>6, <2>7, WholeNext
<1>15. ASSUME req' = req, fails' \in 0..MaxFails,
              UNCHANGED <<def, links, lists, stored, answered, crashes>>
       PROVE  RegistryInv'
  <2>1. TypeOK' /\ Agrees(c)' /\ Kept(c)' /\ Whole(c)' /\ RevokedStays'
    BY <1>0, <1>15
       DEF TypeOK, Agrees, Creating, Revoking, Deleting, Kept, Whole, Complete,
           Pending, RevokedStays
  <2> QED
    BY <2>1, WholeNext
<1>16. CASE crash
  <2>1. /\ req' = [x \in Callers |-> Idle] /\ req'[c] = Idle /\ crashes' \in 1..MaxCrashes
        /\ UNCHANGED <<def, links, lists, stored, answered, fails>>
    BY <1>16, <1>d DEF crash
  <2>2. TypeOK'
    BY <1>0, <2>1, IdleType DEF TypeOK
  <2>3. Agrees(c)' /\ Kept(c)' /\ Whole(c)' /\ RevokedStays'
    BY <1>0, <2>1, IdleType DEF Agrees, Creating, Revoking, Kept, Whole, RevokedStays
  <2> QED
    BY <2>2, <2>3, WholeNext
<1>17. CASE createRevocationRegistry(c)
  BY <1>1, <1>2, <1>3, <1>4, <1>5, <1>17, <1>b DEF createRevocationRegistry
<1>18. CASE appendStatusListToRevocationRegistry(c)
  <2>1. req[c].pc \in {"read", "link"} => "attested" \in def
    BY <1>0 DEF Agrees, DefParts
  <2> QED
    BY <2>1, <1>4, <1>5, <1>6, <1>7, <1>8, <1>18
       DEF appendStatusListToRevocationRegistry
<1>19. ASSUME NEW i \in Indexes, revokeCredential(c, i) PROVE RegistryInv'
  <2>1. CASE Fails /\ UNCHANGED <<lists, req>>
    BY <2>1, <1>15, <1>19, <1>d DEF revokeCredential, Fails
  <2> QED
    BY <2>1, <1>9, <1>19, <1>b, <1>c DEF revokeCredential
<1>20. CASE deleteRevocationRegistry(c)
  BY <1>10, <1>11, <1>12, <1>13, <1>14, <1>20 DEF deleteRevocationRegistry
<1>21. CASE UNCHANGED vars
  BY <1>15, <1>21, <1>d DEF vars
<1> QED
  BY <1>16, <1>17, <1>18, <1>19, <1>20, <1>21 DEF Next

\* createRevocationRegistry, revokeCredential and deleteRevocationRegistry, for
\* requests that do not overlap: a revocation that was answered is in the list
\* the registry names last, over any failing calls and stops; without a stop, a
\* registry that is listed can issue, and a deletion or a rollback leaves neither
\* keys nor status lists.
THEOREM RegistryInvariance == OneCaller /\ Spec => []RegistryInv
<1>1. OneCaller /\ Init => RegistryInv
  BY InitInv
<1>2. OneCaller /\ RegistryInv /\ [Next]_vars => RegistryInv'
  BY Step DEF OneCaller
<1> SUFFICES ASSUME OneCaller PROVE Spec => []RegistryInv
  OBVIOUS
<1> QED
  BY <1>1, <1>2, PTL DEF Spec

-----------------------------------------------------------------------------
\* Credential definitions and their schema, of one administrator, for any
\* number of definitions, of schema records and of stops of the process.

\* The request of the administrator.
Call == typeCalls[m1]
Creates(S) == Call.op = "create" /\ Call.pc \in S
Imports(S) == Call.op = "import" /\ Call.pc \in S
Deletes(S) == Call.op = "delete" /\ Call.pc \in S

\* The values, and where a request stands.
DefinitionTypes ==
    /\ Definitions!TypeOK
    /\ defs \in [Definitions!Ids -> SUBSET Definitions!Parts]
    /\ served \in BOOLEAN /\ second \in BOOLEAN /\ exported \in BOOLEAN /\ typeStops \in Nat
    /\ typeCalls \in [{m1} -> [op : {"none", "create", "import", "delete"},
                               pc : {"idle", "schema", "equivalent", "register", "tagSchema",
                                     "saveSchema", "credDef", "attested", "tag", "private",
                                     "proof", "record"},
                               id : Definitions!Ids]]
    /\ Call.op = "none" => Call = Definitions!Idle

\* What a request has stored of a definition, and what a deletion has removed.
DefinitionSteps ==
    /\ Call.op = "create" => Definitions!Tagged = {} /\ Call.id # 0
    /\ Creates({"attested", "tag"}) => "record" \in defs[Call.id]
    /\ Call.op = "import" => Call.id = 0 /\ "record" \in defs[0]
    /\ Deletes({"private", "proof", "attested", "record"}) => "record" \in defs[Call.id]
    /\ Deletes({"proof", "attested", "record"}) => "private" \notin defs[Call.id]
    /\ Deletes({"attested", "record"}) => "proof" \notin defs[Call.id]
    /\ Deletes({"record"}) => "attested" \notin defs[Call.id]

\* The schema: a definition is created when it has a record; as long as the
\* process does not stop, a record there is when a publication begins is served,
\* or about to be.
SchemaSteps ==
    /\ Creates({"saveSchema", "credDef"}) => recs # <<>>
    /\ pub = "save" => recs # <<>>
    /\ typeStops = 0 =>
         /\ pub = "idle" =>
              /\ Creates({"register"}) => recs = <<>>
              /\ Creates({"tagSchema"}) => Len(recs) = 1
              /\ recs # <<>> => served \/ Creates({"tagSchema", "saveSchema"})
              /\ Definitions!SchemaTagged => served \/ Creates({"saveSchema"})
         /\ pub = "done" => served \/ Creates({"saveSchema"})

\* A definition has its keys, unless a request is at work on it.
KeysKept ==
    typeStops = 0 =>
      /\ \A d \in Definitions!Ids :
           "record" \in defs[d] =>
             \/ {"private", "proof"} \subseteq defs[d]
             \/ Call.op \in {"import", "delete"} /\ Call.id = d
      /\ Imports({"proof"}) => "private" \in defs[0]

\* The inductive invariant.
DefinitionsInv ==
    /\ DefinitionTypes /\ DefinitionSteps /\ SchemaSteps /\ KeysKept
    /\ Definitions!CreateMakesNoSecond /\ Definitions!NoOrphans
    /\ typeStops = 0 => Definitions!ExportImports

\* The values the request of the administrator can have.
Calls ==
    [op : {"none", "create", "import", "delete"},
     pc : {"idle", "schema", "equivalent", "register", "tagSchema", "saveSchema", "credDef",
           "attested", "tag", "private", "proof", "record"},
     id : Definitions!Ids]

\* A request that goes on, and one that is answered.
LEMMA CallGoes ==
  ASSUME DefinitionTypes,
         NEW pc \in {"schema", "equivalent", "register", "tagSchema", "saveSchema", "credDef",
                     "attested", "tag", "private", "proof", "record"},
         Definitions!Goto(m1, pc)
  PROVE  /\ typeCalls' \in [{m1} -> Calls]
         /\ Call'.op = Call.op /\ Call'.pc = pc /\ Call'.id = Call.id /\ Call'.id \in Definitions!Ids
BY DEF Definitions!Goto, DefinitionTypes, Calls, Call

LEMMA CallEnds ==
  ASSUME DefinitionTypes, Definitions!Answer(m1)
  PROVE  typeCalls' \in [{m1} -> Calls] /\ Call' = Definitions!Idle
<1>1. Definitions!Idle \in Calls
  BY TypeBounds DEF Definitions!Idle, Calls, Definitions!Ids
<1> QED
  BY <1>1 DEF Definitions!Answer, DefinitionTypes, Calls, Call

\* A request that begins.
LEMMA CallBegins ==
  ASSUME DefinitionTypes, NEW x \in Calls, typeCalls' = [typeCalls EXCEPT ![m1] = x]
  PROVE  typeCalls' \in [{m1} -> Calls] /\ Call' = x
BY DEF DefinitionTypes, Calls, Call

\* The values the steps that follow start from.
LEMMA CallFacts ==
  ASSUME DefinitionTypes
  PROVE  /\ typeCalls \in [{m1} -> Calls] /\ Call \in Calls
         /\ Call.op \in {"none", "create", "import", "delete"} /\ Call.id \in Definitions!Ids
         /\ Call.op = "none" => Call = Definitions!Idle
         /\ recs \in Seq(BOOLEAN) /\ Len(recs) <= MaxRecs /\ Len(recs) \in Nat
         /\ MaxRecs \in Nat \ {0} /\ 0 \in Definitions!Ids
         /\ DOMAIN recs = 1..Len(recs)
         /\ \A d \in Definitions!Ids : defs[d] \in SUBSET Definitions!Parts
         /\ defs \in [Definitions!Ids -> SUBSET Definitions!Parts]
         /\ served \in BOOLEAN /\ second \in BOOLEAN /\ exported \in BOOLEAN /\ typeStops \in Nat
         /\ pub \in {"idle", "register", "tag", "save", "done", "failed"}
         /\ Definitions!Idle.op = "none" /\ Definitions!Idle.pc = "idle" /\ Definitions!Idle.id = 0
<1>1. Call \in Calls /\ typeCalls \in [{m1} -> Calls] /\ (Call.op = "none" => Call = Definitions!Idle)
  BY DEF DefinitionTypes, Calls, Call
<1>2. /\ recs \in Seq(BOOLEAN) /\ Len(recs) <= MaxRecs
      /\ pub \in {"idle", "register", "tag", "save", "done", "failed"}
  BY DEF DefinitionTypes, Definitions!TypeOK
<1>3. /\ defs \in [Definitions!Ids -> SUBSET Definitions!Parts]
      /\ served \in BOOLEAN /\ second \in BOOLEAN /\ exported \in BOOLEAN /\ typeStops \in Nat
  BY DEF DefinitionTypes
<1>4. Len(recs) \in Nat /\ DOMAIN recs = 1..Len(recs)
  BY <1>2, LenProperties
<1>5. 0 \in Definitions!Ids
  BY TypeBounds DEF Definitions!Ids
<1> QED
  BY <1>1, <1>2, <1>3, <1>4, <1>5, TypeBounds DEF Calls, Definitions!Idle

\* The types, from their parts.
LEMMA DefinitionTypesKept ==
  ASSUME recs' \in Seq(BOOLEAN), Len(recs') <= MaxRecs,
         defs' \in [Definitions!Ids -> SUBSET Definitions!Parts],
         served' \in BOOLEAN, second' \in BOOLEAN, exported' \in BOOLEAN, typeStops' \in Nat,
         pub' \in {"idle", "register", "tag", "save", "done", "failed"},
         typeCalls' \in [{m1} -> Calls],
         Call'.op = "none" => Call' = Definitions!Idle
  PROVE  DefinitionTypes'
<1>1. Definitions!TypeOK'
  BY DEF Definitions!TypeOK, Calls
<1> QED
  BY <1>1 DEF DefinitionTypes, Calls, Call

\* A step that leaves the definitions and goes on within its operation, or
\* answers a creation.
LEMMA SchemaOnly ==
  ASSUME DefinitionsInv, UNCHANGED <<defs, second, exported, typeStops>>, DefinitionTypes', SchemaSteps',
         \/ Call' = Call
         \/ Call.op = "create" /\ Call' = Definitions!Idle
         \/ /\ Call.op = "create" /\ Call'.op = "create" /\ Call'.id = Call.id
            /\ Call'.pc \notin {"attested", "tag"}
  PROVE  DefinitionsInv'
<1> USE CallFacts DEF DefinitionsInv
<1>1. Definitions!Tagged' = Definitions!Tagged
  BY DEF Definitions!Tagged
<1>2. DefinitionSteps'
  BY <1>1 DEF DefinitionSteps, Creates, Imports, Deletes
<1>3. KeysKept'
  BY DEF KeysKept, Imports
<1>4. Definitions!CreateMakesNoSecond' /\ Definitions!NoOrphans' /\ (typeStops' = 0 => Definitions!ExportImports')
  BY DEF Definitions!CreateMakesNoSecond, Definitions!NoOrphans, Definitions!ExportImports
<1> QED
  BY <1>2, <1>3, <1>4

\* DefinitionsInv holds when nothing is registered.
LEMMA DefinitionsStart == Definitions!Init => DefinitionsInv
<1> SUFFICES ASSUME Definitions!Init PROVE DefinitionsInv
  OBVIOUS
<1>1. /\ recs = <<>> /\ served = FALSE /\ defs = [d \in Definitions!Ids |-> {}] /\ pub = "idle"
      /\ typeCalls = [c \in {m1} |-> Definitions!Idle] /\ second = FALSE /\ exported = FALSE
      /\ typeStops = 0
  BY DEF Definitions!Init
<1>2. Definitions!Idle \in Calls /\ Call = Definitions!Idle /\ Call.op = "none" /\ Call.pc = "idle"
  BY <1>1, TypeBounds DEF Definitions!Idle, Calls, Definitions!Ids, Call
<1>3. DefinitionTypes
  <2>1. recs \in Seq(BOOLEAN) /\ Len(recs) = 0
    BY <1>1
  <2>2. \A c \in {m1} : typeCalls[c].id \in Definitions!Ids
    BY <1>1, <1>2 DEF Calls
  <2>3. \A d \in Definitions!Ids : defs[d] \subseteq Definitions!Parts
    BY <1>1
  <2>4. Definitions!TypeOK
    <3>1. {served, second, exported} \subseteq BOOLEAN
      BY <1>1, Zenon
    <3> QED
      BY <1>1, <2>1, <2>2, <2>3, <3>1, TypeBounds DEF Definitions!TypeOK
  <2> QED
    BY <1>1, <1>2, <2>4 DEF DefinitionTypes, Calls
<1>4. DefinitionSteps /\ KeysKept
  BY <1>1, <1>2 DEF DefinitionSteps, KeysKept, Creates, Imports, Deletes
<1>5. SchemaSteps
  BY <1>1, <1>2 DEF SchemaSteps, Creates, Definitions!SchemaTagged
<1> QED
  BY <1>1, <1>3, <1>4, <1>5
     DEF DefinitionsInv, Definitions!CreateMakesNoSecond, Definitions!NoOrphans, Definitions!ExportImports

\* What a registration leaves of the schema records.
LEMMA RecordAdded ==
  ASSUME DefinitionTypes, Definitions!registerSchema
  PROVE  /\ recs' \in Seq(BOOLEAN) /\ Len(recs') <= MaxRecs /\ recs' # <<>>
         /\ Len(recs') = Len(recs) + 1
         /\ recs = <<>> => Len(recs') = 1
         /\ Definitions!SchemaTagged' => Definitions!SchemaTagged
<1> USE CallFacts
<1>1. Len(recs) < MaxRecs /\ recs' = Append(recs, FALSE)
  BY DEF Definitions!registerSchema
<1>2. /\ recs' \in Seq(BOOLEAN) /\ Len(recs') = Len(recs) + 1 /\ recs'[Len(recs) + 1] = FALSE
      /\ \A i \in 1..Len(recs) : recs'[i] = recs[i]
  BY <1>1, AppendProperties
<1>3. DOMAIN recs' = 1..(Len(recs) + 1)
  BY <1>2, LenProperties
<1>4. recs' # <<>> /\ (recs = <<>> => Len(recs') = 1)
  BY <1>2, EmptySeq
<1>5. Definitions!SchemaTagged' => Definitions!SchemaTagged
  <2> SUFFICES ASSUME NEW i \in 1..(Len(recs) + 1), recs'[i] PROVE Definitions!SchemaTagged
    BY <1>3 DEF Definitions!SchemaTagged
  <2>1. i \in 1..Len(recs) /\ recs[i]
    BY <1>2
  <2> QED
    BY <2>1 DEF Definitions!SchemaTagged
<1>6. Len(recs') <= MaxRecs
  BY <1>1, <1>2
<1> QED
  BY <1>2, <1>4, <1>5, <1>6

\* A record that is replaced by a tagged one, and the first of several.
LEMMA RecordTagged ==
  /\ <<TRUE>> \in Seq(BOOLEAN) /\ Len(<<TRUE>>) = 1 /\ <<TRUE>> # <<>>
BY EmptySeq

LEMMA FirstRecordTagged ==
  ASSUME DefinitionTypes, recs # <<>>
  PROVE  /\ [recs EXCEPT ![1] = TRUE] \in Seq(BOOLEAN) /\ [recs EXCEPT ![1] = TRUE] # <<>>
         /\ Len([recs EXCEPT ![1] = TRUE]) = Len(recs)
<1>1. 1 \in 1..Len(recs)
  BY CallFacts, EmptySeq
<1> DEFINE r == [recs EXCEPT ![1] = TRUE]
<1>2. r \in Seq(BOOLEAN) /\ Len(r) = Len(recs)
  BY <1>1, CallFacts, ExceptSeq
<1> HIDE DEF r
<1>3. r # <<>>
  BY <1>1, <1>2, CallFacts, EmptySeq
<1> QED
  BY <1>2, <1>3 DEF r

LEMMA FirstRecordKept ==
  ASSUME DefinitionTypes, recs # <<>>
  PROVE  /\ SubSeq(recs, 1, 1) \in Seq(BOOLEAN) /\ Len(SubSeq(recs, 1, 1)) = 1
         /\ SubSeq(recs, 1, 1) # <<>> /\ SubSeq(recs, 1, 1)[1] = recs[1] /\ 1 \in DOMAIN recs
         /\ DOMAIN SubSeq(recs, 1, 1) = {1}
<1> USE CallFacts
<1>1. 1 \in 1..Len(recs)
  BY EmptySeq
<1>2. \A i \in 1..1 : recs[i] \in BOOLEAN
  BY <1>1, ElementOfSeq
<1> DEFINE s == SubSeq(recs, 1, 1)
<1>3. s \in Seq(BOOLEAN) /\ Len(s) = 1 /\ s[1] = recs[1]
  BY <1>2, SubSeqProperties
<1> HIDE DEF s
<1>4. DOMAIN s = {1}
  BY <1>3, LenProperties
<1>5. s # <<>>
  <2>1. Len(<<>>) = 0
    OBVIOUS
  <2> QED
    BY <1>3, <2>1
<1> QED
  BY <1>1, <1>3, <1>4, <1>5 DEF s

\* The publication of the schema.
LEMMA PublishStep == DefinitionsInv /\ Definitions!publish => DefinitionsInv'
<1> SUFFICES ASSUME DefinitionsInv, Definitions!publish PROVE DefinitionsInv'
  OBVIOUS
<1> USE CallFacts DEF DefinitionsInv
<1>0. /\ Definitions!publishAnonCredsSchemaForVtjsc
      /\ UNCHANGED <<defs, typeCalls, second, exported, typeStops>> /\ Call' = Call
  BY DEF Definitions!publish, Call
<1>1. \A S : Creates(S)' <=> Creates(S)
  BY <1>0 DEF Creates
<1>2. CASE /\ pub = "idle" /\ UNCHANGED <<recs, served>>
           /\ pub' = IF Definitions!SchemaTagged THEN "done" ELSE "register"
  <2>1. DefinitionTypes'
    BY <1>0, <1>2, DefinitionTypesKept
  <2>2. SchemaSteps'
    BY <1>0, <1>1, <1>2 DEF SchemaSteps
  <2> QED
    BY <1>0, <2>1, <2>2, SchemaOnly
<1>3. CASE pub = "register" /\ Definitions!registerSchema /\ pub' = "tag" /\ UNCHANGED served
  <2>1. DefinitionTypes'
    BY <1>0, <1>3, RecordAdded, DefinitionTypesKept
  <2>2. SchemaSteps'
    BY <1>0, <1>1, <1>3, RecordAdded DEF SchemaSteps
  <2> QED
    BY <1>0, <2>1, <2>2, SchemaOnly
<1>4. CASE /\ pub = "tag" /\ UNCHANGED served
           /\ \/ pub' = "failed" /\ UNCHANGED recs
              \/ pub' = "save" /\ recs' = <<TRUE>>
  <2>1. DefinitionTypes'
    <3>1. recs' = recs \/ recs' = <<TRUE>>
      BY <1>4
    <3>2. recs' \in Seq(BOOLEAN)
      BY <3>1, RecordTagged, Zenon
    <3>3. Len(recs') = Len(recs) \/ Len(recs') = 1
      BY <3>1, RecordTagged, Zenon
    <3>4. Len(recs') <= MaxRecs
      <4>1. MaxRecs \in Nat /\ MaxRecs >= 1 /\ Len(recs) <= MaxRecs
        OBVIOUS
      <4> HIDE CallFacts DEF DefinitionsInv
      <4> QED
        BY <3>3, <4>1
    <3> QED
      BY <1>0, <1>4, <3>2, <3>4, DefinitionTypesKept
  <2>2. SchemaSteps'
    BY <1>0, <1>1, <1>4, RecordTagged DEF SchemaSteps
  <2> QED
    BY <1>0, <2>1, <2>2, SchemaOnly
<1>5. CASE pub = "save" /\ served' = TRUE /\ pub' = "done" /\ UNCHANGED recs
  <2>1. DefinitionTypes'
    BY <1>0, <1>5, DefinitionTypesKept
  <2>2. SchemaSteps'
    BY <1>0, <1>1, <1>5 DEF SchemaSteps
  <2> QED
    BY <1>0, <2>1, <2>2, SchemaOnly
<1> QED
  BY <1>0, <1>2, <1>3, <1>4, <1>5 DEF Definitions!publishAnonCredsSchemaForVtjsc

\* The schema that a creation takes or registers.
LEMMA SchemaStep == DefinitionsInv /\ Definitions!getOrRegisterAnonCredsSchema(m1) => DefinitionsInv'
<1> SUFFICES ASSUME DefinitionsInv, Definitions!getOrRegisterAnonCredsSchema(m1) PROVE DefinitionsInv'
  OBVIOUS
<1> USE CallFacts DEF DefinitionsInv
<1>0. Call.op = "create" /\ UNCHANGED <<defs, pub, second, exported, typeStops>>
  BY DEF Definitions!getOrRegisterAnonCredsSchema, Call
<1>1. CASE /\ Call.pc = "schema" /\ UNCHANGED <<recs, served>>
           /\ Definitions!Goto(m1, IF Definitions!SchemaTagged THEN "credDef" ELSE "equivalent")
  <2>1. /\ typeCalls' \in [{m1} -> Calls]
        /\ Call'.op = "create" /\ Call'.id = Call.id /\ Call'.pc \in {"credDef", "equivalent"}
        /\ Call'.pc = "credDef" => Definitions!SchemaTagged
    BY <1>0, <1>1, CallGoes
  <2>2. DefinitionTypes'
    BY <1>0, <1>1, <2>1, DefinitionTypesKept
  <2>3. Definitions!SchemaTagged => recs # <<>>
    BY DEF Definitions!SchemaTagged
  <2>4. SchemaSteps'
    BY <1>0, <1>1, <2>1, <2>3 DEF SchemaSteps, Creates, Definitions!SchemaTagged
  <2> QED
    BY <1>0, <1>1, <2>1, <2>2, <2>4, SchemaOnly
<1>2. CASE Call.pc = "equivalent" /\ UNCHANGED served /\ recs # <<>>
           /\ recs' = [recs EXCEPT ![1] = TRUE] /\ Definitions!Goto(m1, "credDef")
  <2>1. /\ typeCalls' \in [{m1} -> Calls]
        /\ Call'.op = "create" /\ Call'.id = Call.id /\ Call'.pc = "credDef"
    BY <1>0, <1>2, CallGoes
  <2>2. recs' \in Seq(BOOLEAN) /\ Len(recs') = Len(recs) /\ recs' # <<>>
    BY <1>2, FirstRecordTagged
  <2>3. DefinitionTypes'
    BY <1>0, <1>2, <2>1, <2>2, DefinitionTypesKept
  <2>4. SchemaSteps'
    BY <1>0, <1>2, <2>1, <2>2 DEF SchemaSteps, Creates
  <2> QED
    BY <1>0, <2>1, <2>3, <2>4, SchemaOnly
<1>3. CASE Call.pc = "equivalent" /\ UNCHANGED <<served, recs>> /\ recs = <<>>
           /\ Definitions!Goto(m1, "register")
  <2>1. /\ typeCalls' \in [{m1} -> Calls]
        /\ Call'.op = "create" /\ Call'.id = Call.id /\ Call'.pc = "register"
    BY <1>0, <1>3, CallGoes
  <2>2. DefinitionTypes'
    BY <1>0, <1>3, <2>1, DefinitionTypesKept
  <2>3. ~Definitions!SchemaTagged'
    BY <1>3 DEF Definitions!SchemaTagged
  <2>4. SchemaSteps'
    BY <1>0, <1>3, <2>1, <2>3 DEF SchemaSteps, Creates
  <2> QED
    BY <1>0, <2>1, <2>2, <2>4, SchemaOnly
<1>4. CASE Call.pc = "register" /\ UNCHANGED served /\ Definitions!registerSchema
           /\ Definitions!Goto(m1, "tagSchema")
  <2>1. /\ typeCalls' \in [{m1} -> Calls]
        /\ Call'.op = "create" /\ Call'.id = Call.id /\ Call'.pc = "tagSchema"
    BY <1>0, <1>4, CallGoes
  <2>2. DefinitionTypes'
    BY <1>0, <1>4, <2>1, RecordAdded, DefinitionTypesKept
  <2>3. SchemaSteps'
    BY <1>0, <1>4, <2>1, RecordAdded DEF SchemaSteps, Creates
  <2> QED
    BY <1>0, <2>1, <2>2, <2>3, SchemaOnly
<1>5. CASE Call.pc = "tagSchema" /\ UNCHANGED <<served, recs>> /\ Len(recs) # 1 /\ Definitions!Answer(m1)
  <2>1. typeCalls' \in [{m1} -> Calls] /\ Call' = Definitions!Idle
    BY <1>5, CallEnds
  <2>2. DefinitionTypes'
    BY <1>0, <1>5, <2>1, DefinitionTypesKept
  <2>3. Definitions!SchemaTagged' = Definitions!SchemaTagged
    BY <1>5 DEF Definitions!SchemaTagged
  <2>4. SchemaSteps'
    BY <1>0, <1>5, <2>1, <2>3 DEF SchemaSteps, Creates
  <2> QED
    BY <1>0, <2>1, <2>2, <2>4, SchemaOnly
<1>6. CASE Call.pc = "tagSchema" /\ UNCHANGED served /\ recs' = <<TRUE>> /\ Definitions!Goto(m1, "saveSchema")
  <2>1. /\ typeCalls' \in [{m1} -> Calls]
        /\ Call'.op = "create" /\ Call'.id = Call.id /\ Call'.pc = "saveSchema"
    BY <1>0, <1>6, CallGoes
  <2>2. recs' \in Seq(BOOLEAN)
    BY <1>6, RecordTagged, Zenon
  <2>3. Len(recs') = 1 /\ recs' # <<>>
    BY <1>6, RecordTagged, Zenon
  <2>4. DefinitionTypes'
    BY <1>0, <1>6, <2>1, <2>2, <2>3, DefinitionTypesKept
  <2>5. SchemaSteps'
    BY <1>0, <1>6, <2>1, <2>3 DEF SchemaSteps, Creates
  <2> QED
    BY <1>0, <2>1, <2>4, <2>5, SchemaOnly
<1>7. CASE Call.pc = "saveSchema" /\ served' = TRUE /\ UNCHANGED recs /\ Definitions!Goto(m1, "credDef")
  <2>1. /\ typeCalls' \in [{m1} -> Calls]
        /\ Call'.op = "create" /\ Call'.id = Call.id /\ Call'.pc = "credDef"
    BY <1>0, <1>7, CallGoes
  <2>2. DefinitionTypes'
    BY <1>0, <1>7, <2>1, DefinitionTypesKept
  <2>3. SchemaSteps'
    BY <1>0, <1>7, <2>1 DEF SchemaSteps, Creates
  <2> QED
    BY <1>0, <2>1, <2>2, <2>3, SchemaOnly
<1> QED
  BY <1>0, <1>1, <1>2, <1>3, <1>4, <1>5, <1>6, <1>7
     DEF Definitions!getOrRegisterAnonCredsSchema, Call

\* A step that leaves the schema.
LEMMA SchemaStays ==
  ASSUME DefinitionsInv, UNCHANGED <<recs, served, pub>>, typeStops' = typeStops,
         \/ Call'.op # "create"
         \/ Call'.pc \in {"schema", "attested", "tag"}
  PROVE  \/ SchemaSteps'
         \/ Creates({"tagSchema", "saveSchema"})
<1> USE CallFacts DEF DefinitionsInv
<1>1. Definitions!SchemaTagged' = Definitions!SchemaTagged
  BY DEF Definitions!SchemaTagged
<1>2. \A S \in {{"saveSchema", "credDef"}, {"register"}, {"tagSchema"}, {"tagSchema", "saveSchema"},
                {"saveSchema"}} : ~Creates(S)'
  BY DEF Creates
<1> QED
  BY <1>1, <1>2 DEF SchemaSteps, Creates

\* A creation that begins.
LEMMA CreateStep == DefinitionsInv /\ Definitions!createCredentialDefinition(m1) => DefinitionsInv'
<1> SUFFICES ASSUME DefinitionsInv, Definitions!createCredentialDefinition(m1) PROVE DefinitionsInv'
  OBVIOUS
<1> USE CallFacts DEF DefinitionsInv
<1>1. PICK d \in Definitions!Ids \ {0} :
        typeCalls' = [typeCalls EXCEPT ![m1] = [op |-> "create", pc |-> "schema", id |-> d]]
  BY DEF Definitions!createCredentialDefinition, Definitions!Unused
<1>2. /\ Call = Definitions!Idle /\ Definitions!Tagged = {}
      /\ UNCHANGED <<recs, served, defs, pub, second, exported, typeStops>>
  BY DEF Definitions!createCredentialDefinition, Call, Definitions!findAnonCredsCredentialDefinition
<1>3. /\ typeCalls' \in [{m1} -> Calls]
      /\ Call'.op = "create" /\ Call'.pc = "schema" /\ Call'.id = d
  <2> DEFINE x == [op |-> "create", pc |-> "schema", id |-> d]
  <2>1. x \in Calls /\ x.op = "create" /\ x.pc = "schema" /\ x.id = d
    BY DEF Calls
  <2> HIDE DEF x
  <2>2. typeCalls' = [typeCalls EXCEPT ![m1] = x]
    BY <1>1 DEF x
  <2> QED
    BY <2>1, <2>2, CallBegins
<1>4. DefinitionTypes'
  BY <1>2, <1>3, DefinitionTypesKept
<1>5. SchemaSteps'
  BY <1>2, <1>3, SchemaStays DEF Creates
<1>6. DefinitionSteps'
  BY <1>2, <1>3 DEF DefinitionSteps, Creates, Imports, Deletes, Definitions!Tagged
<1>7. KeysKept'
  BY <1>2, <1>3 DEF KeysKept, Imports
<1>8. Definitions!CreateMakesNoSecond' /\ Definitions!NoOrphans' /\ (typeStops' = 0 => Definitions!ExportImports')
  BY <1>2 DEF Definitions!CreateMakesNoSecond, Definitions!NoOrphans, Definitions!ExportImports
<1> QED
  BY <1>4, <1>5, <1>6, <1>7, <1>8

\* A definition that changes in one part of the stores, and no other.
LEMMA OneDefinition ==
  ASSUME DefinitionTypes, NEW d \in Definitions!Ids, NEW new \in SUBSET Definitions!Parts,
         defs' = [defs EXCEPT ![d] = new]
  PROVE  /\ defs' \in [Definitions!Ids -> SUBSET Definitions!Parts]
         /\ defs'[d] = new /\ \A x \in Definitions!Ids \ {d} : defs'[x] = defs[x]
BY CallFacts

\* What a creation stores of its definition.
LEMMA RegisterStep ==
  DefinitionsInv /\ Definitions!registerAnonCredsCredentialDefinition(m1) => DefinitionsInv'
<1> SUFFICES ASSUME DefinitionsInv, Definitions!registerAnonCredsCredentialDefinition(m1)
             PROVE  DefinitionsInv'
  OBVIOUS
<1> USE CallFacts DEF DefinitionsInv
<1> DEFINE d == Call.id
<1>0. /\ Call.op = "create" /\ UNCHANGED <<served, pub, exported, typeStops>>
      /\ Definitions!Tagged = {} /\ d # 0 /\ d \in Definitions!Ids
  BY DEF Definitions!registerAnonCredsCredentialDefinition, Call, DefinitionSteps
<1>t. \A x \in Definitions!Ids : ~({"record", "tag"} \subseteq defs[x])
  BY <1>0 DEF Definitions!Tagged
<1>1. CASE /\ Call.pc = "credDef" /\ recs' = SubSeq(recs, 1, 1)
           /\ defs' = [defs EXCEPT ![d] = {"record", "private", "proof"}]
           /\ Definitions!Goto(m1, "attested") /\ UNCHANGED second
  <2>1. /\ typeCalls' \in [{m1} -> Calls]
        /\ Call'.op = "create" /\ Call'.id = d /\ Call'.pc = "attested"
    BY <1>0, <1>1, CallGoes
  <2>2. recs # <<>>
    BY <1>0, <1>1 DEF SchemaSteps, Creates
  <2>3. /\ recs' \in Seq(BOOLEAN) /\ Len(recs') = 1 /\ recs' # <<>>
        /\ Definitions!SchemaTagged' => Definitions!SchemaTagged
    BY <1>1, <2>2, FirstRecordKept DEF Definitions!SchemaTagged
  <2>4. {"record", "private", "proof"} \in SUBSET Definitions!Parts
    BY DEF Definitions!Parts
  <2>5. /\ defs' \in [Definitions!Ids -> SUBSET Definitions!Parts]
        /\ defs'[d] = {"record", "private", "proof"}
        /\ \A x \in Definitions!Ids \ {d} : defs'[x] = defs[x]
    BY <1>0, <1>1, <2>4, OneDefinition
  <2>6. DefinitionTypes'
    BY <1>0, <1>1, <2>1, <2>3, <2>5, DefinitionTypesKept
  <2>7. SchemaSteps'
    BY <1>0, <1>1, <2>1, <2>2, <2>3 DEF SchemaSteps, Creates
  <2>8. Definitions!Tagged' = {}
    BY <1>0, <1>t, <2>5 DEF Definitions!Tagged
  <2>9. DefinitionSteps'
    BY <1>0, <2>1, <2>5, <2>8 DEF DefinitionSteps, Creates, Imports, Deletes
  <2>10. KeysKept'
    BY <1>0, <2>1, <2>5 DEF KeysKept, Imports
  <2>11. Definitions!CreateMakesNoSecond' /\ Definitions!NoOrphans' /\ (typeStops' = 0 => Definitions!ExportImports')
    BY <1>0, <1>1, <2>5
       DEF Definitions!CreateMakesNoSecond, Definitions!NoOrphans, Definitions!ExportImports
  <2> QED
    BY <2>6, <2>7, <2>9, <2>10, <2>11
<1>2. CASE /\ Call.pc = "attested" /\ defs' = [defs EXCEPT ![d] = @ \cup {"attested"}]
           /\ Definitions!Goto(m1, "tag") /\ UNCHANGED <<recs, second>>
  <2>1. /\ typeCalls' \in [{m1} -> Calls]
        /\ Call'.op = "create" /\ Call'.id = d /\ Call'.pc = "tag"
    BY <1>0, <1>2, CallGoes
  <2>2. "record" \in defs[d]
    BY <1>0, <1>2 DEF DefinitionSteps, Creates
  <2>3. defs[d] \cup {"attested"} \in SUBSET Definitions!Parts
    BY <1>0 DEF Definitions!Parts
  <2>4. /\ defs' \in [Definitions!Ids -> SUBSET Definitions!Parts]
        /\ defs'[d] = defs[d] \cup {"attested"}
        /\ \A x \in Definitions!Ids \ {d} : defs'[x] = defs[x]
    BY <1>0, <1>2, <2>3, OneDefinition
  <2>5. DefinitionTypes'
    BY <1>0, <1>2, <2>1, <2>4, DefinitionTypesKept
  <2>6. SchemaSteps'
    BY <1>0, <1>2, <2>1, SchemaStays DEF Creates
  <2>7. Definitions!Tagged' = {}
    BY <1>0, <1>t, <2>4 DEF Definitions!Tagged
  <2>8. DefinitionSteps'
    BY <1>0, <2>1, <2>2, <2>4, <2>7 DEF DefinitionSteps, Creates, Imports, Deletes
  <2>9. KeysKept'
    BY <1>0, <2>1, <2>2, <2>4 DEF KeysKept, Imports
  <2>10. Definitions!CreateMakesNoSecond' /\ Definitions!NoOrphans' /\ (typeStops' = 0 => Definitions!ExportImports')
    BY <1>0, <1>2, <2>2, <2>4
       DEF Definitions!CreateMakesNoSecond, Definitions!NoOrphans, Definitions!ExportImports
  <2> QED
    BY <2>5, <2>6, <2>8, <2>9, <2>10
<1>3. CASE /\ Call.pc = "tag" /\ Definitions!Answer(m1) /\ UNCHANGED recs
           /\ defs' = [defs EXCEPT ![d] = @ \cup {"tag"}] /\ second' = (second \/ Definitions!Tagged # {})
  <2>1. typeCalls' \in [{m1} -> Calls] /\ Call' = Definitions!Idle
    BY <1>3, CallEnds
  <2>2. "record" \in defs[d]
    BY <1>0, <1>3 DEF DefinitionSteps, Creates
  <2>3. defs[d] \cup {"tag"} \in SUBSET Definitions!Parts
    BY <1>0 DEF Definitions!Parts
  <2>4. /\ defs' \in [Definitions!Ids -> SUBSET Definitions!Parts]
        /\ defs'[d] = defs[d] \cup {"tag"}
        /\ \A x \in Definitions!Ids \ {d} : defs'[x] = defs[x]
    BY <1>0, <1>3, <2>3, OneDefinition
  <2>5. second' = FALSE
    BY <1>0, <1>3 DEF Definitions!CreateMakesNoSecond
  <2>6. DefinitionTypes'
    BY <1>0, <1>3, <2>1, <2>4, <2>5, DefinitionTypesKept
  <2>7. SchemaSteps'
    BY <1>0, <1>3, <2>1, SchemaStays DEF Creates
  <2>8. DefinitionSteps'
    BY <1>0, <2>1 DEF DefinitionSteps, Creates, Imports, Deletes
  <2>9. KeysKept'
    BY <1>0, <2>1, <2>2, <2>4 DEF KeysKept, Imports
  <2>10. Definitions!CreateMakesNoSecond' /\ Definitions!NoOrphans' /\ (typeStops' = 0 => Definitions!ExportImports')
    BY <1>0, <2>2, <2>4, <2>5
       DEF Definitions!CreateMakesNoSecond, Definitions!NoOrphans, Definitions!ExportImports
  <2> QED
    BY <2>6, <2>7, <2>8, <2>9, <2>10
<1>4. Call.pc = "tag" => "record" \in defs[d]
  BY <1>0 DEF DefinitionSteps, Creates
<1> QED
  BY <1>0, <1>1, <1>2, <1>3, <1>4 DEF Definitions!registerAnonCredsCredentialDefinition, Call

\* What an import stores.
LEMMA ImportStep == DefinitionsInv /\ Definitions!importCredentialDefinition(m1) => DefinitionsInv'
<1> SUFFICES ASSUME DefinitionsInv, Definitions!importCredentialDefinition(m1) PROVE DefinitionsInv'
  OBVIOUS
<1> USE CallFacts DEF DefinitionsInv
<1>0. UNCHANGED <<recs, served, pub, second, exported, typeStops>>
  BY DEF Definitions!importCredentialDefinition
<1>1. CASE /\ Call = Definitions!Idle /\ "record" \notin defs[0]
           /\ defs' = [defs EXCEPT ![0] = @ \cup {"record"}]
           /\ typeCalls' = [typeCalls EXCEPT ![m1] = [op |-> "import", pc |-> "tag", id |-> 0]]
  <2> DEFINE x == [op |-> "import", pc |-> "tag", id |-> 0]
  <2>1. x \in Calls /\ x.op = "import" /\ x.pc = "tag" /\ x.id = 0
    BY DEF Calls
  <2> HIDE DEF x
  <2>2. typeCalls' = [typeCalls EXCEPT ![m1] = x]
    BY <1>1 DEF x
  <2>3. typeCalls' \in [{m1} -> Calls] /\ Call'.op = "import" /\ Call'.pc = "tag" /\ Call'.id = 0
    BY <2>1, <2>2, CallBegins
  <2>4. defs[0] \cup {"record"} \in SUBSET Definitions!Parts
    BY DEF Definitions!Parts
  <2>5. /\ defs' \in [Definitions!Ids -> SUBSET Definitions!Parts]
        /\ defs'[0] = defs[0] \cup {"record"}
        /\ \A y \in Definitions!Ids \ {0} : defs'[y] = defs[y]
    BY <1>1, <2>4, OneDefinition
  <2>6. DefinitionTypes'
    BY <1>0, <2>3, <2>5, DefinitionTypesKept
  <2>7. SchemaSteps'
    BY <1>0, <1>1, <2>3, SchemaStays DEF Creates
  <2>8. DefinitionSteps'
    BY <2>3, <2>5 DEF DefinitionSteps, Creates, Imports, Deletes
  <2>9. KeysKept'
    BY <1>0, <1>1, <2>3, <2>5 DEF KeysKept, Imports
  <2>10. Definitions!CreateMakesNoSecond' /\ Definitions!NoOrphans' /\ (typeStops' = 0 => Definitions!ExportImports')
    BY <1>0, <2>5 DEF Definitions!CreateMakesNoSecond, Definitions!NoOrphans, Definitions!ExportImports
  <2> QED
    BY <2>6, <2>7, <2>8, <2>9, <2>10
<1>2. ASSUME NEW part \in {"tag", "private", "proof"}, NEW next \in {"private", "proof", "idle"},
             Call.op = "import", Call.pc = part, defs' = [defs EXCEPT ![0] = @ \cup {part}],
             IF next = "idle" THEN Definitions!Answer(m1) ELSE Definitions!Goto(m1, next),
             next = "proof" <=> part = "private", next = "idle" <=> part = "proof"
      PROVE  DefinitionsInv'
  <2>1. Call.id = 0 /\ "record" \in defs[0] /\ (part = "proof" => typeStops # 0 \/ "private" \in defs[0])
    BY <1>2 DEF DefinitionSteps, KeysKept, Imports
  <2>2. /\ typeCalls' \in [{m1} -> Calls]
        /\ \/ next = "idle" /\ Call' = Definitions!Idle
           \/ next # "idle" /\ Call'.op = "import" /\ Call'.pc = next /\ Call'.id = 0
    BY <1>2, <2>1, CallGoes, CallEnds
  <2>3. defs[0] \cup {part} \in SUBSET Definitions!Parts
    BY <1>2 DEF Definitions!Parts
  <2>4. /\ defs' \in [Definitions!Ids -> SUBSET Definitions!Parts]
        /\ defs'[0] = defs[0] \cup {part}
        /\ \A y \in Definitions!Ids \ {0} : defs'[y] = defs[y]
    BY <1>2, <2>3, OneDefinition
  <2>5. DefinitionTypes'
    BY <1>0, <2>2, <2>4, DefinitionTypesKept
  <2>6. SchemaSteps'
    BY <1>0, <1>2, <2>2, SchemaStays DEF Creates
  <2>7. DefinitionSteps'
    BY <2>1, <2>2, <2>4 DEF DefinitionSteps, Creates, Imports, Deletes
  <2>8. KeysKept'
    BY <1>0, <1>2, <2>1, <2>2, <2>4 DEF KeysKept, Imports
  <2>9. Definitions!CreateMakesNoSecond' /\ Definitions!NoOrphans' /\ (typeStops' = 0 => Definitions!ExportImports')
    BY <1>0, <2>1, <2>4 DEF Definitions!CreateMakesNoSecond, Definitions!NoOrphans, Definitions!ExportImports
  <2> QED
    BY <2>5, <2>6, <2>7, <2>8, <2>9
<1>3. CASE /\ Call.op = "import"
           /\ \E step \in {<<"tag", "private">>, <<"private", "proof">>, <<"proof", "idle">>} :
                /\ Call.pc = step[1] /\ defs' = [defs EXCEPT ![0] = @ \cup {step[1]}]
                /\ IF step[2] = "idle" THEN Definitions!Answer(m1) ELSE Definitions!Goto(m1, step[2])
  <2>1. PICK step \in {<<"tag", "private">>, <<"private", "proof">>, <<"proof", "idle">>} :
          /\ Call.pc = step[1] /\ defs' = [defs EXCEPT ![0] = @ \cup {step[1]}]
          /\ IF step[2] = "idle" THEN Definitions!Answer(m1) ELSE Definitions!Goto(m1, step[2])
    BY <1>3
  <2>2. /\ step[1] \in {"tag", "private", "proof"} /\ step[2] \in {"private", "proof", "idle"}
        /\ step[2] = "proof" <=> step[1] = "private"
        /\ step[2] = "idle" <=> step[1] = "proof"
    BY <2>1
  <2> QED
    BY <1>2, <1>3, <2>1, <2>2
<1> QED
  BY <1>1, <1>3 DEF Definitions!importCredentialDefinition, Call

\* A deletion, part by part, and an export, which only reads.
LEMMA DeleteParts ==
  ASSUME DefinitionsInv, NEW first \in {"private", "proof", "attested", "record"},
         NEW next \in {"proof", "attested", "record", "idle"}, NEW parts,
         Definitions!DeleteStep(m1, first, next, parts),
         UNCHANGED <<recs, served, pub, second, exported, typeStops>>,
         \/ first = "private" /\ next = "proof" /\ parts = {"private"}
         \/ first = "proof" /\ next = "attested" /\ parts = {"proof"}
         \/ first = "attested" /\ next = "record" /\ parts = {"attested"}
         \/ first = "record" /\ next = "idle" /\ parts = {"record", "tag"}
  PROVE  DefinitionsInv'
<1> USE CallFacts DEF DefinitionsInv
<1> DEFINE d == Call.id
<1>1. /\ Call.op = "delete" /\ Call.pc = first /\ defs' = [defs EXCEPT ![d] = @ \ parts]
      /\ IF next = "idle" THEN Definitions!Answer(m1) ELSE Definitions!Goto(m1, next)
  BY DEF Definitions!DeleteStep, Call
<1>2. /\ typeCalls' \in [{m1} -> Calls]
      /\ \/ next = "idle" /\ Call' = Definitions!Idle
         \/ next # "idle" /\ Call'.op = "delete" /\ Call'.pc = next /\ Call'.id = d
  BY <1>1, CallGoes, CallEnds
<1>3. defs[d] \ parts \in SUBSET Definitions!Parts
  OBVIOUS
<1>4. /\ defs' \in [Definitions!Ids -> SUBSET Definitions!Parts]
      /\ defs'[d] = defs[d] \ parts
      /\ \A y \in Definitions!Ids \ {d} : defs'[y] = defs[y]
  BY <1>1, <1>3, OneDefinition
<1>5. /\ "record" \in defs[d]
      /\ first # "private" => "private" \notin defs[d]
      /\ first \in {"attested", "record"} => "proof" \notin defs[d]
      /\ first = "record" => "attested" \notin defs[d]
  BY <1>1 DEF DefinitionSteps, Deletes
<1>6. first = "record" => defs'[d] = {}
  <2>1. defs[d] \subseteq {"record", "tag", "private", "proof", "attested"}
    BY DEF Definitions!Parts
  <2> QED
    BY <1>4, <1>5, <2>1
<1>7. DefinitionTypes'
  BY <1>2, <1>4, DefinitionTypesKept
<1>8. SchemaSteps'
  BY <1>1, <1>2, SchemaStays DEF Creates
<1>9. DefinitionSteps'
  BY <1>2, <1>4, <1>5 DEF DefinitionSteps, Creates, Imports, Deletes
<1>10. KeysKept'
  BY <1>1, <1>2, <1>4, <1>6 DEF KeysKept, Imports
<1>11. Definitions!CreateMakesNoSecond' /\ Definitions!NoOrphans' /\ (typeStops' = 0 => Definitions!ExportImports')
  BY <1>4, <1>5, <1>6 DEF Definitions!CreateMakesNoSecond, Definitions!NoOrphans, Definitions!ExportImports
<1> QED
  BY <1>7, <1>8, <1>9, <1>10, <1>11

\* A deletion.
LEMMA DeleteStepKeeps == DefinitionsInv /\ Definitions!deleteCredentialDefinition(m1) => DefinitionsInv'
<1> SUFFICES ASSUME DefinitionsInv, Definitions!deleteCredentialDefinition(m1) PROVE DefinitionsInv'
  OBVIOUS
<1> USE CallFacts DEF DefinitionsInv
<1>0. UNCHANGED <<recs, served, pub, second, exported, typeStops>>
  BY DEF Definitions!deleteCredentialDefinition
<1>1. ASSUME Call = Definitions!Idle, UNCHANGED defs, NEW d \in Definitions!Ids, "record" \in defs[d],
             typeCalls' = [typeCalls EXCEPT ![m1] = [op |-> "delete", pc |-> "private", id |-> d]]
      PROVE  DefinitionsInv'
  <2> DEFINE x == [op |-> "delete", pc |-> "private", id |-> d]
  <2>1. x \in Calls /\ x.op = "delete" /\ x.pc = "private" /\ x.id = d
    BY DEF Calls
  <2> HIDE DEF x
  <2>2. typeCalls' = [typeCalls EXCEPT ![m1] = x]
    BY <1>1 DEF x
  <2>3. typeCalls' \in [{m1} -> Calls] /\ Call'.op = "delete" /\ Call'.pc = "private" /\ Call'.id = d
    BY <2>1, <2>2, CallBegins
  <2>4. DefinitionTypes'
    BY <1>0, <1>1, <2>3, DefinitionTypesKept
  <2>5. SchemaSteps'
    BY <1>0, <1>1, <2>3, SchemaStays DEF Creates
  <2>6. DefinitionSteps'
    BY <1>1, <2>3 DEF DefinitionSteps, Creates, Imports, Deletes
  <2>7. KeysKept'
    BY <1>0, <1>1, <2>3 DEF KeysKept, Imports
  <2>8. Definitions!CreateMakesNoSecond' /\ Definitions!NoOrphans' /\ (typeStops' = 0 => Definitions!ExportImports')
    BY <1>0, <1>1 DEF Definitions!CreateMakesNoSecond, Definitions!NoOrphans, Definitions!ExportImports
  <2> QED
    BY <2>4, <2>5, <2>6, <2>7, <2>8
<1>2. \/ /\ Call = Definitions!Idle /\ UNCHANGED defs
         /\ \E d \in Definitions!Ids :
              /\ "record" \in defs[d]
              /\ typeCalls' = [typeCalls EXCEPT ![m1] = [op |-> "delete", pc |-> "private", id |-> d]]
      \/ Definitions!DeleteStep(m1, "private", "proof", {"private"})
      \/ Definitions!DeleteStep(m1, "proof", "attested", {"proof"})
      \/ Definitions!DeleteStep(m1, "attested", "record", {"attested"})
      \/ Definitions!DeleteStep(m1, "record", "idle", {"record", "tag"})
  BY DEF Definitions!deleteCredentialDefinition, Call
<1>3. \A first, next, parts :
        (/\ Definitions!DeleteStep(m1, first, next, parts)
         /\ \/ first = "private" /\ next = "proof" /\ parts = {"private"}
            \/ first = "proof" /\ next = "attested" /\ parts = {"proof"}
            \/ first = "attested" /\ next = "record" /\ parts = {"attested"}
            \/ first = "record" /\ next = "idle" /\ parts = {"record", "tag"})
        => DefinitionsInv'
  BY <1>0, DeleteParts
<1> QED
  BY <1>1, <1>2, <1>3

\* An export only reads; the process stops.
LEMMA ExportStep ==
  ASSUME DefinitionsInv, NEW d \in Definitions!Ids, Definitions!exportCredentialDefinition(m1, d)
  PROVE  DefinitionsInv'
<1> USE CallFacts DEF DefinitionsInv
<1>1. /\ UNCHANGED <<recs, served, defs, pub, typeCalls, second, typeStops>> /\ Call' = Call
      /\ Call = Definitions!Idle /\ "record" \in defs[d]
      /\ exported' = (exported \/ ~({"private", "proof"} \subseteq defs[d]))
  BY DEF Definitions!exportCredentialDefinition, Call
<1>2. DefinitionTypes'
  BY <1>1, DefinitionTypesKept
<1>3. DefinitionSteps'
  BY <1>1 DEF DefinitionSteps, Creates, Imports, Deletes, Definitions!Tagged
<1>4. SchemaSteps'
  BY <1>1, SchemaStays DEF Creates
<1>5. KeysKept'
  BY <1>1 DEF KeysKept, Imports
<1>6. Definitions!CreateMakesNoSecond' /\ Definitions!NoOrphans'
  BY <1>1 DEF Definitions!CreateMakesNoSecond, Definitions!NoOrphans
<1>7. typeStops' = 0 => Definitions!ExportImports'
  BY <1>1 DEF Definitions!ExportImports, KeysKept
<1> QED
  BY <1>2, <1>3, <1>4, <1>5, <1>6, <1>7

LEMMA RestartStep == DefinitionsInv /\ Definitions!restart => DefinitionsInv'
<1> SUFFICES ASSUME DefinitionsInv, Definitions!restart PROVE DefinitionsInv'
  OBVIOUS
<1> USE CallFacts DEF DefinitionsInv
<1>1. /\ typeStops' = typeStops + 1 /\ pub' = "idle"
      /\ typeCalls' = [c \in {m1} |-> Definitions!Idle]
      /\ UNCHANGED <<recs, served, defs, second, exported>>
  BY DEF Definitions!restart
<1>2. Definitions!Idle \in Calls
  BY DEF Definitions!Idle, Calls
<1>3. typeCalls' \in [{m1} -> Calls] /\ Call' = Definitions!Idle /\ typeStops' # 0 /\ typeStops' \in Nat
  BY <1>1, <1>2 DEF Call
<1>4. DefinitionTypes'
  BY <1>1, <1>3, DefinitionTypesKept
<1>5. DefinitionSteps' /\ SchemaSteps' /\ KeysKept'
  BY <1>1, <1>3 DEF DefinitionSteps, SchemaSteps, KeysKept, Creates, Imports, Deletes
<1>6. Definitions!CreateMakesNoSecond' /\ Definitions!NoOrphans'
  BY <1>1 DEF Definitions!CreateMakesNoSecond, Definitions!NoOrphans
<1> QED
  BY <1>3, <1>4, <1>5, <1>6

\* A step of the requests of one administrator keeps DefinitionsInv.
LEMMA DefinitionsNext == DefinitionsInv /\ [Definitions!Next]_(Definitions!vars) => DefinitionsInv'
<1> SUFFICES ASSUME DefinitionsInv, [Definitions!Next]_(Definitions!vars) PROVE DefinitionsInv'
  OBVIOUS
<1>1. CASE Definitions!publish \/ Definitions!restart
  BY <1>1, PublishStep, RestartStep
<1>2. ASSUME NEW c \in {m1},
             \/ Definitions!createCredentialDefinition(c) \/ Definitions!getOrRegisterAnonCredsSchema(c)
             \/ Definitions!registerAnonCredsCredentialDefinition(c)
             \/ Definitions!importCredentialDefinition(c)
             \/ \E d \in Definitions!Ids : Definitions!exportCredentialDefinition(c, d)
             \/ Definitions!deleteCredentialDefinition(c)
      PROVE  DefinitionsInv'
  <2>1. c = m1
    OBVIOUS
  <2> QED
    BY <1>2, <2>1, CreateStep, SchemaStep, RegisterStep, ImportStep, ExportStep, DeleteStepKeeps
<1>3. CASE UNCHANGED Definitions!vars
  <2> USE CallFacts DEF DefinitionsInv
  <2>1. UNCHANGED <<recs, served, defs, pub, typeCalls, second, exported, typeStops>> /\ Call' = Call
    BY <1>3 DEF Definitions!vars, Call
  <2>2. DefinitionTypes'
    BY <2>1, DefinitionTypesKept
  <2>3. SchemaSteps'
    BY <2>1 DEF SchemaSteps, Creates, Definitions!SchemaTagged
  <2> QED
    BY <2>1, <2>2, <2>3, SchemaOnly
<1> QED
  BY <1>1, <1>2, <1>3 DEF Definitions!Next

\* deleteCredentialDefinition and createCredentialDefinition, over any sequence
\* of the requests of one administrator: no creation makes a second definition
\* that carries the tag, and no keys or resource outlive their record, wherever
\* the process stops; as long as it does not, a publication that ended leaves the
\* schema served and every exported package can be imported.
THEOREM DefinitionsAreSound == Definitions!Spec => []DefinitionsSound
<1>1. DefinitionsInv => DefinitionsSound
  <2> SUFFICES ASSUME DefinitionsInv PROVE DefinitionsSound
    OBVIOUS
  <2>1. typeStops = 0 => Definitions!PassPublishes
    BY CallFacts DEF DefinitionsInv, SchemaSteps, Definitions!PassPublishes, Creates, Call
  <2> QED
    BY <2>1 DEF DefinitionsInv, DefinitionTypes, DefinitionsSound
<1> QED
  BY <1>1, DefinitionsStart, DefinitionsNext, PTL DEF Definitions!Spec


-----------------------------------------------------------------------------
\* A presentation, for any groups, and a credential exchange.

\* What the trust decision reads, and how far it is.
ProofSteps ==
    /\ proofState \in {"none", "request-sent"} =>
         check = "idle" /\ decided = "none" /\ ~acked /\ cause = "none"
    /\ creating => proofState = "request-sent"
    /\ proofState = "request-sent" /\ ~creating => meta = Groups
    /\ check # "idle" =>
         /\ proofState \in {"presentation-received", "declined"} /\ ~acked
         /\ seen.state = "presentation-received" /\ seen.meta = Groups
    /\ check = "running" => decided = "none" /\ cause = "none"
    /\ check = "abandon" => decided = "failed"
    /\ check = "accept" => decided = "passed"
    /\ proofState = "presentation-received" /\ check = "idle" => decided = "passed"

ProofInv ==
    /\ Proof!TypeOK /\ ProofSteps /\ Proof!AckNeedsDecision /\ Proof!HonestNotAbandoned
    /\ Proof!FailedNotVerified

\* A deletion under way has taken the exchange out of its flow.
ExchangeInv ==
    /\ Exchange!TypeOK /\ Exchange!NoDangling
    /\ exchangeCall.op = "delete" => ~linked /\ exchangeState # "none"

\* A presentation nobody asked for.
LEMMA ProofStarts == Proof!Init => ProofInv
<1> SUFFICES ASSUME Proof!Init PROVE ProofInv
  OBVIOUS
<1>1. {verified, acked} \subseteq BOOLEAN
  BY Zenon DEF Proof!Init
<1>2. Proof!TypeOK
  BY <1>1 DEF Proof!Init, Proof!TypeOK, Proof!TERMINAL_STATES
<1>3. ProofSteps
  BY DEF Proof!Init, ProofSteps
<1> QED
  BY <1>2, <1>3
     DEF ProofInv, Proof!Init, Proof!AckNeedsDecision, Proof!HonestNotAbandoned, Proof!FailedNotVerified

\* A step of the presentation, of its trust decision or of a call keeps ProofInv.
LEMMA ProofNext == ProofInv /\ [Proof!Next]_(Proof!vars) => ProofInv'
<1> SUFFICES ASSUME ProofInv, [Proof!Next]_(Proof!vars) PROVE ProofInv'
  OBVIOUS
<1> USE DEF ProofInv, ProofSteps, Proof!TypeOK, Proof!TERMINAL_STATES, Proof!AckNeedsDecision,
            Proof!HonestNotAbandoned, Proof!FailedNotVerified
<1>0. verified \in BOOLEAN /\ acked \in BOOLEAN
  OBVIOUS
<1>1. CASE Proof!createPresentationRequest
  <2>1. {verified', acked'} \subseteq BOOLEAN
    BY <1>1, Zenon DEF Proof!createPresentationRequest
  <2> QED
    BY <1>1, <2>1 DEF Proof!createPresentationRequest, Proof!uniqueKey
<1>2. CASE Proof!presentationArrives
  <2>1. {verified', acked'} \subseteq BOOLEAN
    BY <1>0, <1>2, Zenon DEF Proof!presentationArrives
  <2>2. /\ proofState = "request-sent" /\ check = "idle" /\ ~creating
        /\ UNCHANGED <<meta, creating, presented, decided, acked, cause>>
        /\ \/ /\ proofState' = "presentation-received" /\ check' = "running"
              /\ seen' = [state |-> "presentation-received", verified |-> TRUE, meta |-> meta]
           \/ proofState' = "abandoned" /\ check' = "idle" /\ verified' = FALSE
    BY <1>2 DEF Proof!presentationArrives
  <2> QED
    BY <2>1, <2>2
<1>3. CASE Proof!problemReportArrives
  <2>1. {verified', acked'} \subseteq BOOLEAN
    BY <1>3, Zenon DEF Proof!problemReportArrives
  <2> QED
    BY <1>3, <2>1 DEF Proof!problemReportArrives
<1>4. CASE Proof!applyAnonCredsTrustDecision
  <2>1. {verified', acked'} \subseteq BOOLEAN
    BY <1>4, Zenon DEF Proof!applyAnonCredsTrustDecision
  <2>2. /\ check = "running" /\ UNCHANGED <<proofState, verified, meta, creating, presented, seen, acked>>
        /\ \/ /\ check' = "abandon" /\ decided' = "failed"
              /\ Proof!Unaccredited # {} \/ Proof!Unchecked # {} \/ seen.meta = {}
           \/ check' = "accept" /\ decided' = "passed" /\ cause' = "none"
    BY <1>4 DEF Proof!applyAnonCredsTrustDecision
  <2>3. seen.meta = Groups
    BY <2>2
  <2>4. Proof!Unaccredited # {} \/ Proof!Unchecked # {} => \E g \in Groups : presented[g] # "accredited"
    BY <2>3 DEF Proof!Unaccredited, Proof!Unchecked
  <2> QED
    BY <2>1, <2>2, <2>3, <2>4, GroupsAssumption
<1>5. CASE Proof!abandonPresentation
  <2>1. {verified', acked'} \subseteq BOOLEAN
    BY <1>0, <1>5, Zenon DEF Proof!abandonPresentation
  <2> QED
    BY <1>5, <2>1 DEF Proof!abandonPresentation
<1>6. CASE Proof!registerAnonCredsTrustDecision
  <2>1. {verified', acked'} \subseteq BOOLEAN
    BY <1>0, <1>6, Zenon DEF Proof!registerAnonCredsTrustDecision
  <2> QED
    BY <1>6, <2>1 DEF Proof!registerAnonCredsTrustDecision
<1>7. CASE Proof!acceptPresentation
  <2>1. {verified', acked'} \subseteq BOOLEAN
    BY <1>0, <1>7, Zenon DEF Proof!acceptPresentation
  <2> QED
    BY <1>7, <2>1 DEF Proof!acceptPresentation
<1>8. CASE Proof!declinePresentationExchange
  <2>1. {verified', acked'} \subseteq BOOLEAN
    BY <1>8, Zenon DEF Proof!declinePresentationExchange
  <2> QED
    BY <1>8, <2>1 DEF Proof!declinePresentationExchange
<1>9. CASE Proof!deletePresentation
  <2>1. {verified', acked'} \subseteq BOOLEAN
    BY <1>9, Zenon DEF Proof!deletePresentation
  <2> QED
    BY <1>9, <2>1 DEF Proof!deletePresentation
<1>10. CASE UNCHANGED Proof!vars
  <2>1. {verified', acked'} \subseteq BOOLEAN
    BY <1>10, Zenon DEF Proof!vars
  <2> QED
    BY <1>10, <2>1 DEF Proof!vars
<1> QED
  BY <1>1, <1>2, <1>3, <1>4, <1>5, <1>6, <1>7, <1>8, <1>9, <1>10 DEF Proof!Next, Proof!Decide

\* A credential exchange that has not begun.
LEMMA ExchangeStarts == Exchange!Init => ExchangeInv
<1> SUFFICES ASSUME Exchange!Init PROVE ExchangeInv
  OBVIOUS
<1>1. {error, issuerActive, linked, kept, offerAutoAccept} \subseteq BOOLEAN
  BY Zenon DEF Exchange!Init
<1> QED
  BY <1>1 DEF Exchange!Init, ExchangeInv, Exchange!TypeOK, Exchange!NoDangling, Exchange!NoCall,
              Exchange!IssuerStates, Exchange!HolderStates, Exchange!TERMINAL_STATES

\* A step of the exchange, of the peer or of a call keeps ExchangeInv.
LEMMA ExchangeNext == ExchangeInv /\ [Exchange!Next]_(Exchange!vars) => ExchangeInv'
<1> SUFFICES ASSUME ExchangeInv, [Exchange!Next]_(Exchange!vars) PROVE ExchangeInv'
  OBVIOUS
<1> USE DEF ExchangeInv, Exchange!TypeOK, Exchange!NoDangling, Exchange!TERMINAL_STATES,
            Exchange!IssuerStates, Exchange!HolderStates, Exchange!SetState, Exchange!Start,
            Exchange!NoCall, Exchange!flowVars
<1>b. /\ error \in BOOLEAN /\ issuerActive \in BOOLEAN /\ linked \in BOOLEAN /\ kept \in BOOLEAN
      /\ offerAutoAccept \in BOOLEAN
  OBVIOUS
<1>1. CASE Exchange!createCredentialOffer
  <2>1. {error', issuerActive', linked', kept', offerAutoAccept'} \subseteq BOOLEAN
    BY <1>b, <1>1, Zenon DEF Exchange!createCredentialOffer
  <2> QED
    BY <1>1, <2>1 DEF Exchange!createCredentialOffer
<1>2. CASE Exchange!requestArrives
  <2>1. {error', issuerActive', linked', kept', offerAutoAccept'} \subseteq BOOLEAN
    BY <1>b, <1>2, Zenon DEF Exchange!requestArrives
  <2> QED
    BY <1>2, <2>1 DEF Exchange!requestArrives
<1>3. CASE Exchange!ackArrives
  <2>1. {error', issuerActive', linked', kept', offerAutoAccept'} \subseteq BOOLEAN
    BY <1>b, <1>3, Zenon DEF Exchange!ackArrives
  <2> QED
    BY <1>3, <2>1 DEF Exchange!ackArrives
<1>4. CASE Exchange!acceptCredentialRequest
  <2>1. {error', issuerActive', linked', kept', offerAutoAccept'} \subseteq BOOLEAN
    BY <1>b, <1>4, Zenon DEF Exchange!acceptCredentialRequest
  <2> QED
    BY <1>4, <2>1 DEF Exchange!acceptCredentialRequest
<1>5. CASE Exchange!offerArrives
  <2>1. {error', issuerActive', linked', kept', offerAutoAccept'} \subseteq BOOLEAN
    BY <1>b, <1>5, Zenon DEF Exchange!offerArrives
  <2> QED
    BY <1>5, <2>1 DEF Exchange!offerArrives
<1>6. CASE Exchange!acceptCredentialOffer
  <2>1. {error', issuerActive', linked', kept', offerAutoAccept'} \subseteq BOOLEAN
    BY <1>b, <1>6, Zenon DEF Exchange!acceptCredentialOffer
  <2> QED
    <3>1. \/ exchangeState' = exchangeState
          \/ exchangeState = "offer-received" /\ exchangeState' = "request-sent"
      BY <1>6 DEF Exchange!acceptCredentialOffer
    <3>a. \/ exchangeCall' = [op |-> "acceptOffer", saw |-> exchangeState]
          \/ exchangeCall' = [op |-> "none", saw |-> "none"]
      BY <1>6, Zenon DEF Exchange!acceptCredentialOffer
    <3>b. role' = role /\ flow' = flow /\ linked' = linked
      BY <1>6 DEF Exchange!acceptCredentialOffer
    <3>2. exchangeCall'.op \in {"acceptOffer", "none"} /\ UNCHANGED <<role, flow, linked>>
      BY <3>a, <3>b
    <3> QED
      BY <2>1, <3>1, <3>2
<1>7. CASE Exchange!credentialArrives
  <2>1. {error', issuerActive', linked', kept', offerAutoAccept'} \subseteq BOOLEAN
    BY <1>b, <1>7, Zenon DEF Exchange!credentialArrives
  <2> QED
    BY <1>7, <2>1 DEF Exchange!credentialArrives
<1>8. CASE Exchange!acceptCredential
  <2>1. {error', issuerActive', linked', kept', offerAutoAccept'} \subseteq BOOLEAN
    BY <1>b, <1>8, Zenon DEF Exchange!acceptCredential
  <2> QED
    BY <1>8, <2>1 DEF Exchange!acceptCredential
<1>9. CASE Exchange!problemReportArrives
  <2>1. {error', issuerActive', linked', kept', offerAutoAccept'} \subseteq BOOLEAN
    BY <1>b, <1>9, Zenon DEF Exchange!problemReportArrives
  <2> QED
    BY <1>9, <2>1 DEF Exchange!problemReportArrives
<1>10. CASE Exchange!declineCredentialExchange
  <2>1. {error', issuerActive', linked', kept', offerAutoAccept'} \subseteq BOOLEAN
    BY <1>b, <1>10, Zenon DEF Exchange!declineCredentialExchange
  <2> QED
    <3>1. \/ exchangeState' = exchangeState
          \/ exchangeState # "deleted" /\ exchangeState' = "declined"
      BY <1>10 DEF Exchange!declineCredentialExchange
    <3>a. \/ exchangeCall' = [op |-> "decline", saw |-> exchangeState]
          \/ exchangeCall' = [op |-> "none", saw |-> "none"]
      BY <1>10, Zenon DEF Exchange!declineCredentialExchange
    <3>b. role' = role /\ flow' = flow /\ linked' = linked
      BY <1>10 DEF Exchange!declineCredentialExchange
    <3>2. exchangeCall'.op \in {"decline", "none"} /\ UNCHANGED <<role, flow, linked>>
      BY <3>a, <3>b
    <3> QED
      BY <2>1, <3>1, <3>2
<1>11. CASE Exchange!deleteCredentialExchange
  <2>1. {error', issuerActive', linked', kept', offerAutoAccept'} \subseteq BOOLEAN
    BY <1>b, <1>11, Zenon DEF Exchange!deleteCredentialExchange
  <2> QED
    BY <1>11, <2>1 DEF Exchange!deleteCredentialExchange
<1>12. CASE Exchange!flowEnds
  <2>1. {error', issuerActive', linked', kept', offerAutoAccept'} \subseteq BOOLEAN
    BY <1>b, <1>12, Zenon DEF Exchange!flowEnds
  <2> QED
    BY <1>12, <2>1 DEF Exchange!flowEnds
<1>13. CASE Exchange!participantChanges
  <2>1. {error', issuerActive', linked', kept', offerAutoAccept'} \subseteq BOOLEAN
    BY <1>b, <1>13, Zenon DEF Exchange!participantChanges
  <2> QED
    BY <1>13, <2>1 DEF Exchange!participantChanges
<1>14. CASE Exchange!crash
  <2>1. {error', issuerActive', linked', kept', offerAutoAccept'} \subseteq BOOLEAN
    BY <1>b, <1>14, Zenon DEF Exchange!crash
  <2> QED
    BY <1>14, <2>1 DEF Exchange!crash
<1>15. CASE UNCHANGED Exchange!vars
  <2>1. {error', issuerActive', linked', kept', offerAutoAccept'} \subseteq BOOLEAN
    BY <1>b, <1>15, Zenon DEF Exchange!vars
  <2> QED
    BY <1>15, <2>1 DEF Exchange!vars
<1> QED
  BY <1>1, <1>2, <1>3, <1>4, <1>5, <1>6, <1>7, <1>8, <1>9, <1>10, <1>11, <1>12, <1>13, <1>14, <1>15 DEF Exchange!Next, Exchange!PeerStep

\* applyAnonCredsTrustDecision, as the presentation and the calls interleave with
\* it: no presentation is acknowledged whose issuers were not all found
\* accredited, none is abandoned for want of trust when they are, and none
\* stands as verified when its check failed.  deleteCredentialExchange: no flow
\* names an exchange that is gone, wherever the process stops.
THEOREM PresentationIsSound == Proof!Spec /\ Exchange!Spec => []PresentationSound
<1>1. ProofInv /\ ExchangeInv => PresentationSound
  BY DEF ProofInv, ExchangeInv, PresentationSound
<1>2. Proof!Spec => []ProofInv
  BY ProofStarts, ProofNext, PTL DEF Proof!Spec
<1>3. Exchange!Spec => []ExchangeInv
  BY ExchangeStarts, ExchangeNext, PTL DEF Exchange!Spec
<1> QED
  BY <1>1, <1>2, <1>3, PTL

-----------------------------------------------------------------------------
\* The trust decision behind a call, for any references and CredentialSchemas.

\* What a call has derived is still to be checked, or was active since it began.
GateInv ==
    /\ Gate!TypeOK /\ bound \in [Refs -> Schemas \cup {"none"}]
    /\ owned \subseteq Schemas
    /\ gateCall \in [kind : {"none", "present", "mint"}, groups : SUBSET (SUBSET Refs),
                     refs : SUBSET Refs, schemas : SUBSET Schemas]
    /\ gateCall # Gate!NoCall =>
         /\ active \subseteq during
         /\ \A r \in UNION gateCall.groups :
              \/ r \in gateCall.refs
              \/ derivations[r] # "unknown" /\ derivations[r] \in gateCall.schemas \cup during

\* An idle gate, and a gate whose call has ended, satisfy it.
LEMMA GateRests == Gate!NoCall \in [kind : {"none", "present", "mint"}, groups : SUBSET (SUBSET Refs),
                                    refs : SUBSET Refs, schemas : SUBSET Schemas]
  BY DEF Gate!NoCall

LEMMA GateStarts == Gate!Init => GateInv
  BY GateRests DEF Gate!Init, GateInv, Gate!TypeOK, Gate!NoCall, Gate!Unknown

\* A reference is derived: its CredentialSchema joins those to check.
LEMMA DerivationKept ==
    ASSUME GateInv, NEW r \in Refs, Gate!deriveCredentialSchema(r), gateCall # Gate!NoCall
    PROVE  GateInv'
<1> USE SchemasAssumption
<1> DEFINE object == Gate!resolveAnonCredsObject(r)
           link == Gate!resolveCredentialSchemaLink(r)
<1>1. /\ r \in gateCall.refs
      /\ UNCHANGED <<bound, owned, active>>
  BY DEF Gate!deriveCredentialSchema, Gate!world
<1>2. CASE derivations[r] # "unknown"
  <2>1. /\ gateCall' = [gateCall EXCEPT !.refs = gateCall.refs \ {r},
                                        !.schemas = gateCall.schemas \cup {derivations[r]}]
        /\ UNCHANGED <<derivations, during, outcome>>
    BY <1>2 DEF Gate!deriveCredentialSchema, Gate!Unknown
  <2>2. gateCall.refs \ {r} \subseteq Refs /\ gateCall.schemas \cup {derivations[r]} \subseteq Schemas
    BY <1>2 DEF GateInv, Gate!TypeOK, Gate!Unknown
  <2>3. /\ gateCall' \in [kind : {"none", "present", "mint"}, groups : SUBSET (SUBSET Refs),
                          refs : SUBSET Refs, schemas : SUBSET Schemas]
        /\ gateCall'.refs = gateCall.refs \ {r}
        /\ gateCall'.schemas = gateCall.schemas \cup {derivations[r]}
        /\ gateCall'.groups = gateCall.groups
    BY <2>1, <2>2 DEF GateInv
  <2> QED
    BY <1>1, <1>2, <2>1, <2>2, <2>3 DEF GateInv, Gate!TypeOK
<1>3. CASE derivations[r] = "unknown" /\ (object # "found" \/ link # "found")
  <2>1. /\ object \in {"found", "not-derivable", "unavailable"}
        /\ link \in {"found", "not-derivable", "unavailable"}
    BY DEF Gate!resolveAnonCredsObject, Gate!resolveCredentialSchemaLink
  <2>2. /\ gateCall' = Gate!NoCall /\ UNCHANGED derivations
        /\ \/ outcome' = object /\ object # "found"
           \/ outcome' = link /\ link # "found"
    BY <1>3, Zenon DEF Gate!deriveCredentialSchema, Gate!Unknown, Gate!End
  <2>3. Gate!NoCall.refs = {} /\ Gate!NoCall.schemas = {}
    BY DEF Gate!NoCall
  <2>4. outcome' \in {"none", "allowed", "not-authorized", "not-derivable", "unavailable"}
    BY <2>1, <2>2
  <2> QED
    BY <1>1, <2>2, <2>3, <2>4, GateRests DEF GateInv, Gate!TypeOK
<1>4. CASE derivations[r] = "unknown" /\ object = "found" /\ link = "found"
  <2>1. /\ derivations' = [derivations EXCEPT ![r] = bound[r]]
        /\ gateCall' = [gateCall EXCEPT !.refs = gateCall.refs \ {r},
                                        !.schemas = gateCall.schemas \cup {bound[r]}]
        /\ UNCHANGED <<during, outcome>>
    BY <1>4 DEF Gate!deriveCredentialSchema, Gate!Unknown
  <2>2. bound[r] # "none"
    BY <1>4 DEF Gate!resolveAnonCredsObject
  <2>3. bound[r] \in Schemas /\ bound[r] # "unknown"
    BY <2>2 DEF GateInv
  <2>4. gateCall.refs \ {r} \subseteq Refs /\ gateCall.schemas \cup {bound[r]} \subseteq Schemas
    BY <2>3 DEF GateInv, Gate!TypeOK
  <2>5. /\ gateCall' \in [kind : {"none", "present", "mint"}, groups : SUBSET (SUBSET Refs),
                          refs : SUBSET Refs, schemas : SUBSET Schemas]
        /\ gateCall'.refs = gateCall.refs \ {r}
        /\ gateCall'.schemas = gateCall.schemas \cup {bound[r]}
        /\ gateCall'.groups = gateCall.groups
    BY <2>1, <2>4 DEF GateInv
  <2>6. /\ derivations' \in [Refs -> Schemas \cup {"unknown"}]
        /\ derivations'[r] = bound[r]
        /\ \A x \in Refs : x # r => derivations'[x] = derivations[x]
    BY <2>1, <2>3 DEF GateInv, Gate!TypeOK, Gate!Unknown
  <2>7. \A x \in UNION gateCall'.groups :
          \/ x \in gateCall'.refs
          \/ derivations'[x] # "unknown" /\ derivations'[x] \in gateCall'.schemas \cup during'
    BY <1>1, <2>1, <2>3, <2>5, <2>6 DEF GateInv
  <2> QED
    BY <1>1, <2>1, <2>5, <2>6, <2>7 DEF GateInv, Gate!TypeOK, Gate!Unknown
<1> QED
  BY <1>2, <1>3, <1>4

\* One CredentialSchema is checked.
LEMMA CheckKept == GateInv /\ Gate!assertAuthorized => GateInv'
<1> SUFFICES ASSUME GateInv, Gate!assertAuthorized PROVE GateInv'
  OBVIOUS
<1>0. gateCall # Gate!NoCall /\ gateCall.refs = {} /\ UNCHANGED <<bound, owned, active, derivations>>
  BY DEF Gate!assertAuthorized, Gate!world
<1>1. CASE gateCall' = Gate!NoCall /\ outcome' \in {"unavailable", "not-authorized", "allowed"}
  <2>1. Gate!NoCall.refs = {} /\ Gate!NoCall.schemas = {}
    BY DEF Gate!NoCall
  <2> QED
    BY <1>0, <1>1, <2>1, GateRests DEF GateInv, Gate!TypeOK
<1>2. ASSUME NEW s \in gateCall.schemas, s \in active, UNCHANGED <<during, outcome>>,
             gateCall' = [gateCall EXCEPT !.schemas = gateCall.schemas \ {s}]
      PROVE  GateInv'
  <2>2. gateCall.refs \subseteq Refs /\ gateCall.schemas \ {s} \subseteq Schemas
    BY DEF GateInv, Gate!TypeOK
  <2>3. /\ gateCall' \in [kind : {"none", "present", "mint"}, groups : SUBSET (SUBSET Refs),
                          refs : SUBSET Refs, schemas : SUBSET Schemas]
        /\ gateCall'.refs = gateCall.refs
        /\ gateCall'.schemas = gateCall.schemas \ {s}
        /\ gateCall'.groups = gateCall.groups
    BY <1>2, <2>2 DEF GateInv
  <2> QED
    BY <1>0, <1>2, <2>2, <2>3 DEF GateInv, Gate!TypeOK
<1> QED
  BY <1>1, <1>2 DEF Gate!assertAuthorized, Gate!End

\* Every step of the gate keeps the invariant.
LEMMA GateNext == GateInv /\ [Gate!Next]_anonCredsTrustVars => GateInv'
<1> SUFFICES ASSUME GateInv, [Gate!Next]_anonCredsTrustVars PROVE GateInv'
  OBVIOUS
<1>1. CASE Gate!worldChanges
  BY <1>1 DEF Gate!worldChanges, GateInv, Gate!TypeOK
<1>2. CASE Gate!acceptPresentationRequest
  <2>0. UNCHANGED <<bound, owned, active, derivations>>
    BY <1>2 DEF Gate!acceptPresentationRequest, Gate!world
  <2>1. PICK groups \in SUBSET (SUBSET Refs) :
          \/ outcome' = "not-authorized" /\ UNCHANGED <<gateCall, during>>
          \/ /\ gateCall' = [kind |-> "present", groups |-> groups, refs |-> UNION groups, schemas |-> {}]
             /\ during' = active /\ outcome' = "none"
    BY <1>2, Zenon DEF Gate!acceptPresentationRequest
  <2>2. CASE outcome' = "not-authorized" /\ UNCHANGED <<gateCall, during>>
    BY <2>0, <2>2 DEF GateInv, Gate!TypeOK
  <2>3. CASE /\ gateCall' = [kind |-> "present", groups |-> groups, refs |-> UNION groups, schemas |-> {}]
             /\ during' = active /\ outcome' = "none"
    <3>1. UNION groups \subseteq Refs
      OBVIOUS
    <3>2. gateCall' \in [kind : {"none", "present", "mint"}, groups : SUBSET (SUBSET Refs),
                         refs : SUBSET Refs, schemas : SUBSET Schemas]
      BY <2>3, <3>1
    <3>3. gateCall'.groups = groups /\ gateCall'.refs = UNION groups /\ gateCall'.schemas = {}
      BY <2>3
    <3> QED
      BY <2>0, <2>3, <3>1, <3>2, <3>3 DEF GateInv, Gate!TypeOK
  <2> QED
    BY <2>1, <2>2, <2>3
<1>3. CASE Gate!assertOwnAuthorization
  <2>1. PICK r \in Refs : gateCall' = [kind |-> "mint", groups |-> {{r}}, refs |-> {r}, schemas |-> {}]
    BY <1>3 DEF Gate!assertOwnAuthorization
  <2>2. /\ gateCall' \in [kind : {"none", "present", "mint"}, groups : SUBSET (SUBSET Refs),
                          refs : SUBSET Refs, schemas : SUBSET Schemas]
        /\ gateCall'.groups = {{r}} /\ gateCall'.refs = {r} /\ gateCall'.schemas = {}
    BY <2>1
  <2> QED
    BY <1>3, <2>2 DEF Gate!assertOwnAuthorization, GateInv, Gate!TypeOK, Gate!world
<1>4. CASE Gate!assertAuthorized
  BY <1>4, CheckKept
<1>5. ASSUME NEW r \in Refs, Gate!deriveCredentialSchema(r) PROVE GateInv'
  <2>1. gateCall # Gate!NoCall
    <3>1. Gate!NoCall.refs = {}
      BY DEF Gate!NoCall
    <3> QED
      BY <1>5, <3>1 DEF Gate!deriveCredentialSchema
  <2> QED
    BY <1>5, <2>1, DerivationKept
<1>6. CASE UNCHANGED anonCredsTrustVars
  BY <1>6 DEF anonCredsTrustVars, GateInv, Gate!TypeOK
<1> QED
  BY <1>1, <1>2, <1>3, <1>4, <1>5, <1>6 DEF Gate!Next, Gate!Step

\* The call that is allowed has checked the last CredentialSchema.
LEMMA AllowedLast == GateInv /\ Gate!Next => Gate!AllowedWasActiveStep
<1> SUFFICES ASSUME GateInv, Gate!Next, outcome # "allowed", outcome' = "allowed"
             PROVE  Gate!Needed \subseteq during
  BY DEF Gate!AllowedWasActiveStep
<1>1. ASSUME NEW r \in Refs, Gate!deriveCredentialSchema(r) PROVE FALSE
  <2>1. /\ Gate!resolveAnonCredsObject(r) # "allowed"
        /\ Gate!resolveCredentialSchemaLink(r) # "allowed"
    BY DEF Gate!resolveAnonCredsObject, Gate!resolveCredentialSchemaLink
  <2> QED
    BY <1>1, <2>1 DEF Gate!deriveCredentialSchema, Gate!End
<1>2. Gate!assertAuthorized
  BY <1>1 DEF Gate!Next, Gate!Step, Gate!worldChanges, Gate!acceptPresentationRequest, Gate!assertOwnAuthorization
<1>3. PICK s \in gateCall.schemas : s \in active /\ gateCall.schemas = {s}
  BY <1>2 DEF Gate!assertAuthorized, Gate!End
<1>4. gateCall # Gate!NoCall /\ gateCall.refs = {}
  BY <1>2 DEF Gate!assertAuthorized
<1>5. \A r \in UNION gateCall.groups : derivations[r] \in during
  BY <1>3, <1>4 DEF GateInv
<1> QED
  BY <1>5 DEF Gate!Needed

\* The demo switch allows nothing while the indexer does not answer.
LEMMA SkippingChecks == Skipping!Next => Skipping!AllowedWasCheckedStep
<1> SUFFICES ASSUME Skipping!Next, outcome # "allowed", outcome' = "allowed"
             PROVE  "indexer" \in up
  BY DEF Skipping!AllowedWasCheckedStep
<1>1. ASSUME NEW r \in {m1}, Skipping!deriveCredentialSchema(r) PROVE FALSE
  <2>1. /\ Skipping!resolveAnonCredsObject(r) # "allowed"
        /\ Skipping!resolveCredentialSchemaLink(r) # "allowed"
    BY DEF Skipping!resolveAnonCredsObject, Skipping!resolveCredentialSchemaLink
  <2> QED
    BY <1>1, <2>1 DEF Skipping!deriveCredentialSchema, Skipping!End
<1>2. Skipping!assertAuthorized
  BY <1>1 DEF Skipping!Next, Skipping!Step, Skipping!worldChanges, Skipping!acceptPresentationRequest,
              Skipping!assertOwnAuthorization
<1> QED
  BY <1>2 DEF Skipping!assertAuthorized, Skipping!End

\* assertAuthorized: in every run of the gate, whatever the caches hold and the
\* world does meanwhile, what is allowed was active for every CredentialSchema of
\* every restriction since the call began; the demo switch excuses a missing
\* participant, never a check that could not run.
THEOREM GateIsSound == MCSpec => GateSound
<1> DEFINE GInv == scenario = "gate" => GateInv
           GTypes == scenario = "gate" => Gate!TypeOK
           GStep == scenario = "gate" => Gate!AllowedWasActiveStep
           SStep == scenario = "skipping gate" => Skipping!AllowedWasCheckedStep
<1>1. MCInit => GInv
  BY GateStarts, Zenon DEF MCInit
<1>2. GInv /\ [MCNext]_allVars => GInv' /\ [GStep]_anonCredsTrustVars /\ [SStep]_anonCredsTrustVars
  <2> SUFFICES ASSUME GInv, [MCNext]_allVars
               PROVE  GInv' /\ [GStep]_anonCredsTrustVars /\ [SStep]_anonCredsTrustVars
    BY Zenon
  <2>0. scenario' = scenario
    BY Zenon DEF MCNext, allVars
  <2>1. CASE scenario = "gate" /\ Gate!Next
    BY <2>0, <2>1, GateNext, AllowedLast, Zenon
  <2>2. CASE scenario = "skipping gate" /\ Skipping!Next
    BY <2>0, <2>2, SkippingChecks, Zenon
  <2>3. CASE UNCHANGED anonCredsTrustVars
    BY <2>0, <2>3, GateNext, Zenon
  <2> QED
    BY <2>1, <2>2, <2>3, Zenon DEF MCNext, allVars
<1>3. GInv => GTypes
  BY DEF GateInv
<1>4. GateSound <=> []GTypes /\ [][GStep]_anonCredsTrustVars /\ [][SStep]_anonCredsTrustVars
  BY PTL DEF GateSound
<1> QED
  BY <1>1, <1>2, <1>3, <1>4, PTL DEF MCSpec
=============================================================================
