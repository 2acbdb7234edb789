--------------------------- MODULE CredentialTypes ---------------------------
(***************************************************************************)
(* The AnonCreds objects of one Verifiable Trust JSON Schema Credential    *)
(* (VTJSC) that this agent issued: the schema, which the publisher of the  *)
(* VTJSC and the creation of a credential definition both register, and    *)
(* the credential definitions, which the admin API creates, imports,       *)
(* exports and deletes.                                                    *)
(*                                                                         *)
(* Each await is a point where another request runs or the process stops.  *)
(* The identifier of a schema is a hash of its contents, so a second       *)
(* registration is a second record of the same identifier, and findById    *)
(* throws on it; the identifier of a credential definition is new.         *)
(***************************************************************************)
EXTENDS Naturals, Sequences, FiniteSets

CONSTANTS
    Callers,     \* requests to the admin API in progress at a time
    Kinds,       \* operations they call
    MaxDefs,     \* bound: credential definitions created here
    MaxRecs,     \* bound: schema records
    MaxCrashes   \* bound: stops of the process

VARIABLES
    recs,        \* schema records in order: does it carry the tag of the VTJSC
    served,      \* the attested resource of the schema is stored
    defs,        \* parts that are stored of each credential definition
    pub,         \* publishAnonCredsSchemaForVtjsc of the running process
    req,         \* the requests
    second,      \* ghost: a creation tagged a definition beside another
    exported,    \* ghost: an export whose package no import accepts
    crashes

vars == <<recs, served, defs, pub, req, second, exported, crashes>>

\* 0 is the identifier of the package that is imported from another agent.
Ids == 0..MaxDefs
Parts == {"record", "tag", "private", "proof", "attested"}
Idle == [op |-> "none", pc |-> "idle", id |-> 0]
Unused == {d \in Ids \ {0} : defs[d] = {} /\ \A c \in Callers : req[c].id # d}

Init ==
    /\ recs = <<>> /\ served = FALSE /\ defs = [d \in Ids |-> {}]
    /\ pub = "idle" /\ req = [c \in Callers |-> Idle]
    /\ second = FALSE /\ exported = FALSE /\ crashes = 0

Tagged == {d \in Ids : {"record", "tag"} \subseteq defs[d]}
SchemaTagged == \E i \in DOMAIN recs : recs[i]

-----------------------------------------------------------------------------
\* The schema, registered by the publisher and by a creation.

registerSchema == Len(recs) < MaxRecs /\ recs' = Append(recs, FALSE)

\* The chain handler or the start-up pass: look by tag, register, tag, save.
publishAnonCredsSchemaForVtjsc ==
    \/ /\ pub = "idle" /\ UNCHANGED <<recs, served>>
       /\ pub' = IF SchemaTagged THEN "done" ELSE "register"
    \/ pub = "register" /\ registerSchema /\ pub' = "tag" /\ UNCHANGED served
    \/ /\ pub = "tag" /\ UNCHANGED served
       /\ IF Len(recs) > 1 THEN pub' = "failed" /\ UNCHANGED recs
          ELSE pub' = "save" /\ recs' = <<TRUE>>
    \/ pub = "save" /\ served' = TRUE /\ pub' = "done" /\ UNCHANGED recs

publish ==
    publishAnonCredsSchemaForVtjsc /\ UNCHANGED <<defs, req, second, exported, crashes>>

-----------------------------------------------------------------------------
\* Requests.

Goto(c, pc) == req' = [req EXCEPT ![c].pc = pc]
Answer(c) == req' = [req EXCEPT ![c] = Idle]

\* findAnonCredsCredentialDefinition answers the one that carries the tag.
findAnonCredsCredentialDefinition == Tagged # {}

\* Mutant: the existing credential definition is not looked for.
createUnchecked(c) ==
    /\ req[c] = Idle /\ "create" \in Kinds /\ Unused # {}
    /\ req' = [req EXCEPT ![c] = [op |-> "create", pc |-> "schema", id |-> CHOOSE d \in Unused : TRUE]]
    /\ UNCHANGED <<recs, served, defs, pub, second, exported, crashes>>

createCredentialDefinition(c) ==
    /\ req[c] = Idle /\ "create" \in Kinds /\ Unused # {}
    /\ ~findAnonCredsCredentialDefinition
    /\ req' = [req EXCEPT ![c] = [op |-> "create", pc |-> "schema", id |-> CHOOSE d \in Unused : TRUE]]
    /\ UNCHANGED <<recs, served, defs, pub, second, exported, crashes>>

\* By tag, then one of the same name and version, which takes the tag, and
\* only then a new one.
getOrRegisterAnonCredsSchema(c) ==
    /\ req[c].op = "create"
    /\ \/ /\ req[c].pc = "schema" /\ Goto(c, IF SchemaTagged THEN "credDef" ELSE "equivalent")
          /\ UNCHANGED <<recs, served>>
       \/ /\ req[c].pc = "equivalent" /\ UNCHANGED served
          /\ IF recs # <<>>
             THEN recs' = [recs EXCEPT ![1] = TRUE] /\ Goto(c, "credDef")
             ELSE UNCHANGED recs /\ Goto(c, "register")
       \/ req[c].pc = "register" /\ registerSchema /\ Goto(c, "tagSchema") /\ UNCHANGED served
       \/ /\ req[c].pc = "tagSchema" /\ UNCHANGED served
          /\ IF Len(recs) # 1 THEN Answer(c) /\ UNCHANGED recs
             ELSE recs' = <<TRUE>> /\ Goto(c, "saveSchema")
       \/ req[c].pc = "saveSchema" /\ served' = TRUE /\ Goto(c, "credDef") /\ UNCHANGED recs
    /\ UNCHANGED <<defs, pub, second, exported, crashes>>

\* Duplicates of the schema record are removed; the record, the private key and
\* the proof come from the registration, the tag is stored last.
registerAnonCredsCredentialDefinition(c) ==
    LET d == req[c].id IN
    /\ req[c].op = "create"
    /\ \/ /\ req[c].pc = "credDef" /\ recs' = SubSeq(recs, 1, 1)
          /\ defs' = [defs EXCEPT ![d] = {"record", "private", "proof"}]
          /\ Goto(c, "attested") /\ UNCHANGED second
       \/ /\ req[c].pc = "attested" /\ defs' = [defs EXCEPT ![d] = @ \cup {"attested"}]
          /\ Goto(c, "tag") /\ UNCHANGED <<recs, second>>
       \/ /\ req[c].pc = "tag" /\ Answer(c) /\ UNCHANGED recs
          /\ IF "record" \in defs[d]
             THEN defs' = [defs EXCEPT ![d] = @ \cup {"tag"}] /\ second' = (second \/ Tagged # {})
             ELSE UNCHANGED <<defs, second>>
    /\ UNCHANGED <<served, pub, exported, crashes>>

\* The package: refused if the record exists, else record, tag, private key and
\* proof, one after the other.
importCredentialDefinition(c) ==
    \/ /\ req[c] = Idle /\ "import" \in Kinds /\ "record" \notin defs[0]
       /\ defs' = [defs EXCEPT ![0] = @ \cup {"record"}]
       /\ req' = [req EXCEPT ![c] = [op |-> "import", pc |-> "tag", id |-> 0]]
       /\ UNCHANGED <<recs, served, pub, second, exported, crashes>>
    \/ /\ req[c].op = "import"
       /\ \E step \in {<<"tag", "private">>, <<"private", "proof">>, <<"proof", "idle">>} :
            /\ req[c].pc = step[1]
            /\ defs' = [defs EXCEPT ![0] = @ \cup {step[1]}]
            /\ IF step[2] = "idle" THEN Answer(c) ELSE Goto(c, step[2])
       /\ UNCHANGED <<recs, served, pub, second, exported, crashes>>

\* What a record lacks is absent from the package, and the import refuses a
\* package without private key or proof.
exportCredentialDefinition(c, d) ==
    /\ req[c] = Idle /\ "export" \in Kinds /\ "record" \in defs[d]
    /\ exported' = (exported \/ ~({"private", "proof"} \subseteq defs[d]))
    /\ UNCHANGED <<recs, served, defs, pub, req, second, crashes>>

DeleteStep(c, first, next, parts) ==
    /\ req[c].op = "delete" /\ req[c].pc = first
    /\ defs' = [defs EXCEPT ![req[c].id] = @ \ parts]
    /\ IF next = "idle" THEN Answer(c) ELSE Goto(c, next)

\* Private key, proof, attested resource, and the record with its tags last.
deleteCredentialDefinition(c) ==
    /\ \/ /\ req[c] = Idle /\ "delete" \in Kinds /\ UNCHANGED defs
          /\ \E d \in Ids : /\ "record" \in defs[d]
                            /\ req' = [req EXCEPT ![c] = [op |-> "delete", pc |-> "private", id |-> d]]
       \/ DeleteStep(c, "private", "proof", {"private"})
       \/ DeleteStep(c, "proof", "attested", {"proof"})
       \/ DeleteStep(c, "attested", "record", {"attested"})
       \/ DeleteStep(c, "record", "idle", {"record", "tag"})
    /\ UNCHANGED <<recs, served, pub, second, exported, crashes>>

\* A stop of the process; the start-up pass publishes the schema again.
restart ==
    /\ crashes < MaxCrashes /\ crashes' = crashes + 1
    /\ pub' = "idle" /\ req' = [c \in Callers |-> Idle]
    /\ UNCHANGED <<recs, served, defs, second, exported>>

Next ==
    \/ publish \/ restart
    \/ \E c \in Callers :
        \/ createCredentialDefinition(c) \/ getOrRegisterAnonCredsSchema(c)
        \/ registerAnonCredsCredentialDefinition(c) \/ importCredentialDefinition(c)
        \/ \E d \in Ids : exportCredentialDefinition(c, d)
        \/ deleteCredentialDefinition(c)

Spec == Init /\ [][Next]_vars

-----------------------------------------------------------------------------
TypeOK ==
    /\ recs \in Seq(BOOLEAN) /\ Len(recs) <= MaxRecs /\ {served, second, exported} \subseteq BOOLEAN
    /\ \A d \in Ids : defs[d] \subseteq Parts
    /\ pub \in {"idle", "register", "tag", "save", "done", "failed"}
    /\ \A c \in Callers : req[c].id \in Ids

\* createCredentialDefinition: "A credential definition already governs that
\* JSON Schema Credential" is the answer to a creation beside an existing one:
\* none is created beside another that carries the tag.
CreateMakesNoSecond == ~second

\* deleteCredentialDefinition: keys and attested resources without their record
\* are out of reach of another deletion, so none are left, also after a stop in
\* the middle of an operation.
NoOrphans == \A d \in Ids : "record" \notin defs[d] => defs[d] = {}

\* publishAnonCredsSchemaForVtjsc, "The call is idempotent": a call that ended
\* without a failure leaves the schema served, or a creation about to save it.
PassPublishes ==
    (pub = "done" /\ \A c \in Callers : req[c].pc \notin {"tagSchema", "saveSchema"}) => served

\* exportCredentialDefinition: "a portable package, for import on another
\* agent": the import accepts every package an export answers with.
ExportImports == ~exported

=============================================================================
