------------------------------ MODULE PublicDid ------------------------------
(***************************************************************************)
(* The public DID of the agent (VsAgent.initialize): it is created on the  *)
(* first start and reconciled with the configuration on every later one,   *)
(* while the process may crash between two writes and the operator may     *)
(* change the configuration between two starts. The wallet survives.       *)
(***************************************************************************)
EXTENDS Naturals, FiniteSets

CONSTANTS
    Locations,       \* locations a base URL can derive
    Endpoints,       \* admin API endpoints, without "none"
    Legacy,          \* the wallet may hold a DID of an earlier version
    MaxFaults        \* bound: crashes, failed updates and configuration changes

VARIABLES
    config,          \* method, location and admin endpoint of this start
    dids,            \* wallet: the created DID record of each method
    invited,         \* wallet: the shared invitation of the public DID
    keys,            \* number of keys the KMS has made
    pc,
    doc,             \* document that initialize is changing
    newKey,          \* key agreement key it made, 0 if none
    faults

wallet == <<dids, invited>>
vars == <<config, wallet, keys, pc, doc, newKey, faults>>

Methods == {"web", "webvh"}
Admins == Endpoints \cup {"none"}

\* What a document publishes: its Ed25519 methods ("update" is the Multikey of
\* did:webvh, "own" the key made for DIDComm), the key agreement key (0 if
\* none), the key its DIDComm services name, and the managed services.
Docs == [ed : SUBSET {"update", "own"}, agreement : Nat, didcomm : {"none", "update", "own"},
         artifacts : SUBSET Methods, admin : Admins]
EmptyDoc == [ed |-> {}, agreement |-> 0, didcomm |-> "none", artifacts |-> {}, admin |-> "none"]

\* A record: its location, the document, and the KMS key mapped for key
\* agreement (0 if none).
NoDid == [location |-> "none", doc |-> EmptyDoc, mapped |-> 0]

\* The key agreement key an earlier version derived: no KMS key of its own.
Derived == 1

Init ==
    /\ config \in [method : Methods, location : Locations, admin : Admins]
    /\ dids \in {[mt \in Methods |-> NoDid]} \cup
           (IF ~Legacy THEN {} ELSE
              {[mt \in Methods |-> IF mt = owner THEN [location |-> config.location, mapped |-> 0,
                   doc |-> [ed |-> {"own"}, agreement |-> Derived, didcomm |-> "own", artifacts |-> arts,
                            admin |-> "none"]] ELSE NoDid] : owner \in Methods, arts \in SUBSET Methods})
    /\ invited = FALSE /\ keys = Derived /\ pc = "start" /\ doc = EmptyDoc /\ newKey = 0 /\ faults = 0

Record == dids[config.method]
Publish(d) == dids' = [dids EXCEPT ![config.method].doc = d]

-----------------------------------------------------------------------------
\* applyArtifactServices and applyAdminApiService: the services of the
\* configuration replace what the document has of their kinds.
WithServices(d) == [d EXCEPT !.artifacts = {config.method}, !.admin = config.admin]

\* createAndAddDidCommKeysAndServices: one Ed25519 and one X25519 key of the
\* KMS; the relations and the DIDComm services name them only.
WithDidCommKeys(d) ==
    WithServices([d EXCEPT !.ed = @ \cup {"own"}, !.agreement = keys + 1, !.didcomm = "own"])

\* findCreatedDid finds no DID of the method: one of the other method makes
\* the agent refuse to start, or the DID is created. The did:web record is
\* saved in one write.
createDid ==
    /\ pc = "start" /\ Record = NoDid
    /\ \A mt \in Methods : dids[mt] = NoDid
    /\ IF config.method = "web"
       THEN /\ keys' = keys + 1
            /\ dids' = [dids EXCEPT !["web"] = [location |-> config.location, doc |-> WithDidCommKeys(EmptyDoc),
                                               mapped |-> keys + 1]]
            /\ pc' = "invite" /\ UNCHANGED doc
       ELSE /\ dids' = [dids EXCEPT !["webvh"] = [location |-> config.location, mapped |-> 0,
                                                 doc |-> [EmptyDoc EXCEPT !.ed = {"update"}]]]
            /\ doc' = [EmptyDoc EXCEPT !.ed = {"update"}] /\ pc' = "keys" /\ UNCHANGED keys
    /\ UNCHANGED <<config, invited, newKey, faults>>

\* did:webvh: the DIDComm keys are mapped on the record that was just saved,
\* then the document with its services is published.
mapDidCommKeys ==
    /\ pc = "keys" /\ keys' = keys + 1
    /\ doc' = WithDidCommKeys(doc) /\ dids' = [dids EXCEPT !["webvh"].mapped = keys + 1]
    /\ pc' = "publish"
    /\ UNCHANGED <<config, invited, newKey, faults>>

\* Another method or another location than the persisted one: the start is
\* refused and the wallet stays as it is.
refuse ==
    /\ pc = "start"
    /\ IF Record = NoDid THEN \E mt \in Methods : dids[mt] # NoDid ELSE Record.location # config.location
    /\ pc' = "stopped"
    /\ UNCHANGED <<config, wallet, keys, doc, newKey, faults>>

-----------------------------------------------------------------------------
\* The DID exists.

\* findEd25519VerificationMethodId prefers the own key over the Multikey.
findEd25519(d) == IF "own" \in d.ed THEN "own" ELSE IF "update" \in d.ed THEN "update" ELSE "none"

\* replaceDerivedKeyAgreementKey: a published key that is not mapped has no
\* KMS key and is replaced.
NeedsKey(r) == r.doc.agreement # 0 /\ r.mapped = 0

servicesChanged(d) == d.didcomm # findEd25519(d)

\* The document is reconciled in memory and published if anything differs.
reconcile ==
    /\ pc = "start" /\ Record # NoDid /\ Record.location = config.location
    /\ LET replaced == IF NeedsKey(Record) THEN [Record.doc EXCEPT !.agreement = keys + 1] ELSE Record.doc
           served == IF servicesChanged(replaced) THEN [replaced EXCEPT !.didcomm = findEd25519(replaced)] ELSE replaced
       IN  /\ doc' = WithServices(served)
           /\ pc' = IF WithServices(served) = Record.doc THEN "invite" ELSE "publish"
    /\ IF NeedsKey(Record) THEN keys' = keys + 1 /\ newKey' = keys + 1 ELSE UNCHANGED <<keys, newKey>>
    /\ UNCHANGED <<config, wallet, faults>>

\* dids.update; what the registrar reports as failed throws.
updateDid ==
    /\ pc = "publish"
    /\ \/ Publish(doc) /\ pc' = (IF newKey # 0 THEN "map" ELSE "invite") /\ UNCHANGED faults
       \/ faults < MaxFaults /\ faults' = faults + 1 /\ pc' = "stopped" /\ UNCHANGED dids
    /\ UNCHANGED <<config, invited, keys, doc, newKey>>

\* addDidKey: mapped only once the document publishes the key.
addDidKey ==
    /\ pc = "map" /\ dids' = [dids EXCEPT ![config.method].mapped = newKey] /\ newKey' = 0 /\ pc' = "invite"
    /\ UNCHANGED <<config, invited, keys, doc, faults>>

\* ensureSharedPublicDidInvitation, on every start.
ensureSharedPublicDidInvitation ==
    /\ pc = "invite" /\ invited' = TRUE /\ pc' = "running"
    /\ UNCHANGED <<config, dids, keys, doc, newKey, faults>>

-----------------------------------------------------------------------------
\* The process ends at any point; the operator may start it with another
\* configuration.
restart ==
    /\ faults < MaxFaults /\ faults' = faults + 1
    /\ config' \in [method : Methods, location : Locations, admin : Admins]
    /\ pc' = "start" /\ doc' = EmptyDoc /\ newKey' = 0
    /\ UNCHANGED <<wallet, keys>>

Next ==
    \/ createDid \/ mapDidCommKeys \/ refuse \/ reconcile \/ updateDid \/ addDidKey
    \/ ensureSharedPublicDidInvitation \/ restart

Spec == Init /\ [][Next]_vars

-----------------------------------------------------------------------------
\* The key agreement key is always one the KMS made or an earlier version
\* derived, and a mapping names a KMS key.
TypeOK ==
    /\ config \in [method : Methods, location : Locations, admin : Admins]
    /\ \A mt \in Methods :
         /\ dids[mt].location \in Locations \cup {"none"} /\ dids[mt].doc \in Docs
         /\ dids[mt].mapped \in {0} \cup 2..keys /\ dids[mt].doc.agreement \in 0..keys
    /\ invited \in BOOLEAN /\ doc \in Docs /\ newKey \in {0} \cup 2..keys
    /\ pc \in {"start", "keys", "publish", "map", "invite", "running", "stopped"} /\ faults \in 0..MaxFaults

\* VsAgent refuses to start rather than create a second DID, "which would
\* discard the credentials, Participant entries and permissions bound to the
\* persisted one": there is never a second one, and the first keeps its location.
NeverASecondDid ==
    [][/\ Cardinality({mt \in Methods : dids'[mt] # NoDid}) <= 1
       /\ \A mt \in Methods : (dids[mt] # NoDid) => (dids'[mt].location = dids[mt].location)]_vars

\* A running agent can decrypt what is sent to the key its document
\* publishes, whichever write a crash came between.
PublishedKeyIsMapped ==
    pc = "running" => Record.doc.agreement \in {0, Record.mapped}

\* A running agent publishes the services of this start's configuration: the
\* artifact service of its method alone and the current admin endpoint.
ConfigurationPublished ==
    pc = "running" => Record.doc.artifacts = {config.method} /\ Record.doc.admin = config.admin

\* Credo refuses implicit connections to a public DID without a shared
\* invitation: a running agent has one, even if the start that created the
\* DID did not get to it.
PublicDidOpen == pc = "running" => invited

\* VsAgent.ts: "webvh's update Multikey is not ours to use".
UpdateKeyNotUsed == pc = "running" => Record.doc.didcomm = "own"
=============================================================================
