------------------------------ MODULE TrustStore ------------------------------
(***************************************************************************)
(* The Verifiable Trust material an agent publishes: the _vt/jsc and       *)
(* _vt/vtc entries of its DID record and the services of the DID document  *)
(* that announce them.                                                     *)
(*                                                                         *)
(* Everyone who changes it reads the whole record, works on the copy and   *)
(* writes it back: the handlers of chain notifications, one after the      *)
(* other, the reconciliation at start-up, the publication of a credential  *)
(* that a flow delivered, and the service endpoints of the Admin API.  The *)
(* constant Serial lets only one of them run at a time.                    *)
(*                                                                         *)
(* A schema has versions of its JSON schema.  "holder" is the credential   *)
(* of a flow, named by its HOLDER participant; "self" the self-issued ECS  *)
(* credential, tagged with the ISSUER participant it is anchored against.  *)
(***************************************************************************)
EXTENDS Naturals, Sequences

CONSTANTS
    Schemas,      \* credential schemas of the ecosystem
    Endpoints,    \* service endpoints of the administrator
    Serial,       \* the writers run one at a time
    MaxChanges,   \* bound: changes on the chain
    MaxFaults,    \* bound: crashes, and operations that fail before they write
    MaxEdits      \* bound: changes of service endpoints

Threads == {"startup", "notif", "flow", "admin"}

VARIABLES
    rec,      \* the stored DID record
    version,  \* per schema, the version on the chain, 0 before it exists
    owned,    \* the agent controls the ecosystem of the schemas
    issuer,   \* the active ISSUER participant, 0 if none
    issuers,  \* how many ISSUER participants there were
    holder,   \* the HOLDER participant: "offered", "completed", "revoked"
    onChain,  \* the HOLDER participant is not revoked on the chain
    anchored, \* the digest of the self-issued credential is on the chain
    news,     \* notifications that are not handled yet
    todo,     \* per thread, the operations left of its program
    copy,     \* per thread, the record it works on, or NoRec
    bound,    \* per thread, the ISSUER participant its rebinding listed
    pending,  \* a TriggerResolver waits for the end of its window
    seen,     \* what the resolver read at the last trigger
    stale,    \* ghost: the chain changed, or an operation failed, since the pass began
    passed,   \* ghost: a reconciliation pass ended
    changes, faults, edits

chain == <<version, owned, issuer, issuers, onChain>>
ghost == <<stale, passed>>
count == <<changes, faults, edits>>
vars  == <<rec, chain, holder, anchored, news, todo, copy, bound, pending, seen, ghost, count>>

Empty == [jsc |-> [s \in Schemas |-> 0], tm |-> [s \in Schemas |-> 0], jscSvc |-> {},
          held |-> FALSE, self |-> FALSE, tag |-> 0, vtcSvc |-> {}, custom |-> {}]
NoRec == [Empty EXCEPT !.tag = 99]

\* What a trust resolver reads: the announced presentations and what they hold.
publicationFingerprint(r) ==
    [jsc |-> r.jsc, jscSvc |-> r.jscSvc, held |-> r.held, self |-> r.self, vtcSvc |-> r.vtcSvc]

Op(k, x) == [k |-> k, x |-> x]

\* rebindEcsCredentialSchema publishes in one write and tags in a later one.
RebindEcs == <<Op("rebind", 0), Op("tag", 0)>>

\* reconcileSelfIssuedEcsCredentials: first the revoked ISSUERs, then the
\* active one.
SelfIssuedPass == <<Op("withdraw", 0)>> \o RebindEcs

\* reconcileVtjscPublications, as the operations it runs; "each" holds the
\* schemas that are left, in whichever order the indexer lists them.
ReconcilePass ==
    <<Op("pass", 0), Op("each", Schemas), Op("detach", 0)>> \o SelfIssuedPass \o <<Op("passed", 0)>>

Init ==
    /\ rec = Empty /\ copy = [t \in Threads |-> NoRec] /\ bound = [t \in Threads |-> 0]
    /\ version \in [Schemas -> {0, 1}] /\ owned \in BOOLEAN
    /\ issuer \in {0, 1} /\ issuers = issuer
    /\ holder = "offered" /\ onChain = TRUE /\ anchored = FALSE /\ news = <<>>
    /\ todo = [t \in Threads |-> IF t = "startup" THEN ReconcilePass ELSE <<>>]
    /\ pending = FALSE /\ seen = publicationFingerprint(Empty)
    /\ stale = FALSE /\ passed = FALSE
    /\ changes = 0 /\ faults = 0 /\ edits = 0

Running(t) == todo[t] # <<>>
MayStart(t) == ~Running(t) /\ (Serial => \A u \in Threads : ~Running(u))
Start(t, program) == MayStart(t) /\ todo' = [todo EXCEPT ![t] = program]

-----------------------------------------------------------------------------
\* One operation: what it makes of the copy it read, and the chain at its read.

\* saveMetadataEntry keeps the type metadata of the schema.
saveJsc(r, s) == [r EXCEPT !.jsc[s] = version[s], !.jscSvc = @ \cup {s}]

\* A VTJSC that is missing or of another version is issued again; one that was
\* detached is announced again (reattachVtjscPublication).
syncSchema(r, s) ==
    IF ~owned \/ version[s] = 0 THEN r
    ELSE IF r.jsc[s] # version[s] THEN saveJsc(r, s)
    ELSE [r EXCEPT !.jscSvc = @ \cup {s}]

\* saveVtjscTypeMetadata: a stored document is never replaced.
saveTypeMetadata(r, s) ==
    IF owned /\ r.jsc[s] # 0 /\ r.tm[s] = 0 THEN [r EXCEPT !.tm[s] = r.jsc[s]] ELSE r

\* Mutant: the entry is dropped with its service.
detachDrops(r) ==
    IF owned THEN r ELSE [r EXCEPT !.jsc = [s \in Schemas |-> 0], !.jscSvc = {}]

\* The services of an ecosystem another DID controls go; the entries stay.
detachVtjscPublications(r) == IF owned THEN r ELSE [r EXCEPT !.jscSvc = {}]

\* The self-issued credentials tagged with a revoked ISSUER go, with their
\* services: of one participant, or at start-up (p = 0) of every revoked one.
withdrawSelfIssuedEcsCredentials(r, p) ==
    IF r.self /\ (IF p = 0 THEN r.tag \in 1..issuers /\ r.tag # issuer ELSE r.tag = p)
    THEN [r EXCEPT !.self = FALSE, !.tag = 0, !.vtcSvc = @ \ {"self"}] ELSE r

\* rebindEcsCredentialSchema, its first write: the presentation and its service.
publishSelfIssuedEcsPresentation(r) ==
    IF issuer = 0 THEN r ELSE [r EXCEPT !.self = TRUE, !.vtcSvc = @ \cup {"self"}]

\* ... and its last one: the ISSUER participant behind it.
tagIssuer(r, p) == IF r.self /\ p # 0 THEN [r EXCEPT !.tag = p] ELSE r

createVtc(r) == [r EXCEPT !.held = TRUE, !.vtcSvc = @ \cup {"holder"}]

removeTrustCredential(r) == [r EXCEPT !.held = FALSE, !.vtcSvc = @ \ {"holder"}]

addServiceEndpoint(r, e) == [r EXCEPT !.custom = @ \cup {e}]
deleteServiceEndpoint(r, e) == [r EXCEPT !.custom = @ \ {e}]

Apply(t, o, r) ==
    CASE o.k = "sync"     -> syncSchema(r, o.x)
      [] o.k = "jsc"      -> IF owned THEN saveJsc(r, o.x) ELSE r
      [] o.k = "tm"       -> saveTypeMetadata(r, o.x)
      [] o.k = "detach"   -> detachVtjscPublications(r)
      [] o.k = "withdraw" -> withdrawSelfIssuedEcsCredentials(r, o.x)
      [] o.k = "rebind"   -> publishSelfIssuedEcsPresentation(r)
      [] o.k = "tag"      -> tagIssuer(r, bound[t])
      [] o.k = "vtc"      -> createVtc(r)
      [] o.k = "remove"   -> removeTrustCredential(r)
      [] o.k = "add"      -> addServiceEndpoint(r, o.x)
      [] o.k = "delete"   -> deleteServiceEndpoint(r, o.x)
      [] OTHER            -> r

-----------------------------------------------------------------------------
\* The steps of a thread.

Done(t) == todo' = [todo EXCEPT ![t] = Tail(@)]

\* getDidRecord, and the work on the copy; an operation that changes nothing
\* does not write, except the issue of a credential.
readRecord(t) ==
    LET o == Head(todo[t])  r == Apply(t, o, rec) IN
    /\ Running(t) /\ copy[t] = NoRec /\ o.k \notin {"pass", "each", "passed", "revoked", "handled"}
    /\ bound' = IF o.k = "rebind" THEN [bound EXCEPT ![t] = issuer] ELSE bound
    /\ IF r = rec /\ o.k \notin {"jsc", "vtc", "rebind"}
       THEN Done(t) /\ UNCHANGED copy
       ELSE copy' = [copy EXCEPT ![t] = r] /\ UNCHANGED todo
    /\ UNCHANGED <<rec, chain, holder, anchored, news, pending, seen, ghost, count>>

\* anchorCredentialDigest, before the self-issued credential is published: the
\* chain takes a new digest from an active ISSUER only.
anchorCredentialDigest(t) ==
    /\ copy[t] # NoRec /\ Head(todo[t]).k = "rebind"
    /\ bound[t] = 0 \/ anchored \/ bound[t] = issuer
    /\ anchored' = (anchored \/ bound[t] # 0)
    /\ todo' = [todo EXCEPT ![t] = <<Op("publish", 0)>> \o Tail(@)]
    /\ UNCHANGED <<rec, chain, holder, news, copy, bound, pending, seen, ghost, count>>

\* Mutant: only a change of the DID document starts the window.
writeDocumentOnly(t) ==
    /\ copy[t] # NoRec /\ Head(todo[t]).k # "rebind"
    /\ rec' = copy[t] /\ copy' = [copy EXCEPT ![t] = NoRec]
    /\ pending' = (pending \/ copy[t].jscSvc # rec.jscSvc \/ copy[t].vtcSvc # rec.vtcSvc)
    /\ Done(t)
    /\ UNCHANGED <<chain, holder, anchored, news, bound, seen, ghost, count>>

\* updateDidRecord, the one write point; a change of the published material
\* (re)starts the window of TriggerResolver.
updateDidRecord(t) ==
    /\ copy[t] # NoRec /\ Head(todo[t]).k # "rebind"
    /\ rec' = copy[t] /\ copy' = [copy EXCEPT ![t] = NoRec]
    /\ pending' = (pending \/ publicationFingerprint(copy[t]) # publicationFingerprint(rec))
    /\ Done(t)
    /\ UNCHANGED <<chain, holder, anchored, news, bound, seen, ghost, count>>

\* An operation that ends without its write is logged, and the program goes
\* on.  A rebinding that was not published does not tag.
giveUp(t) ==
    /\ copy[t] # NoRec /\ copy' = [copy EXCEPT ![t] = NoRec]
    /\ todo' = [todo EXCEPT ![t] = IF Head(@).k \in {"rebind", "publish"} THEN Tail(Tail(@)) ELSE Tail(@)]
    /\ stale' = TRUE
    /\ UNCHANGED <<rec, chain, holder, anchored, news, bound, pending, seen, passed, changes, edits>>

operationFails(t) == faults < MaxFaults /\ faults' = faults + 1 /\ giveUp(t)

\* The chain refuses the digest: the ISSUER participant was revoked meanwhile.
anchorRefused(t) ==
    /\ copy[t] # NoRec /\ Head(todo[t]).k = "rebind" /\ ~anchored /\ bound[t] \notin {0, issuer}
    /\ giveUp(t) /\ UNCHANGED faults

\* The steps that do not write the record.
beginPass(t) ==
    /\ Running(t) /\ Head(todo[t]).k = "pass" /\ Done(t)
    /\ stale' = FALSE /\ passed' = FALSE
    /\ UNCHANGED <<rec, chain, holder, anchored, news, copy, bound, pending, seen, count>>

nextSchema(t) ==
    LET left == Head(todo[t]).x IN
    /\ Running(t) /\ Head(todo[t]).k = "each"
    /\ \/ left = {} /\ Done(t)
       \/ \E s \in left :
             todo' = [todo EXCEPT ![t] =
                 <<Op("sync", s), Op("tm", s), Op("each", left \ {s})>> \o Tail(@)]
    /\ UNCHANGED <<rec, chain, holder, anchored, news, copy, bound, pending, seen, ghost, count>>

endPass(t) ==
    /\ Running(t) /\ Head(todo[t]).k = "passed" /\ Done(t) /\ passed' = TRUE
    /\ UNCHANGED <<rec, chain, holder, anchored, news, copy, bound, pending, seen, stale, count>>

\* setVtFlowRecordsParticipantRevoked: the flow can no longer complete.
flowRevoked(t) ==
    /\ Running(t) /\ Head(todo[t]).k = "revoked" /\ Done(t) /\ holder' = "revoked"
    /\ UNCHANGED <<rec, chain, anchored, news, copy, bound, pending, seen, ghost, count>>

\* The handler returned: the block counts as processed.
notificationHandled(t) ==
    /\ Running(t) /\ Head(todo[t]).k = "handled" /\ Done(t) /\ news' = Tail(news)
    /\ UNCHANGED <<rec, chain, holder, anchored, copy, bound, pending, seen, ghost, count>>

-----------------------------------------------------------------------------
\* What starts a program.

\* Mutant: the revocation only ends the flow.
HandlerFlowOnly(n) ==
    CASE n.k = "CreateNewCredentialSchema"  -> <<Op("jsc", n.x), Op("tm", n.x)>>
      [] n.k = "SetParticipantOPToValidated" -> ReconcilePass
      [] n.k = "RevokeIssuer" -> <<Op("withdraw", n.x)>>
      [] n.k = "RevokeHolder" -> <<Op("revoked", 0)>>

\* dispatch: the default handlers and the self-issuance handlers.
Handler(n) ==
    CASE n.k = "CreateNewCredentialSchema"  -> <<Op("jsc", n.x), Op("tm", n.x)>>
      [] n.k = "SetParticipantOPToValidated" -> ReconcilePass
      [] n.k = "RevokeIssuer" -> <<Op("withdraw", n.x)>>
      [] n.k = "RevokeHolder" -> <<Op("remove", 0), Op("revoked", 0)>>

dispatch ==
    /\ news # <<>> /\ Start("notif", Append(Handler(Head(news)), Op("handled", 0)))
    /\ UNCHANGED <<rec, chain, holder, anchored, news, copy, bound, pending, seen, ghost, count>>

\* onCredentialCompleted, publishCredentialAsLinkedVp.
onCredentialCompleted ==
    /\ holder = "offered" /\ holder' = "completed"
    /\ Start("flow", <<Op("vtc", 0)>>)
    /\ UNCHANGED <<rec, chain, anchored, news, copy, bound, pending, seen, ghost, count>>

\* onCredentialRevoked: the issuer revokes the credential of a completed flow.
onCredentialRevoked ==
    /\ holder = "completed" /\ holder' = "revoked"
    /\ Start("flow", <<Op("remove", 0)>>)
    /\ UNCHANGED <<rec, chain, anchored, news, copy, bound, pending, seen, ghost, count>>

editServiceEndpoints(e) ==
    /\ edits < MaxEdits /\ edits' = edits + 1
    /\ Start("admin", <<Op(IF e \in rec.custom THEN "delete" ELSE "add", e)>>)
    /\ UNCHANGED <<rec, chain, holder, anchored, news, copy, bound, pending, seen, ghost, changes, faults>>

\* scheduleTriggerResolverForOwnDid: the window ends.
sendTrigger ==
    /\ pending /\ pending' = FALSE /\ seen' = publicationFingerprint(rec)
    /\ UNCHANGED <<rec, chain, holder, anchored, news, todo, copy, bound, ghost, count>>

-----------------------------------------------------------------------------
\* The chain.

Change(k, x) ==
    /\ changes < MaxChanges /\ changes' = changes + 1 /\ stale' = TRUE
    /\ news' = IF k = "none" THEN news ELSE Append(news, Op(k, x))
    /\ UNCHANGED <<rec, anchored, todo, copy, bound, pending, seen, passed, faults, edits, holder>>

createSchema(s) ==
    /\ version[s] = 0 /\ version' = [version EXCEPT ![s] = 1]
    /\ Change("CreateNewCredentialSchema", s) /\ UNCHANGED <<owned, issuer, issuers, onChain>>

updateSchema(s) ==
    /\ version[s] # 0 /\ version' = [version EXCEPT ![s] = @ + 1]
    /\ Change("none", 0) /\ UNCHANGED <<owned, issuer, issuers, onChain>>

transferEcosystem ==
    /\ owned' = ~owned /\ Change("none", 0) /\ UNCHANGED <<version, issuer, issuers, onChain>>

validateIssuer ==
    /\ issuer = 0 /\ issuers' = issuers + 1 /\ issuer' = issuers + 1
    /\ Change("SetParticipantOPToValidated", 0) /\ UNCHANGED <<version, owned, onChain>>

revokeIssuer ==
    /\ issuer # 0 /\ issuer' = 0
    /\ Change("RevokeIssuer", issuer) /\ UNCHANGED <<version, owned, issuers, onChain>>

revokeHolder ==
    /\ onChain /\ onChain' = FALSE
    /\ Change("RevokeHolder", 0) /\ UNCHANGED <<version, owned, issuer, issuers>>

\* A crash loses the programs and the window.  The next start reconciles, and
\* the notification in hand is delivered again; a flow publication is not
\* taken up again.
crash ==
    /\ faults < MaxFaults /\ faults' = faults + 1
    /\ copy' = [t \in Threads |-> NoRec] /\ pending' = FALSE
    /\ todo' = [t \in Threads |-> IF t = "startup" THEN ReconcilePass
                                  ELSE <<>>]
    /\ stale' = TRUE /\ passed' = FALSE /\ bound' = [t \in Threads |-> 0]
    /\ UNCHANGED <<rec, chain, holder, anchored, news, seen, changes, edits>>

ThreadStep(t) ==
    \/ readRecord(t) \/ anchorCredentialDigest(t) \/ updateDidRecord(t)
    \/ operationFails(t) \/ anchorRefused(t)
    \/ beginPass(t) \/ nextSchema(t) \/ endPass(t) \/ flowRevoked(t) \/ notificationHandled(t)

Next ==
    \/ \E t \in Threads : ThreadStep(t)
    \/ dispatch \/ onCredentialCompleted \/ onCredentialRevoked \/ sendTrigger
    \/ \E e \in Endpoints : editServiceEndpoints(e)
    \/ \E s \in Schemas : createSchema(s) \/ updateSchema(s)
    \/ transferEcosystem \/ validateIssuer \/ revokeIssuer \/ revokeHolder
    \/ crash

Spec == Init /\ [][Next]_vars

\* The agent runs what it has begun, handles its notifications, and the timer
\* of the window fires.
Fairness ==
    /\ WF_vars(dispatch) /\ WF_vars(sendTrigger)
    /\ \A t \in Threads : WF_vars(ThreadStep(t))

FairSpec == Spec /\ Fairness

-----------------------------------------------------------------------------
TypeOK ==
    /\ rec.jsc \in [Schemas -> Nat] /\ rec.tm \in [Schemas -> Nat]
    /\ rec.jscSvc \subseteq Schemas /\ rec.vtcSvc \subseteq {"holder", "self"}
    /\ rec.custom \subseteq Endpoints /\ rec.tag \in 0..issuers /\ (rec.tag # 0 => rec.self)
    /\ holder \in {"offered", "completed", "revoked"}

Quiet == news = <<>> /\ \A t \in Threads : ~Running(t)

\* Whatever the document announces is served: no linked presentation names an
\* entry that is gone.
AnnouncedIsServed ==
    /\ \A s \in rec.jscSvc : rec.jsc[s] # 0
    /\ "holder" \in rec.vtcSvc => rec.held
    /\ "self" \in rec.vtcSvc => rec.self

\* A revoked HOLDER's credential is gone once its notification is handled
\* (removeHolderTrustCredentialIfRevoked).
RevokedHolderWithdrawn == Quiet /\ ~onChain => ~rec.held

\* A published self-issued credential is backed by the active ISSUER
\* participant: it is bound again to a new one and withdrawn with a revoked one.
SelfIssuedIsBacked == Quiet => (rec.self => issuer # 0 /\ rec.tag = issuer)

\* A reconciliation during which the chain stood still leaves the document
\* announcing the schemas of the controlled ecosystem, and no other.
PassPublishes ==
    passed /\ ~stale =>
        /\ rec.jscSvc = IF owned THEN {s \in Schemas : version[s] # 0} ELSE {}
        /\ \A s \in rec.jscSvc : rec.jsc[s] = version[s] /\ rec.tm[s] # 0

\* A VTJSC that was served stays served, and its type metadata keeps its bytes
\* ([VSA-PUB-VT-5]), however often it is issued again, detached and announced.
ServedStays ==
    [][\A s \in Schemas : /\ rec.jsc[s] # 0 => rec'.jsc[s] # 0
                          /\ rec.tm[s] # 0 => rec'.tm[s] = rec.tm[s]]_vars

\* The resolver is told of every change of the published material in the end
\* ([VSA-VT-LVP-5]), a presentation replaced under its own URL included.
ResolverCatchesUp == <>[](seen = publicationFingerprint(rec))
=============================================================================
