------------------------------ MODULE OidIssuer ------------------------------
(***************************************************************************)
(* Initialization of the two OpenID4VC capabilities, issuer and verifier,  *)
(* and the credential configurations that the issuer advertises.           *)
(*                                                                         *)
(* Nest starts both capabilities at once.  Each loads or creates its       *)
(* development certificate, publishes its key in the one DID document of   *)
(* the agent and checks that the key is bound.  The issuer then derives    *)
(* its configurations from the chain, and derives them again on every      *)
(* notification; derivations run one after the other.  A configuration is  *)
(* a credential type; a certificate is a number.                           *)
(***************************************************************************)
EXTENDS Naturals, Sequences, FiniteSets

CONSTANTS
    Types,        \* credential types
    Demo,         \* AGENT_UNSAFE_SKIP_OWN_AUTHORIZATION
    Faults,       \* reads and writes can fail
    MaxChanges,   \* bound: changes of the ISSUER participants on the chain
    MaxRestarts   \* bound: restarts

Roles == {"issuer", "verifier"}

VARIABLES
    pc,        \* per role, how far initialization is
    record,    \* per role, the stored development certificate, 0 if none
    cert,      \* per role, the certificate loaded
    doc,       \* per role, the key in the DID document
    lock,      \* whose publication runs, and the document it read
    accredited,\* types the chain lets the agent issue
    news,      \* notifications not handled yet
    options,   \* options.credentialConfigurations
    metadata,  \* the configurations in the stored issuer record
    extra,     \* unaccreditedConfigurations
    queue,     \* replacements that wait, each with its caller
    derived,   \* what the running replacement derived
    changes, restarts

init   == <<pc, record, cert, doc, lock>>
derive == <<options, metadata, extra, queue, derived>>
bounds == <<changes, restarts>>
vars   == <<init, accredited, news, derive, bounds>>

Idle == [by |-> "none", set |-> {}, render |-> FALSE]
Free == [by |-> "none", read |-> [r \in Roles |-> 0]]

Init ==
    /\ pc = [r \in Roles |-> "start"] /\ record = [r \in Roles |-> 0]
    /\ cert = [r \in Roles |-> 0] /\ doc = [r \in Roles |-> 0] /\ lock = Free
    /\ accredited \in SUBSET Types /\ news = 0
    /\ options = {} /\ metadata = {} /\ extra = {} /\ queue = <<>> /\ derived = Idle
    /\ changes = 0 /\ restarts = 0

Goto(r, s) == pc' = [pc EXCEPT ![r] = s]

\* A failed initialization is forgotten, and the next call starts again.
Fail(r) == Faults /\ Goto(r, "start")

-----------------------------------------------------------------------------
\* initialize, for one role.

\* loadSigningCertificate: the stored certificate, or a new one when there is
\* none or it is no longer usable.
loadSigningCertificate(r) ==
    /\ pc[r] = "start"
    /\ \E c \in {record[r], record[r] + 1} :
         /\ c # 0 /\ c <= restarts + 1
         /\ cert' = [cert EXCEPT ![r] = c] /\ record' = [record EXCEPT ![r] = c]
    /\ Goto(r, "publish")
    /\ UNCHANGED <<doc, lock, accredited, news, derive, bounds>>

\* publishDevelopmentSigningKey waits for the publication before it, reads the
\* DID document, and is done if the key is there.
publishRead(r) ==
    /\ pc[r] = "publish" /\ lock = Free
    /\ \/ doc[r] = cert[r] /\ Goto(r, "bind") /\ UNCHANGED lock
       \/ doc[r] # cert[r] /\ Goto(r, "write") /\ lock' = [by |-> r, read |-> doc]
       \/ Fail(r) /\ UNCHANGED lock
    /\ UNCHANGED <<record, cert, doc, accredited, news, derive, bounds>>

\* Mutant: the document is written with this key only.
publishWriteOwnKey(r) ==
    /\ pc[r] = "write"
    /\ lock' = Free
    /\ doc' = [q \in Roles |-> IF q = r THEN cert[r] ELSE 0] /\ Goto(r, "bind")
    /\ UNCHANGED <<record, cert, accredited, news, derive, bounds>>

\* ... and writes the document it read with the key in it.
publishWrite(r) ==
    /\ pc[r] = "write"
    /\ lock' = Free
    /\ \/ doc' = [lock.read EXCEPT ![r] = cert[r]] /\ Goto(r, "bind")
       \/ Fail(r) /\ UNCHANGED doc
    /\ UNCHANGED <<record, cert, accredited, news, derive, bounds>>

\* verifyKeyBoundToDid, then the issuer's first derivation is queued; the
\* types of the sessions that exist are added again in demo mode.
verifyKeyBoundToDid(r) ==
    /\ pc[r] = "bind"
    /\ \/ /\ doc[r] = cert[r]
          /\ Goto(r, IF r = "issuer" THEN "render" ELSE "ready")
          /\ queue' = IF r = "issuer" THEN Append(queue, "initialize") ELSE queue
       \/ (doc[r] # cert[r] \/ Faults) /\ Goto(r, "start") /\ UNCHANGED queue
    /\ UNCHANGED <<record, cert, doc, lock, accredited, news, options, metadata, extra,
                   derived, bounds>>

-----------------------------------------------------------------------------
\* The configurations.

\* The signing certificate is set from the end of the key check on.
Signing == pc["issuer"] \in {"render", "ready"}

\* Mutant: a notification is dropped while an initialization runs.
refreshWhenReady ==
    /\ news > 0 /\ news' = news - 1
    /\ queue' = IF pc["issuer"] = "ready" THEN Append(queue, "refresh") ELSE queue
    /\ UNCHANGED <<init, accredited, options, metadata, extra, derived, bounds>>

\* The wrapped handlers call refreshCredentialConfigurations, which leaves an
\* issuer without a certificate alone.
refreshCredentialConfigurations ==
    /\ news > 0 /\ news' = news - 1
    /\ queue' = IF Signing THEN Append(queue, "refresh") ELSE queue
    /\ UNCHANGED <<init, accredited, options, metadata, extra, derived, bounds>>

\* buildCredentialConfigurations: a type that cannot be read is left out; when
\* the participants cannot be read the last known set stays.
buildCredentialConfigurations ==
    {accredited} \cup (IF Faults THEN (SUBSET accredited) \cup {options} ELSE {})

\* The first half of deriveAndRender, one replacement at a time.
deriveCredentialConfigurations ==
    /\ derived = Idle /\ queue # <<>>
    /\ queue' = Tail(queue)
    /\ \E s \in buildCredentialConfigurations :
         derived' = IF Signing
                    THEN [by |-> Head(queue), set |-> s \cup extra,
                          render |-> Head(queue) # "refresh" \/ s \cup extra # options]
                    ELSE Idle
    /\ UNCHANGED <<init, accredited, news, options, metadata, extra, bounds>>

InitEnds(ok) ==
    pc' = IF derived.by = "initialize"
          THEN [pc EXCEPT !["issuer"] = IF ok THEN "ready" ELSE "start"] ELSE pc

\* The second half: createOrUpdateIssuer, and the previous set if it fails.
createOrUpdateIssuer ==
    /\ derived # Idle /\ derived' = Idle
    /\ \/ /\ options' = derived.set
          /\ metadata' = IF derived.render THEN derived.set ELSE metadata
          /\ InitEnds(TRUE)
       \/ Faults /\ derived.render /\ InitEnds(FALSE) /\ UNCHANGED <<options, metadata>>
    /\ UNCHANGED <<record, cert, doc, lock, accredited, news, extra, queue, bounds>>

\* createOffer of a type that is not advertised, in demo mode.
addUnaccreditedConfiguration(t) ==
    /\ Demo /\ pc["issuer"] = "ready" /\ t \notin options \cup extra
    /\ extra' = extra \cup {t} /\ queue' = Append(queue, "offer")
    /\ UNCHANGED <<init, accredited, news, options, metadata, derived, bounds>>

-----------------------------------------------------------------------------
\* A change of the agent's ISSUER participants, with its notification.
changeParticipants ==
    /\ changes < MaxChanges /\ changes' = changes + 1
    /\ \E t \in Types : accredited' = IF t \in accredited THEN accredited \ {t}
                                      ELSE accredited \cup {t}
    /\ news' = news + 1
    /\ UNCHANGED <<init, derive, restarts>>

\* A restart keeps what is stored: certificates, document, issuer record, and
\* the sessions whose types demo mode restores.
restart ==
    /\ restarts < MaxRestarts /\ restarts' = restarts + 1
    /\ pc' = [r \in Roles |-> "start"] /\ cert' = [r \in Roles |-> 0] /\ lock' = Free
    /\ news' = 0 /\ options' = {} /\ queue' = <<>> /\ derived' = Idle
    /\ UNCHANGED <<record, doc, accredited, metadata, extra, changes>>

InitStep(r) ==
    \/ loadSigningCertificate(r) \/ publishRead(r) \/ publishWrite(r)
    \/ verifyKeyBoundToDid(r)

DeriveStep == deriveCredentialConfigurations \/ createOrUpdateIssuer

Next ==
    \/ \E r \in Roles : InitStep(r)
    \/ refreshCredentialConfigurations \/ DeriveStep
    \/ \E t \in Types : addUnaccreditedConfiguration(t)
    \/ changeParticipants \/ restart

Spec == Init /\ [][Next]_vars

\* The code runs what it has started, and handles its notifications.
Fairness ==
    /\ \A r \in Roles : WF_vars(InitStep(r))
    /\ WF_vars(DeriveStep) /\ WF_vars(refreshCredentialConfigurations)

FairSpec == Spec /\ Fairness

-----------------------------------------------------------------------------
TypeOK ==
    /\ pc \in [Roles -> {"start", "publish", "write", "bind", "render", "ready"}]
    /\ record \in [Roles -> Nat] /\ cert \in [Roles -> Nat] /\ doc \in [Roles -> Nat]
    /\ lock.by \in Roles \cup {"none"} /\ lock.read \in [Roles -> Nat]
    /\ \A r \in Roles : pc[r] = "write" <=> lock.by = r
    /\ options \subseteq Types /\ metadata \subseteq Types /\ extra \subseteq Types
    /\ queue \in Seq({"initialize", "refresh", "offer"}) /\ derived.set \subseteq Types

\* Both keys stay in the DID document once their capability is ready
\* (publishDevelopmentSigningKey: "two capabilities publishing into one DID
\* document would each drop the verification method the other added").
ReadyKeyPublished == \A r \in Roles : pc[r] = "ready" => doc[r] = cert[r]

\* Between two replacements the issuer redeems exactly what it advertises:
\* a failed update of the stored issuer takes the options back.
AdvertisedIsServed ==
    (pc["issuer"] = "ready" /\ derived = Idle) => metadata = options

\* Without failures the advertised types end up the accredited ones (with the
\* ones of demo mode), wherever notifications fall in an initialization.
Converges == <>[](metadata = accredited \cup extra /\ options = metadata)
=============================================================================
