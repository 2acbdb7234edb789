----------------------------- MODULE EcsBootstrap -----------------------------
(***************************************************************************)
(* EcsBootstrapService: what an agent does at every start to become a      *)
(* Verifiable Service.  It accepts the offers that waited for it, resumes  *)
(* the onboardings that a crash or an unreachable peer interrupted, and    *)
(* then starts the participants it lacks: on its own (standalone) or under *)
(* a parent service (delegated).                                           *)
(*                                                                         *)
(* StartParticipantOP pays a deposit that cannot be taken back, so what    *)
(* matters is what a sequence of interrupted starts leaves on the chain.   *)
(* The participants of the agent are entries of the chain; the bootstrap   *)
(* sees the ones the indexer shows.                                        *)
(***************************************************************************)
EXTENDS Naturals, Sequences, FiniteSets, FiniteSetsExt

CONSTANTS
    Trusted,       \* how many ecosystems TRUSTED_ECS_ECOSYSTEM_DIDS lists
    Modes,         \* values of AGENT_MODE
    Onboarding,    \* issuer onboarding modes of the Service schema
    MaxEntries,    \* bound: participants of the agent
    MaxCrashes,    \* bound: crashes
    MaxFails,      \* bound: transactions and messages that fail
    MaxEvents      \* bound: moves of peers, of the operator and of ecosystems

\* The ecosystems in the order of the list; Unlisted is not on it.
Listed == 1..Trusted
Unlisted == 0
Ecosystems == 0..Trusted
Ids == 1..MaxEntries

VARIABLES
    setting,   \* what the operator configured and the chain offers
    usableEco, \* ecosystems that are active and have both ECS schemas
    parts,     \* the participants of the agent on the chain
    view,      \* the participants the indexer shows
    flow,      \* per participant, its applicant flow
    ready,     \* per participant, the connection of its flow is ready
    handling,  \* offers the running agent is accepting
    pc,        \* the step of run()
    todo,      \* records the running step still goes through
    plan,      \* the transaction the running step decided on, NoPlan if none
    outcome,   \* recordEcsBootstrap
    crashes, fails, events

chainVars == <<parts, view>>
flowVars  == <<flow, ready, handling>>
count     == <<crashes, fails, events>>
vars == <<setting, usableEco, chainVars, flowVars, pc, todo, plan, outcome, count>>

FlowStates == {"none", "or", "offered", "received", "completed", "ended", "error"}

\* isVtFlowTerminalState, of the states that are told apart here.
Terminal(s) == s \in {"ended", "error"}

NoPlan == [tx |-> "none"]
Entry(e, kind, role, val, op) ==
    [eco |-> e, kind |-> kind, role |-> role, val |-> val, op |-> op, live |-> TRUE]

\* The configuration: mode, authorizations, funds, whether the agent controls
\* the ECOSYSTEM root of the credential schema, whether the parent verifies and
\* the ecosystem of the Service schema it issues.
Settings ==
    [mode : Modes, auths : {{}, {"start"}, {"start", "self"}}, funded : BOOLEAN,
     ownRoot : BOOLEAN, onboarding : Onboarding, verified : BOOLEAN, parentEco : Ecosystems]

Init ==
    /\ setting \in Settings
    /\ (setting.mode = "standalone") => setting.verified /\ setting.parentEco = Unlisted
    /\ (setting.mode = "delegated") =>
           setting.onboarding = (CHOOSE o \in Onboarding : TRUE) /\ ~setting.ownRoot
    /\ usableEco = Listed
    /\ parts = <<>> /\ view = <<>>
    /\ flow = [i \in Ids |-> "none"] /\ ready = [i \in Ids |-> FALSE] /\ handling = {}
    /\ pc = "down" /\ todo = {} /\ plan = NoPlan /\ outcome = "pending"
    /\ crashes = 0 /\ fails = 0 /\ events = 0

-----------------------------------------------------------------------------
\* The repair steps.

\* run: records left at CRED_OFFERED; the other loops are filled when they begin.
boot ==
    /\ pc = "down" /\ pc' = "offers" /\ outcome' = "pending"
    /\ todo' = {i \in Ids : flow[i] \in {"offered", "received"}}
    /\ view' = parts
    /\ UNCHANGED <<setting, usableEco, parts, flowVars, plan, count>>

\* startOnboardingProcess on entry i: a running flow on an open connection is
\* left alone, unless its request may not have arrived; a running one is sent
\* again, on a new connection if need be; otherwise a new flow begins.
startOnboardingProcess(i) ==
    /\ flow' = [flow EXCEPT ![i] = IF @ \in {"or", "offered", "received"} THEN @ ELSE "or"]
    /\ ready' = [ready EXCEPT ![i] = TRUE]

\* A request that cannot be sent is logged; the step goes on.
fails_ == fails < MaxFails /\ fails' = fails + 1 /\ UNCHANGED <<flow, ready>>

\* One record of acceptPendingOffers.
acceptPendingOffer(i) ==
    \/ ~ready[i] /\ startOnboardingProcess(i) /\ UNCHANGED fails
    \/ /\ ready[i] /\ flow[i] \in {"offered", "received"}
       /\ flow' = [flow EXCEPT ![i] = "completed"] /\ UNCHANGED <<ready, fails>>
    \/ ready[i] /\ flow[i] \notin {"offered", "received"} /\ UNCHANGED <<flow, ready, fails>>
    \/ fails_

acceptPendingOffers ==
    /\ pc = "offers" /\ todo # {}
    /\ LET i == Min(todo) IN acceptPendingOffer(i) /\ todo' = todo \ {i}
    /\ UNCHANGED <<setting, usableEco, chainVars, handling, pc, plan, outcome, crashes, events>>

\* listParticipants of the agent's DID, those that are PENDING.
beginResume ==
    /\ pc = "offers" /\ todo = {} /\ pc' = "resume"
    /\ todo' = {i \in DOMAIN view : view[i].op = "PENDING" /\ view[i].live}
    /\ UNCHANGED <<setting, usableEco, chainVars, flowVars, plan, outcome, count>>

isSelfValidated(i) == view[i].val = "own"

setParticipantOPToValidated(i) ==
    parts' = IF parts[i].op = "PENDING" /\ parts[i].live
             THEN [parts EXCEPT ![i].op = "VALIDATED"] ELSE parts

\* Mutant: the agent sends a request for an entry that it validates itself.
resumeAsPeer(i) ==
    \/ Terminal(flow[i]) /\ flow[i] # "error" /\ UNCHANGED <<parts, flow, ready, fails>>
    \/ ~(Terminal(flow[i]) /\ flow[i] # "error") /\ startOnboardingProcess(i)
       /\ UNCHANGED <<parts, fails>>
    \/ fails_ /\ UNCHANGED parts

\* One participant: a flow that ended on purpose is left; one the agent
\* validates itself is validated; the others send their request again.
resumeOnboarding(i) ==
    LET ended == Terminal(flow[i]) /\ flow[i] # "error" IN
    \/ ended /\ UNCHANGED <<parts, flow, ready, fails>>
    \/ ~ended /\ isSelfValidated(i) /\ setParticipantOPToValidated(i) /\ UNCHANGED <<flow, ready, fails>>
    \/ ~ended /\ ~isSelfValidated(i) /\ startOnboardingProcess(i) /\ UNCHANGED <<parts, fails>>
    \/ fails_ /\ UNCHANGED parts

resumePendingOnboardings ==
    /\ pc = "resume" /\ todo # {}
    /\ LET i == Min(todo) IN resumeOnboarding(i) /\ todo' = todo \ {i}
    /\ UNCHANGED <<setting, usableEco, view, handling, pc, plan, outcome, crashes, events>>

-----------------------------------------------------------------------------
\* The participants the agent lacks.

\* operatorSkipReason: without authorization or funds nothing is started.
operatorSkips == "start" \notin setting.auths \/ ~setting.funded

\* discoverEcsSchemas: the first ecosystem of the list that is usable.
discoverEcsSchemas ==
    IF usableEco \cap Listed = {} THEN Unlisted ELSE Min(usableEco \cap Listed)

\* Mutant: an entry whose validation is pending does not count.
usableWhenActive(p) == p.live /\ p.op = "VALIDATED"

isUsableParticipant(p) == p.live /\ p.op \in {"PENDING", "VALIDATED"}

existing(e, kind, role) ==
    {i \in DOMAIN view : /\ view[i].eco = e /\ view[i].kind = kind /\ view[i].role = role
                         /\ isUsableParticipant(view[i])}

Step(next, p) == pc' = next /\ plan' = p /\ UNCHANGED outcome
Done(o) == pc' = "done" /\ plan' = NoPlan /\ outcome' = o
Start(e, kind, role, val, then) ==
    [tx |-> "start", entry |-> Entry(e, kind, role, val, "PENDING"), then |-> then]

runMode ==
    /\ pc = "resume" /\ todo = {}
    /\ IF setting.mode = "delegated" THEN Step("delegated", NoPlan)
       ELSE IF operatorSkips THEN Done("completed")
       ELSE IF discoverEcsSchemas = Unlisted THEN Done("failed")
       ELSE Step("holder", NoPlan)
    /\ UNCHANGED <<setting, usableEco, chainVars, flowVars, todo, count>>

\* ensureHolderParticipant, ensureSelfIssuedParticipant.
ensureHolderParticipant ==
    /\ pc = "holder"
    /\ LET e == discoverEcsSchemas
           role == IF setting.ownRoot THEN "ISSUER" ELSE "HOLDER"
           val == IF setting.ownRoot THEN "own" ELSE "peer" IN
       IF e = Unlisted THEN Done("failed")
       ELSE IF existing(e, "credential", role) # {} THEN Step("service", NoPlan)
       ELSE Step("submit", Start(e, "credential", role, val,
                                 IF setting.ownRoot THEN "validate" ELSE "service"))
    /\ UNCHANGED <<setting, usableEco, chainVars, flowVars, todo, count>>

\* ensureServiceIssuer: the onboarding mode of the schema decides.
ensureServiceIssuer ==
    /\ pc = "service"
    /\ LET e == discoverEcsSchemas IN
       IF e = Unlisted THEN Done("failed")
       ELSE IF existing(e, "service", "ISSUER") # {} THEN Done("completed")
       ELSE IF setting.onboarding = "OPEN"
            THEN IF "self" \notin setting.auths THEN Done("failed")
                 ELSE Step("submit", [tx |-> "selfCreate", then |-> "done",
                                      entry |-> Entry(e, "service", "ISSUER", "peer", "VALIDATED")])
       ELSE Step("submit", Start(e, "service", "ISSUER", "peer", "done"))
    /\ UNCHANGED <<setting, usableEco, chainVars, flowVars, todo, count>>

\* runDelegated: the parent must verify and issue the Service schema of a
\* listed ecosystem, and be the validator of an entry that exists.
runDelegated ==
    /\ pc = "delegated"
    /\ LET e == setting.parentEco
           own == existing(e, "service", "HOLDER") IN
       IF ~setting.verified \/ e \notin usableEco THEN Done("failed")
       ELSE IF own # {} THEN Done(IF view[Min(own)].val = "parent" THEN "completed" ELSE "failed")
       ELSE IF operatorSkips THEN Done("completed")
       ELSE Step("submit", Start(e, "service", "HOLDER", "parent", "done"))
    /\ UNCHANGED <<setting, usableEco, chainVars, flowVars, todo, count>>

\* broadcastMsg: the entry is on the chain, or the bootstrap fails.
submit ==
    /\ pc = "submit"
    /\ \/ /\ Len(parts) < MaxEntries /\ parts' = Append(parts, plan.entry)
          /\ pc' = plan.then
          /\ outcome' = IF plan.then = "done" THEN "completed" ELSE outcome
          /\ UNCHANGED fails
       \/ fails < MaxFails /\ fails' = fails + 1 /\ Done("failed") /\ UNCHANGED parts
    /\ plan' = NoPlan
    /\ UNCHANGED <<setting, usableEco, view, flowVars, todo, crashes, events>>

\* The second transaction of ensureSelfIssuedParticipant, on the entry it started.
validateOwn ==
    /\ pc = "validate" /\ UNCHANGED plan
    /\ \/ setParticipantOPToValidated(Max({i \in DOMAIN parts : parts[i].val = "own"}))
          /\ pc' = "service" /\ UNCHANGED <<outcome, fails>>
       \/ fails < MaxFails /\ fails' = fails + 1 /\ pc' = "done" /\ outcome' = "failed"
          /\ UNCHANGED parts
    /\ UNCHANGED <<setting, usableEco, view, flowVars, todo, crashes, events>>

-----------------------------------------------------------------------------
\* The rest of the running agent, and its environment.

\* The indexer shows an entry; the agent, told of StartParticipantOP, sends its
\* request.  A failure is logged, and the notification does not come again.
startParticipantOPAutoFlow ==
    /\ pc # "down" /\ Len(view) < Len(parts)
    /\ view' = SubSeq(parts, 1, Len(view) + 1)
    /\ LET i == Len(view) + 1 IN
       \/ parts[i].op = "PENDING" /\ parts[i].val # "own" /\ startOnboardingProcess(i) /\ UNCHANGED fails
       \/ (parts[i].op # "PENDING" \/ parts[i].val = "own") /\ UNCHANGED <<flow, ready, fails>>
       \/ fails_
    /\ UNCHANGED <<setting, usableEco, parts, handling, pc, todo, plan, outcome, crashes, events>>

Event == events < MaxEvents /\ events' = events + 1

\* The validator offers, ends the flow, or reports a problem; a live offer is
\* taken up by the auto-accept pipeline.
peerAnswers(i) ==
    /\ pc # "down" /\ Event /\ flow[i] = "or"
    /\ \E s \in {"offered", "ended", "error"} :
           /\ flow' = [flow EXCEPT ![i] = s]
           /\ handling' = IF s = "offered" THEN handling \cup {i} ELSE handling
    /\ UNCHANGED <<setting, usableEco, chainVars, ready, pc, todo, plan, outcome, crashes, fails>>

\* autoAcceptCredentialOffer: the request, then the verified credential.
autoAccept(i) ==
    /\ pc # "down" /\ i \in handling
    /\ flow' = [flow EXCEPT ![i] = IF @ = "offered" THEN "received" ELSE IF @ = "received" THEN "completed" ELSE @]
    /\ handling' = IF flow[i] = "offered" THEN handling ELSE handling \ {i}
    /\ UNCHANGED <<setting, usableEco, chainVars, ready, pc, todo, plan, outcome, count>>

\* The validator sets an entry to validated; an entry is revoked or expires.
chainMoves(i) ==
    /\ Event /\ i \in DOMAIN parts /\ parts[i].live
    /\ \/ parts[i].op = "PENDING" /\ parts[i].val # "own" /\ parts' = [parts EXCEPT ![i].op = "VALIDATED"]
       \/ parts' = [parts EXCEPT ![i].live = FALSE]
    /\ view' = SubSeq(parts', 1, Len(view))
    /\ UNCHANGED <<setting, usableEco, flowVars, pc, todo, plan, outcome, crashes, fails>>

\* The operator provisions an entry out of band, before the agent starts one.
provision ==
    /\ Event /\ pc \in {"down", "done"} /\ Len(parts) < MaxEntries
    /\ \E val \in {"peer", "parent"} :
         LET e == IF setting.mode = "delegated" THEN setting.parentEco ELSE discoverEcsSchemas
             k == IF setting.mode = "delegated" THEN "service" ELSE "credential"
         IN  /\ e # Unlisted
             /\ ~\E i \in DOMAIN parts : parts[i].eco = e /\ parts[i].kind = k /\ isUsableParticipant(parts[i])
             /\ parts' = Append(parts, Entry(e, k, "HOLDER", val, "PENDING"))
    /\ UNCHANGED <<setting, usableEco, view, flowVars, pc, todo, plan, outcome, crashes, fails>>

archiveEcosystem(e) ==
    /\ Event /\ e \in usableEco /\ usableEco' = usableEco \ {e}
    /\ UNCHANGED <<setting, chainVars, flowVars, pc, todo, plan, outcome, crashes, fails>>

loseConnection(i) ==
    /\ Event /\ ready[i] /\ ready' = [ready EXCEPT ![i] = FALSE]
    /\ UNCHANGED <<setting, usableEco, chainVars, flow, handling, pc, todo, plan, outcome, crashes, fails>>

\* The process ends.  What it was told of and did not finish is lost; the
\* indexer has caught up when it starts again.
crash ==
    /\ pc # "down" /\ crashes < MaxCrashes /\ crashes' = crashes + 1
    /\ pc' = "down" /\ todo' = {} /\ plan' = NoPlan /\ handling' = {}
    /\ UNCHANGED <<setting, usableEco, chainVars, flow, ready, outcome, fails, events>>

Bootstrap ==
    \/ boot \/ acceptPendingOffers \/ beginResume \/ resumePendingOnboardings
    \/ runMode \/ ensureHolderParticipant \/ ensureServiceIssuer \/ runDelegated
    \/ submit \/ validateOwn

Next ==
    \/ Bootstrap \/ startParticipantOPAutoFlow
    \/ \E i \in Ids : peerAnswers(i) \/ autoAccept(i) \/ chainMoves(i) \/ loseConnection(i)
    \/ provision \/ \E e \in Ecosystems : archiveEcosystem(e)
    \/ crash

Spec == Init /\ [][Next]_vars

\* The orchestrator restarts a process that ended; run() goes on step by step,
\* and the auto-accept pipeline answers what it received.
Fairness ==
    /\ WF_vars(Bootstrap) /\ WF_vars(startParticipantOPAutoFlow)
    /\ \A i \in Ids : WF_vars(autoAccept(i))

FairSpec == Spec /\ Fairness

-----------------------------------------------------------------------------
TypeOK ==
    /\ setting \in Settings /\ usableEco \subseteq Ecosystems
    /\ Len(view) <= Len(parts) /\ Len(parts) <= MaxEntries
    /\ \A i \in DOMAIN parts : parts[i].op \in {"PENDING", "VALIDATED"} /\ parts[i].live \in BOOLEAN
    /\ flow \in [Ids -> FlowStates] /\ ready \in [Ids -> BOOLEAN] /\ handling \subseteq Ids
    /\ pc \in {"down", "offers", "resume", "holder", "service", "delegated", "submit", "validate", "done"}
    /\ todo \subseteq Ids /\ outcome \in {"pending", "completed", "failed"}
    /\ (plan # NoPlan) = (pc = "submit")

\* isUsableParticipant: "StartParticipantOP pays a trust deposit, and it cannot
\* be undone".  Whatever is interrupted and restarted, the agent never holds two
\* entries of one role for one schema that could both become active.
OneEntry ==
    \A i, j \in DOMAIN parts :
        (/\ parts[i].eco = parts[j].eco /\ parts[i].kind = parts[j].kind
         /\ parts[i].role = parts[j].role
         /\ isUsableParticipant(parts[i]) /\ isUsableParticipant(parts[j])) => i = j

\* resumeOnboarding: a flow that a peer ended on purpose is not an
\* interruption, and no later start of the agent begins it again.
EndedStays == [][\A i \in Ids : flow[i] = "ended" => flow'[i] = "ended"]_vars

\* ensureSelfIssuedParticipant: an entry the agent validates itself is validated
\* in the end, also when the agent stopped between its two transactions, as long
\* as no transaction fails after the last restart.
SelfValidates ==
    \A i \in Ids :
        (pc = "offers" /\ fails = MaxFails /\ i \in DOMAIN view /\ view[i].val = "own")
            ~> (i \notin DOMAIN parts \/ parts[i].op = "VALIDATED" \/ ~parts[i].live \/ pc = "down")

\* resumePendingOnboardings: "at startup it sends the onboarding request again
\* for every PENDING participant".  If the peers can be reached when a start
\* begins, every entry that is still PENDING then has a running or ended flow.
ResumedAtBoot ==
    \A i \in Ids :
        (pc = "offers" /\ fails = MaxFails /\ i \in DOMAIN view /\ view[i].val # "own"
           /\ view[i].op = "PENDING" /\ view[i].live)
            ~> (flow[i] \notin {"none", "error"} \/ i \notin DOMAIN parts \/ parts[i].op # "PENDING"
                  \/ ~parts[i].live \/ pc = "down")

\* acceptPendingOffers: an offer, or a credential, that waited while the agent
\* was down is answered, or asked for again on a connection that works.
OffersRedriven ==
    \A i \in Ids :
        (pc = "offers" /\ i \in todo /\ fails = MaxFails /\ ready[i])
            ~> (flow[i] \notin {"offered", "received"} \/ ~ready[i] \/ pc = "down")
=============================================================================
