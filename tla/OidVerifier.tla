----------------------------- MODULE OidVerifier -----------------------------
(***************************************************************************)
(* The OpenID4VP verifier: presentation requests, and the trust decision   *)
(* on what a wallet presented.                                             *)
(*                                                                         *)
(* A session is created, tagged with its credential type and answered by   *)
(* the wallet.  Every read of an answered session, and its event, decides  *)
(* whether the presentation is accepted: callers hold a copy of the        *)
(* session, share the decision that runs, and the verdict is stored once.  *)
(* What the steps of the decision look at (DID documents, type metadata,   *)
(* trust resolution, participants) changes while they run.                 *)
(***************************************************************************)
EXTENDS Naturals, Sequences, FiniteSets

CONSTANTS
    Sessions,       \* verification sessions
    Callers,        \* reads and events that run at the same time
    NoCaller,       \* no decision runs
    MaxChanges,     \* bound: changes of the issuer's standing
    MaxUnavailable, \* bound: steps that cannot be completed
    MaxCrashes      \* bound: restarts of the agent

ASSUME SessionsAssumption == Sessions # {}
ASSUME CallersAssumption == NoCaller \notin Callers
ASSUME BoundsAssumption ==
    MaxChanges \in Nat /\ MaxUnavailable \in Nat /\ MaxCrashes \in Nat

\* The steps of decidePresentationTrust, in their order, and what each answers
\* when it does not hold.
Steps == <<"did", "key", "type", "trusted", "authorized">>
Verdict == [i \in 1..Len(Steps) |->
              IF Steps[i] = "authorized" THEN "TRUSTED_NOT_AUTHORIZED" ELSE "UNTRUSTED"]

Final == {"TRUSTED_AUTHORIZED", "UNTRUSTED", "TRUSTED_NOT_AUTHORIZED"}
NoJob == [at |-> 0, verdict |-> "none"]

VARIABLES
    state,      \* per session
    creating,   \* sessions whose createRequest runs
    handed,     \* sessions whose request the caller has
    tagged,     \* sessions that carry their credential type
    stored,     \* per session, the stored verdict
    holds,      \* per session, the steps that hold for what was presented
    held,       \* ghost: the steps that held at some time since the response
    pc,         \* per caller
    copy,       \* per caller, the session it read: id, state, stored verdict
    waits,      \* per caller, whose decision it waits for
    answer,     \* per caller, what it was told
    decisions,  \* per session, the caller whose decision runs
    job,        \* per caller, the decision it runs
    changes, unavailable, crashes

request == <<creating, handed, tagged>>
session == <<state, request, stored>>
world   == <<holds, held>>
caller  == <<pc, copy, waits, answer>>
bounds  == <<changes, unavailable, crashes>>
vars    == <<session, world, caller, decisions, job, bounds>>

Snapshot(s) == [s |-> s, state |-> state[s], stored |-> stored[s]]

AllSteps == {Steps[i] : i \in 1..Len(Steps)}

Init ==
    /\ state = [s \in Sessions |-> "none"]
    /\ creating = {} /\ handed = {} /\ tagged = {}
    /\ stored = [s \in Sessions |-> "none"]
    /\ holds = [s \in Sessions |-> {}] /\ held = [s \in Sessions |-> {}]
    /\ pc = [c \in Callers |-> "idle"]
    /\ copy = [c \in Callers |-> CHOOSE x \in {Snapshot(s) : s \in Sessions} : TRUE]
    /\ waits = [c \in Callers |-> NoCaller] /\ answer = [c \in Callers |-> "none"]
    /\ decisions = [s \in Sessions |-> NoCaller] /\ job = [c \in Callers |-> NoJob]
    /\ changes = 0 /\ unavailable = 0 /\ crashes = 0

-----------------------------------------------------------------------------
\* createRequest: the session exists before it is tagged; the caller has the
\* request for the wallet only after both.
createAuthorizationRequest(s) ==
    /\ state[s] = "none"
    /\ state' = [state EXCEPT ![s] = "RequestCreated"] /\ creating' = creating \cup {s}
    /\ UNCHANGED <<handed, tagged, stored, world, caller, decisions, job, bounds>>

\* The update fails if the session was deleted; then nobody has the request.
tagSession(s) ==
    /\ s \in creating /\ creating' = creating \ {s}
    /\ IF state[s] = "deleted" THEN UNCHANGED <<handed, tagged>>
       ELSE tagged' = tagged \cup {s} /\ handed' = handed \cup {s}
    /\ UNCHANGED <<state, stored, world, caller, decisions, job, bounds>>

\* The wallet answers; credo verifies the response and emits the event.
walletResponds(s) ==
    /\ state[s] = "RequestCreated" /\ s \in handed
    /\ \E next \in {"ResponseVerified", "Error"}, h \in {AllSteps} \cup {AllSteps \ {x} : x \in AllSteps} :
         /\ state' = [state EXCEPT ![s] = next]
         /\ holds' = [holds EXCEPT ![s] = h] /\ held' = [held EXCEPT ![s] = h]
    /\ UNCHANGED <<request, stored, caller, decisions, job, bounds>>

\* What the steps look at changes, except what the credential itself says.
changeWorld(s, x) ==
    /\ changes < MaxChanges /\ changes' = changes + 1
    /\ state[s] = "ResponseVerified" /\ x # "did"
    /\ holds' = [holds EXCEPT ![s] = IF x \in @ THEN @ \ {x} ELSE @ \cup {x}]
    /\ held' = [held EXCEPT ![s] = @ \cup {x}]
    /\ UNCHANGED <<session, caller, decisions, job, unavailable, crashes>>

-----------------------------------------------------------------------------
\* A read or an event, with the copy of the session it has.
findOwnedSession(c, s) ==
    /\ pc[c] \in {"idle", "done"} /\ state[s] \notin {"none", "deleted"}
    /\ pc' = [pc EXCEPT ![c] = "decide"] /\ copy' = [copy EXCEPT ![c] = Snapshot(s)]
    /\ answer' = [answer EXCEPT ![c] = "none"]
    /\ UNCHANGED <<session, world, waits, decisions, job, bounds>>

storedDecision(x) == IF x.state # "ResponseVerified" THEN "UNVERIFIED" ELSE x.stored

\* Mutant: every caller decides for itself.
decideAlone(c) ==
    LET s == copy[c].s IN
    /\ pc[c] = "decide"
    /\ IF storedDecision(copy[c]) # "none"
       THEN /\ pc' = [pc EXCEPT ![c] = "done"]
            /\ answer' = [answer EXCEPT ![c] = storedDecision(copy[c])]
            /\ UNCHANGED <<waits, decisions, job>>
       ELSE /\ pc' = [pc EXCEPT ![c] = "wait"] /\ waits' = [waits EXCEPT ![c] = c]
            /\ job' = [job EXCEPT ![c] = [at |-> 1, verdict |-> "reread"]]
            /\ decisions' = [decisions EXCEPT ![s] = c]
            /\ UNCHANGED answer
    /\ UNCHANGED <<session, world, copy, bounds>>

\* decide: what the copy says, else the decision that runs, else a new one.
decide(c) ==
    LET s == copy[c].s IN
    /\ pc[c] = "decide"
    /\ IF storedDecision(copy[c]) # "none"
       THEN /\ pc' = [pc EXCEPT ![c] = "done"]
            /\ answer' = [answer EXCEPT ![c] = storedDecision(copy[c])]
            /\ UNCHANGED <<waits, decisions, job>>
       ELSE /\ pc' = [pc EXCEPT ![c] = "wait"]
            /\ IF decisions[s] # NoCaller
               THEN waits' = [waits EXCEPT ![c] = decisions[s]] /\ UNCHANGED <<decisions, job>>
               ELSE /\ waits' = [waits EXCEPT ![c] = c]
                    /\ job' = [job EXCEPT ![c] = [at |-> 1, verdict |-> "reread"]]
                    /\ decisions' = [decisions EXCEPT ![s] = c]
            /\ UNCHANGED answer
    /\ UNCHANGED <<session, world, copy, bounds>>

\* The decision ends: everyone who waits for it is told, and it is forgotten.
Settle(c, a) ==
    /\ answer' = [d \in Callers |-> IF pc[d] = "wait" /\ waits[d] = c THEN a ELSE answer[d]]
    /\ pc' = [d \in Callers |-> IF pc[d] = "wait" /\ waits[d] = c THEN "done" ELSE pc[d]]
    /\ waits' = [d \in Callers |-> IF waits[d] = c THEN NoCaller ELSE waits[d]]
    /\ decisions' = [decisions EXCEPT ![copy[c].s] = NoCaller]
    /\ job' = [job EXCEPT ![c] = NoJob]

\* decideAndStore reads the session again: it may be gone, or decided.
reread(c) ==
    LET s == copy[c].s IN
    /\ job[c].verdict = "reread"
    /\ IF state[s] = "deleted" \/ s \notin tagged THEN Settle(c, "error")
       ELSE IF stored[s] # "none" THEN Settle(c, stored[s])
       ELSE /\ job' = [job EXCEPT ![c].verdict = "none"]
            /\ UNCHANGED <<pc, answer, waits, decisions>>
    /\ UNCHANGED <<copy, session, world, bounds>>

\* runSteps: the next step of 2 to 8.
runSteps(c) ==
    LET s == copy[c].s  i == job[c].at IN
    /\ i \in 1..Len(Steps) /\ job[c].verdict = "none"
    /\ job' = IF Steps[i] \in holds[s]
              THEN [job EXCEPT ![c] = [at |-> i + 1,
                     verdict |-> IF i = Len(Steps) THEN "TRUSTED_AUTHORIZED" ELSE "none"]]
              ELSE [job EXCEPT ![c].verdict = Verdict[i]]
    /\ UNCHANGED <<session, world, caller, decisions, bounds>>

\* A step that cannot be completed: a read that fails, times out, or answers
\* INVALID with the code of a failed read.
stepUnavailable(c) ==
    /\ job[c].at > 1 /\ job[c].verdict = "none"
    /\ unavailable < MaxUnavailable /\ unavailable' = unavailable + 1
    /\ job' = [job EXCEPT ![c].verdict = "RESOLVER_UNAVAILABLE"]
    /\ UNCHANGED <<session, world, caller, decisions, changes, crashes>>

\* The verdict is stored, unless a step could not be completed; the update of
\* a session that was deleted fails.
storeDecision(c) ==
    LET s == copy[c].s  v == job[c].verdict IN
    /\ v \in Final \cup {"RESOLVER_UNAVAILABLE"}
    /\ IF v = "RESOLVER_UNAVAILABLE" THEN Settle(c, v) /\ UNCHANGED stored
       ELSE IF state[s] = "deleted" THEN Settle(c, "error") /\ UNCHANGED stored
       ELSE stored' = [stored EXCEPT ![s] = v] /\ Settle(c, v)
    /\ UNCHANGED <<copy, state, request, world, bounds>>

deleteVerificationSession(s) ==
    /\ state[s] \notin {"none", "deleted"}
    /\ state' = [state EXCEPT ![s] = "deleted"]
    /\ UNCHANGED <<request, stored, world, caller, decisions, job, bounds>>

\* A restart loses the callers and the decisions; a session that was not
\* tagged yet stays without its type, and nobody has its request.
crash ==
    /\ crashes < MaxCrashes /\ crashes' = crashes + 1
    /\ pc' = [c \in Callers |-> "idle"] /\ waits' = [c \in Callers |-> NoCaller]
    /\ answer' = [c \in Callers |-> "none"]
    /\ decisions' = [s \in Sessions |-> NoCaller] /\ job' = [c \in Callers |-> NoJob]
    /\ creating' = {}
    /\ UNCHANGED <<state, handed, tagged, stored, world, copy, changes, unavailable>>

DecisionStep(c) == reread(c) \/ runSteps(c) \/ stepUnavailable(c) \/ storeDecision(c)

Next ==
    \/ \E s \in Sessions :
         \/ createAuthorizationRequest(s) \/ tagSession(s) \/ walletResponds(s)
         \/ deleteVerificationSession(s)
         \/ \E x \in AllSteps : changeWorld(s, x)
         \/ \E c \in Callers : findOwnedSession(c, s)
    \/ \E c \in Callers : decide(c) \/ DecisionStep(c)
    \/ crash

Spec == Init /\ [][Next]_vars

\* What the code has started runs on (the reads are bounded by timeouts), and
\* the client reads an answered session again until it has a verdict.
Fairness ==
    /\ \A c \in Callers : WF_vars(decide(c)) /\ WF_vars(DecisionStep(c))
    /\ \A s \in Sessions : WF_vars(\E c \in Callers : findOwnedSession(c, s))

FairSpec == Spec /\ Fairness

-----------------------------------------------------------------------------
SessionStates == {"none", "RequestCreated", "ResponseVerified", "Error", "deleted"}

Jobs == [at : 0..(Len(Steps) + 1),
         verdict : Final \cup {"none", "reread", "RESOLVER_UNAVAILABLE"}]

TypeOK ==
    /\ state \in [Sessions -> SessionStates]
    /\ creating \subseteq Sessions /\ handed \subseteq Sessions /\ tagged \subseteq Sessions
    /\ stored \in [Sessions -> Final \cup {"none"}]
    /\ holds \in [Sessions -> SUBSET AllSteps] /\ held \in [Sessions -> SUBSET AllSteps]
    /\ pc \in [Callers -> {"idle", "decide", "wait", "done"}]
    /\ copy \in [Callers -> [s : Sessions, state : SessionStates,
                             stored : Final \cup {"none"}]]
    /\ waits \in [Callers -> Callers \cup {NoCaller}]
    /\ answer \in [Callers -> Final \cup {"none", "UNVERIFIED", "RESOLVER_UNAVAILABLE",
                                          "error"}]
    /\ decisions \in [Sessions -> Callers \cup {NoCaller}] /\ job \in [Callers -> Jobs]
    /\ changes \in 0..MaxChanges /\ unavailable \in 0..MaxUnavailable
    /\ crashes \in 0..MaxCrashes

\* Everyone who is told a final verdict is told the same one, the one that is
\* stored ([VSA-ADM-OID-PR-GET]: "the verdict is computed once").
AnswersAgree ==
    \A c \in Callers : answer[c] \in Final => answer[c] = stored[copy[c].s]

\* An accepted presentation passed every step: each held at some time since
\* the wallet answered, even if the issuer's standing changed in between.
AcceptedHeld ==
    \A s \in Sessions : /\ holds[s] \subseteq held[s]
                        /\ stored[s] = "TRUSTED_AUTHORIZED" => held[s] = AllSteps

\* A decision always knows which credential type was asked for: a session can
\* be answered only after it was tagged (createRequest, storedRequest).
AnsweredIsTagged ==
    /\ handed \subseteq tagged
    /\ \A s \in Sessions : state[s] = "ResponseVerified" => s \in tagged

\* Only an answered session has a verdict, and what a caller read of one stays
\* true.
Answered(s) == state[s] \in {"ResponseVerified", "deleted"}
CopiesHold ==
    /\ \A s \in Sessions : stored[s] # "none" => Answered(s)
    /\ \A c \in Callers :
        /\ copy[c].state = "ResponseVerified" => Answered(copy[c].s)
        /\ copy[c].stored # "none" => stored[copy[c].s] = copy[c].stored

Runs(c) == job[c] # NoJob

\* decisions: one decision runs per session, that of a caller who waits
\* for it; whoever waits for it has read the same session.
OneDecision ==
    /\ \A c \in Callers : Runs(c) => /\ pc[c] = "wait" /\ waits[c] = c
                                     /\ decisions[copy[c].s] = c
                                     /\ copy[c].state = "ResponseVerified"
    /\ \A s \in Sessions : decisions[s] # NoCaller =>
           Runs(decisions[s]) /\ copy[decisions[s]].s = s
    /\ \A c \in Callers :
        /\ pc[c] = "wait" <=> waits[c] # NoCaller
        /\ waits[c] # NoCaller => Runs(waits[c]) /\ copy[waits[c]].s = copy[c].s

\* decideAndStore: past its second read, the decision of a caller works on a
\* session without a verdict, and the steps behind it held.
DecisionSound ==
    \A c \in Callers : Runs(c) =>
        /\ job[c].at >= 1
        /\ job[c].verdict # "reread" => stored[copy[c].s] = "none"
        /\ job[c].verdict = "TRUSTED_AUTHORIZED" => job[c].at = Len(Steps) + 1
        /\ \A k \in 1..Len(Steps) : k < job[c].at => Steps[k] \in held[copy[c].s]

\* The trust decision is sound for everyone who asks, in whichever order calls,
\* answers, changes of the issuer's standing, deletions and restarts fall.
VerdictInv ==
    /\ TypeOK /\ AnswersAgree /\ AcceptedHeld /\ AnsweredIsTagged
    /\ CopiesHold /\ OneDecision /\ DecisionSound

\* A stored verdict is never replaced, whoever decides again and whatever
\* happened to the issuer meanwhile.
VerdictOnce ==
    [][\A s \in Sessions : stored[s] # "none" => stored'[s] = stored[s]]_vars

\* Once the resolvers answer again, a session that is read again has its
\* verdict: RESOLVER_UNAVAILABLE is never the last word.
Decided ==
    \A s \in Sessions :
        state[s] = "ResponseVerified" ~> (stored[s] \in Final \/ state[s] = "deleted")
=============================================================================
