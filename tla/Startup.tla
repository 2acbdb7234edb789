------------------------------- MODULE Startup -------------------------------
(***************************************************************************)
(* The start-up of the agent process (main.ts), the bootstrap steps behind *)
(* its liveness and readiness probes (BootstrapState.ts), the retries of   *)
(* the service-id migration (runWithRetries.ts) and the platform that      *)
(* restarts a process that ended or is not live (charts/vs-agent).         *)
(* What the indexer subscription does in detail is module IndexerSync; it  *)
(* is here only the status that the probe reads.                           *)
(***************************************************************************)
EXTENDS Naturals

CONSTANTS
    MaxAttempts,     \* VTJSC_MIGRATION_MAX_ATTEMPTS
    Overlap,         \* an attempt may last longer than the retry interval
    MaxFailures,     \* bound: failures of the world
    AttemptCap       \* bound: attempts of one process

VARIABLES
    pc,              \* where run() stands
    steps,           \* BootstrapState.steps
    listening,       \* the admin API listens
    attempt,         \* attempts of the migration that were started
    inFlight,        \* attempts that have not ended
    retry,           \* the interval of runWithRetries is set
    sync,            \* the watched syncStatus, "none" before watchIndexer
    everSynced,      \* a catch-up of this process ended
    ecs,             \* BootstrapState.ecsBootstrap
    webhook,         \* the listeners of the webhook are registered
    migrated,        \* persisted: the migration was stored
    posted,          \* ghost: no event went without a listener
    failures         \* counts the failures of the world

progress == <<attempt, inFlight, retry>>
indexer == <<sync, everSynced>>
vars == <<pc, steps, listening, progress, indexer, ecs, webhook, migrated, posted, failures>>

Migration == "vtjsc-service-id-migration"
Subscription == "indexer-subscription"
StepNames == {Migration, Subscription}
StepStates == {"none", "pending", "completed", "failed"}

Init ==
    /\ pc = "config" /\ steps = [s \in StepNames |-> "none"] /\ listening = FALSE
    /\ attempt = 0 /\ inFlight = 0 /\ retry = FALSE
    /\ sync = "none" /\ everSynced = FALSE /\ ecs = "none" /\ webhook = FALSE
    /\ migrated = FALSE /\ posted = TRUE /\ failures = 0

-----------------------------------------------------------------------------
\* The probes.

\* BootstrapState.liveness: a failed step, and nothing else, ends it.
liveness == \A s \in StepNames : steps[s] # "failed"

\* BootstrapState.readiness: every required step over, and the watched
\* subscription neither before nor in a catch-up.
readiness ==
    /\ \A s \in StepNames : steps[s] \notin {"pending", "failed"}
    /\ sync \notin {"never-synced", "catching-up"}

-----------------------------------------------------------------------------
\* run(): the parts before the servers. Each may throw, which ends the process.

fails == failures < MaxFailures /\ failures' = failures + 1

\* Invalid configuration, a chain or a wallet that does not answer.
throws ==
    /\ pc \in {"config", "chain", "agent", "servers"} /\ fails
    /\ pc' = "exited"
    /\ UNCHANGED <<steps, listening, progress, indexer, ecs, webhook, migrated, posted>>

\* The configuration is complete.
readConfig ==
    /\ pc = "config" /\ pc' = "chain"
    /\ UNCHANGED <<steps, listening, progress, indexer, ecs, webhook, migrated, posted, failures>>

\* The chain client is connected; the authorization cache is seeded, or its
\* retry goes on beside (module Authorization).
startChain ==
    /\ pc = "chain" /\ pc' = "agent"
    /\ UNCHANGED <<steps, listening, progress, indexer, ecs, webhook, migrated, posted, failures>>

\* Mutant: the steps are required only when their work begins.
requireLater ==
    /\ pc = "agent" /\ pc' = "servers"
    /\ UNCHANGED <<steps, listening, progress, indexer, ecs, webhook, migrated, posted, failures>>

\* setupAgent, and then both steps are required before any server listens.
\* A configuration that passes always names a public DID, so no step is left out.
setupAgent ==
    /\ pc = "agent" /\ pc' = "servers"
    /\ steps' = [s \in StepNames |-> "pending"]
    /\ UNCHANGED <<listening, progress, indexer, ecs, webhook, migrated, posted, failures>>

\* Both APIs listen and the inbound transports are started; DIDComm over the
\* WebSocket still waits for the upgrade handler.
startServers ==
    /\ pc = "servers" /\ listening' = TRUE
    /\ pc' = "migrate"
    /\ UNCHANGED <<steps, progress, indexer, ecs, webhook, migrated, posted, failures>>

-----------------------------------------------------------------------------
\* runWithRetries for the migration: run() waits for the first attempt only.

attemptOnce(toPc) ==
    /\ attempt' = attempt + 1 /\ inFlight' = inFlight + 1 /\ pc' = toPc
    /\ UNCHANGED <<steps, listening, retry, indexer, ecs, webhook, migrated, posted, failures>>

firstAttempt == pc = "migrate" /\ attemptOnce("migrating")

\* The interval fires, whatever the attempts before it do.
intervalFires ==
    /\ retry /\ attempt < AttemptCap /\ (Overlap \/ inFlight = 0)
    /\ attemptOnce(pc)

\* BootstrapState.complete and fail.
complete(s) == steps' = [steps EXCEPT ![s] = "completed"]

fail(s) == steps' = [steps EXCEPT ![s] = "failed"]

AfterFirst == IF pc = "migrating" THEN "events" ELSE pc

attemptSucceeds ==
    /\ inFlight > 0 /\ inFlight' = inFlight - 1
    /\ complete(Migration) /\ migrated' = TRUE /\ retry' = FALSE /\ pc' = AfterFirst
    /\ UNCHANGED <<listening, attempt, indexer, ecs, webhook, posted, failures>>

\* Mutant: giving up does not clear the interval.
attemptFailsOn ==
    /\ inFlight > 0 /\ fails /\ inFlight' = inFlight - 1
    /\ IF attempt >= MaxAttempts THEN fail(Migration) ELSE UNCHANGED steps
    /\ retry' = (retry \/ pc = "migrating")
    /\ pc' = AfterFirst
    /\ UNCHANGED <<listening, attempt, indexer, ecs, webhook, migrated, posted>>

\* The last attempt gives up; the count is the one of all attempts.
attemptFails ==
    /\ inFlight > 0 /\ fails /\ inFlight' = inFlight - 1
    /\ IF attempt >= MaxAttempts
       THEN fail(Migration) /\ retry' = FALSE
       ELSE retry' = (retry \/ pc = "migrating") /\ UNCHANGED steps
    /\ pc' = AfterFirst
    /\ UNCHANGED <<listening, attempt, indexer, ecs, webhook, migrated, posted>>

-----------------------------------------------------------------------------
\* The listeners of events, then the subscription.

\* webhookEvent and registerNestPluginEvents.
registerEvents ==
    /\ pc = "events" /\ pc' = "indexer" /\ webhook' = TRUE
    /\ UNCHANGED <<steps, listening, progress, indexer, ecs, migrated, posted, failures>>

\* The step is complete once the probe watches the subscription: from then
\* on syncStatus is what keeps the agent from being ready.
subscribe ==
    /\ pc = "indexer"
    /\ complete(Subscription) /\ sync' = "never-synced" /\ pc' = "starting"
    /\ UNCHANGED <<listening, progress, everSynced, ecs, webhook, migrated, posted, failures>>

\* connect() begins a catch-up; it ends, or the connection drops and is made
\* again (IndexerSync has the detail; its status is all that is read here).
indexerSteps ==
    /\ pc \in {"starting", "ecs", "running"}
    /\ \/ sync \in {"never-synced", "disconnected"} /\ sync' = "catching-up" /\ UNCHANGED <<everSynced, failures>>
       \/ sync = "catching-up" /\ sync' = "synced" /\ everSynced' = TRUE /\ UNCHANGED failures
    /\ UNCHANGED <<pc, steps, listening, progress, ecs, webhook, migrated, posted>>

indexerDrops ==
    /\ sync \in {"catching-up", "synced"} /\ fails
    /\ sync' = IF everSynced THEN "disconnected" ELSE "never-synced"
    /\ UNCHANGED <<pc, steps, listening, progress, everSynced, ecs, webhook, migrated, posted>>

\* start() returns after the first connection, caught up or dropped; the ECS
\* bootstrap is started beside, and DIDComm is accepted.
startReturns ==
    /\ pc = "starting" /\ sync \in {"synced", "never-synced", "disconnected"} /\ pc' = "ecs"
    /\ UNCHANGED <<steps, listening, progress, indexer, ecs, webhook, migrated, posted, failures>>

runEcsBootstrap ==
    /\ pc = "ecs" /\ ecs' = "pending" /\ pc' = "running"
    /\ UNCHANGED <<steps, listening, progress, indexer, webhook, migrated, posted, failures>>

ecsBootstrapEnds ==
    /\ ecs = "pending"
    /\ \/ ecs' = "completed" /\ UNCHANGED failures
       \/ ecs' = "failed" /\ fails
    /\ UNCHANGED <<pc, steps, listening, progress, indexer, webhook, migrated, posted>>

-----------------------------------------------------------------------------
\* An admin request makes an event.
adminEvent ==
    /\ listening /\ posted' = (posted /\ webhook)
    /\ UNCHANGED <<pc, steps, listening, progress, indexer, ecs, webhook, migrated, failures>>

\* The platform restarts a process that ended, or whose liveness probe fails.
restart ==
    /\ pc = "exited" \/ (listening /\ ~liveness)
    /\ pc' = "config" /\ steps' = [s \in StepNames |-> "none"] /\ listening' = FALSE
    /\ attempt' = 0 /\ inFlight' = 0 /\ retry' = FALSE
    /\ sync' = "none" /\ everSynced' = FALSE /\ ecs' = "none" /\ webhook' = FALSE
    /\ UNCHANGED <<migrated, posted, failures>>

starts == readConfig \/ startChain \/ setupAgent \/ startServers \/ registerEvents \/ subscribe \/ startReturns
          \/ runEcsBootstrap

Next ==
    \/ starts \/ throws \/ firstAttempt \/ intervalFires \/ attemptSucceeds \/ attemptFails
    \/ indexerSteps \/ indexerDrops \/ ecsBootstrapEnds \/ adminEvent \/ restart

Spec == Init /\ [][Next]_vars

\* run() goes on, timers fire, an attempt ends, the indexer answers in the
\* end and the platform restarts.
Fairness ==
    /\ WF_vars(starts) /\ WF_vars(firstAttempt) /\ WF_vars(intervalFires)
    /\ WF_vars(attemptSucceeds) /\ WF_vars(indexerSteps)
    /\ WF_vars(ecsBootstrapEnds) /\ WF_vars(restart)

FairSpec == Spec /\ Fairness

-----------------------------------------------------------------------------
\* Attempts that end within the interval never exceed their number, and the
\* bookkeeping of runWithRetries has its type.
TypeOK ==
    /\ pc \in {"config", "chain", "agent", "servers", "migrate", "migrating", "events", "indexer", "starting",
               "ecs", "running", "exited"}
    /\ steps \in [StepNames -> StepStates]
    /\ {listening, retry, everSynced, webhook, migrated, posted} \subseteq BOOLEAN
    /\ attempt \in 0..AttemptCap /\ inFlight \in 0..attempt
    /\ sync \in {"none", "never-synced", "catching-up", "disconnected", "synced"}
    /\ ecs \in {"none", "pending", "completed", "failed"}
    /\ failures \in 0..MaxFailures

\* Whenever the admin API answers that the agent is ready, the service ids
\* are migrated and a catch-up of this process ended:
\* no gap between a listening server and the steps it reports on.
ReadyIsDone ==
    (listening /\ readiness) => migrated /\ everSynced

\* A migration that was given up is not tried again behind the back of the
\* probe: only a restart changes the step.
GivenUpIsOver ==
    [][(steps[Migration] = "failed" /\ pc' # "config") => (attempt' = attempt /\ steps'[Migration] = "failed")]_vars

\* Once the failures end, the agent becomes ready and stays so: through the
\* retries, the exit of the process or the liveness probe and a restart.
BecomesReady == <>[](listening /\ readiness)

\* BootstrapState.ts: a step that is reported failed "failed and could not be
\* recovered", so it did not complete in this process.
FailedDidNotComplete ==
    [][(steps[Migration] = "completed" /\ pc' # "config") => (steps'[Migration] = "completed")]_vars

\* V2AgentController.ts: ready "once every bootstrap step completed and the
\* agent is up to date with the indexer".
ReadyIsUpToDate == (listening /\ readiness) => sync = "synced"

\* README.md: EVENTS_WEBHOOK_URL is the "URL the agent posts every event to".
EveryEventPosted == posted
=============================================================================
