---------------------------- MODULE IndexerSync ----------------------------
(***************************************************************************)
(* The indexer subscription of the agent (IndexerWebSocketService with     *)
(* indexerSync and VeranaHelpers): one WebSocket that delivers new blocks, *)
(* a REST catch-up that reads old ones page by page, one promise queue     *)
(* that applies events one at a time, and a persisted height that says     *)
(* from where to read after a reconnect or a restart.                      *)
(*                                                                         *)
(* connect() runs as a coroutine, "sync".  A coroutine whose generation is *)
(* no longer the current one returns at its next check without an effect,  *)
(* so only the current one is kept.  What it left in the queue stays there.*)
(***************************************************************************)
EXTENDS Integers, FiniteSets, Sequences

CONSTANTS
    Events,               \* every event the chain will ever hold
    MaxBlock,             \* bound: the chain grows to this height
    PageLimit,            \* REST_PAGE_LIMIT
    MaxSyncBuffer,        \* MAX_SYNC_BUFFER
    SubscribeMayTimeOut,  \* may the acknowledgement miss SUBSCRIBE_TIMEOUT_MS?
    MaxFaults             \* bound: closes, failures, crashes and stops

AtBlock(b) == {e \in Events : e.block_height = b}

ASSUME ConstantsAssumption ==
    /\ MaxBlock \in Nat
    /\ PageLimit \in Nat \ {0}
    /\ MaxSyncBuffer \in Nat
    /\ SubscribeMayTimeOut \in BOOLEAN
    /\ MaxFaults \in Nat

\* index stands for (tx_index, message_index): the position inside the block.
\* An event with no sender is one that isProcessableEvent refuses.
ASSUME EventsAssumption ==
    /\ IsFiniteSet(Events)
    /\ Events \subseteq [block_height : 1..MaxBlock, index : Nat, sender : BOOLEAN]

\* The events API cannot page within a block (the warning in syncRest): no
\* block holds more events than one page.
ASSUME BlockFitsPage ==
    \A b \in 1..MaxBlock : Cardinality(AtBlock(b)) <= PageLimit

VARIABLES
    head,         \* height the indexer has indexed
    link,         \* the indexer's side of the current socket
    from,         \* block at which the current subscription starts to deliver
    nextBlock,    \* next block the current socket delivers
    ws,           \* the agent's socket: "null", "open" or "closed"
    timer,        \* reconnectTimer is armed
    stopped, syncing, phase, everSynced, generation,
    buffer,       \* syncBuffer
    sync,         \* the running connect() of the current generation
    queue,        \* applyEvent calls waiting in the promise chain
    cur,          \* the applyEvent call that runs
    store,        \* the persisted VeranaSyncState
    accepting,    \* the agent accepts DIDComm sockets (main.ts)
    handled,      \* history: events whose handlers ran to the end
    redone,       \* history: events whose handlers ran to the end twice
    interrupted,  \* history: events handled but not recorded in the store
    faults        \* faults so far

linkVars == <<link, from, nextBlock>>
history  == <<handled, redone, interrupted>>
vars == <<head, linkVars, ws, timer, stopped, syncing, phase, everSynced,
          generation, buffer, sync, queue, cur, store, accepting, history,
          faults>>

-----------------------------------------------------------------------------
isProcessableEvent(e) == e.sender /\ e.block_height > 0
Processable == {e \in Events : isProcessableEvent(e)}

Before(e, f) ==
    \/ e.block_height < f.block_height
    \/ e.block_height = f.block_height /\ e.index <= f.index

IsFirst(e, S) == e \in S /\ \A f \in S : Before(e, f)

\* The sequences in which the events of S can stand.
Orders(S) ==
    {s \in [1..Cardinality(S) -> S] :
        \A e \in S : \E i \in 1..Cardinality(S) : s[i] = e}

\* The sequences that sortEventsByPosition can return for the set S.
sortEventsByPosition(S) ==
    {s \in Orders(S) :
        \A i, j \in 1..Cardinality(S) : i < j => Before(s[i], s[j])}

NoNext == [done |-> FALSE, cursor |-> 0]

\* P is the page as the indexer sent it, unprocessable events included.
nextRestCursor(P, cursor) ==
    LET maxBlock == CHOOSE b \in {cursor} \cup {e.block_height : e \in P} :
                        \A e \in P : e.block_height <= b /\ cursor <= b
    IN  IF Cardinality(P) < PageLimit
        THEN [done |-> TRUE, cursor |-> cursor]
        ELSE IF maxBlock - 1 > cursor
             THEN [done |-> FALSE, cursor |-> maxBlock - 1]
             ELSE [done |-> FALSE, cursor |-> maxBlock]

\* The pages getEvents can answer with: the PageLimit first events after the
\* cursor, by block; inside the last block the API promises no order.
Pages(cursor) ==
    LET avail == {e \in Events : cursor < e.block_height /\ e.block_height <= head}
    IN  {P \in SUBSET avail :
            /\ Cardinality(P) <= PageLimit
            /\ Cardinality(P) < PageLimit => P = avail
            /\ \A e \in P : \A f \in avail \ P : e.block_height <= f.block_height}

Idle == [at |-> "idle", cursor |-> 0, todo |-> {}, next |-> NoNext]

NoEvent == [step |-> "none"]

Item(e, isRest) == [ev |-> e, gen |-> generation, rest |-> isRest]

LiveItems(s) == [i \in 1..Len(s) |-> Item(s[i], FALSE)]

emptyState == [lastBlockHeight |-> 0, partialBlock |-> 0, partialKeys |-> {}]

-----------------------------------------------------------------------------
Init ==
    /\ link = "none" /\ from = 1 /\ nextBlock = 1
    /\ ws = "null" /\ timer = FALSE /\ stopped = FALSE
    /\ syncing = FALSE /\ phase = "connecting" /\ everSynced = FALSE
    /\ generation = 0 /\ buffer = <<>> /\ sync = Idle
    /\ queue = <<>> /\ cur = NoEvent /\ accepting = FALSE
    /\ head = 0
    /\ store = emptyState
    /\ handled = {} /\ redone = {} /\ interrupted = {}
    /\ faults = 0

Fault == faults < MaxFaults /\ faults' = faults + 1

\* The indexer indexes the next block.
Land ==
    /\ head < MaxBlock
    /\ head' = head + 1
    /\ UNCHANGED <<linkVars, ws, timer, stopped, syncing, phase, everSynced,
                   generation, buffer, sync, queue, cur, store, accepting,
                   history, faults>>

\* connect(), from start() or from the reconnect timer, up to its first await.
connect ==
    /\ ~stopped
    /\ generation = 0 \/ timer
    /\ generation' = generation + 1
    /\ timer' = FALSE
    /\ syncing' = TRUE
    /\ phase' = "connecting"
    /\ buffer' = <<>>
    /\ ws' = "open"
    /\ link' = "ready"
    /\ sync' = [Idle EXCEPT !.at = "waiting"]
    /\ UNCHANGED <<head, from, nextBlock, stopped, everSynced, queue, cur,
                   store, accepting, history, faults>>

\* Mutant: queued work of the failed connection stays valid.
forceReconnectSameGeneration ==
    IF stopped
    THEN UNCHANGED <<phase, generation, ws, timer, link, sync>>
    ELSE /\ phase' = "connecting" /\ ws' = "null" /\ timer' = TRUE
         /\ link' = "none" /\ sync' = Idle /\ UNCHANGED generation

\* Mutant: the reconnect is not scheduled.
forceReconnectNoTimer ==
    IF stopped
    THEN UNCHANGED <<phase, generation, ws, timer, link, sync>>
    ELSE /\ phase' = "connecting" /\ generation' = generation + 1 /\ ws' = "null"
         /\ link' = "none" /\ sync' = Idle /\ UNCHANGED timer

\* Mutant: the phase takes a value of syncStatus.
forceReconnectStatus ==
    IF stopped
    THEN UNCHANGED <<phase, generation, ws, timer, link, sync>>
    ELSE /\ phase' = "disconnected" /\ generation' = generation + 1 /\ ws' = "null"
         /\ timer' = TRUE /\ link' = "none" /\ sync' = Idle

forceReconnect ==
    IF stopped
    THEN UNCHANGED <<phase, generation, ws, timer, link, sync>>
    ELSE /\ phase' = "connecting"
         /\ generation' = generation + 1
         /\ ws' = "null"
         /\ timer' = TRUE
         /\ link' = "none"
         /\ sync' = Idle

-----------------------------------------------------------------------------
\* Messages of the socket.

handleReady ==
    /\ ws = "open" /\ link = "ready"
    /\ link' = "subscribe"
    /\ UNCHANGED <<head, from, nextBlock, ws, timer, stopped, syncing, phase,
                   everSynced, generation, buffer, sync, queue, cur, store,
                   accepting, history, faults>>

\* The indexer activates the subscription.
Activate ==
    /\ link = "subscribe"
    /\ link' = "active"
    /\ from' = head + 1
    /\ nextBlock' = head + 1
    /\ UNCHANGED <<head, ws, timer, stopped, syncing, phase, everSynced,
                   generation, buffer, sync, queue, cur, store, accepting,
                   history, faults>>

\* The wait of connect() ends with an outcome other than 'disconnected'.
startCatchUp ==
    /\ phase' = "catching-up"
    /\ sync' = [sync EXCEPT !.at = "load"]

handleSubscribed ==
    /\ ws = "open" /\ link = "active"
    /\ link' = "live"
    /\ IF sync.at = "waiting" THEN startCatchUp ELSE UNCHANGED <<phase, sync>>
    /\ UNCHANGED <<head, from, nextBlock, ws, timer, stopped, syncing,
                   everSynced, generation, buffer, queue, cur, store,
                   accepting, history, faults>>

subscribeTimeout ==
    /\ SubscribeMayTimeOut
    /\ sync.at = "waiting"
    /\ startCatchUp
    /\ UNCHANGED <<head, linkVars, ws, timer, stopped, syncing, everSynced,
                   generation, buffer, queue, cur, store, accepting, history,
                   faults>>

\* One block message, its events in the order they come in; the loop over
\* them does not await.
handleBlock ==
    /\ ws = "open" /\ link \in {"active", "live"}
    /\ nextBlock <= head
    /\ nextBlock' = nextBlock + 1
    /\ \E s \in Orders(AtBlock(nextBlock) \cap Processable) :
        \/ /\ ~syncing
           /\ queue' = queue \o LiveItems(s)
           /\ UNCHANGED <<phase, generation, ws, timer, link, sync, buffer>>
        \/ /\ syncing
           /\ Len(buffer) + Len(s) <= MaxSyncBuffer
           /\ buffer' = buffer \o s
           /\ UNCHANGED <<phase, generation, ws, timer, link, sync, queue>>
        \/ /\ syncing
           /\ Len(buffer) + Len(s) > MaxSyncBuffer
           /\ buffer' = buffer \o SubSeq(s, 1, MaxSyncBuffer - Len(buffer))
           /\ forceReconnect
           /\ UNCHANGED queue
    /\ UNCHANGED <<head, from, stopped, syncing, everSynced, cur, store,
                   accepting, history, faults>>

\* 'close' (or 'error', then 'close') of the current socket: the generation
\* stays, so a catch-up that already runs goes on.
socketClose ==
    /\ Fault
    /\ ws = "open"
    /\ ws' = "closed"
    /\ link' = "none"
    /\ phase' = "connecting"
    /\ timer' = TRUE
    /\ sync' = IF sync.at = "waiting" THEN Idle ELSE sync
    /\ UNCHANGED <<head, from, nextBlock, stopped, syncing, everSynced,
                   generation, buffer, queue, cur, store, accepting, history>>

watchdogFires ==
    /\ Fault
    /\ ws = "open"
    /\ forceReconnect
    /\ UNCHANGED <<head, from, nextBlock, stopped, syncing, everSynced, buffer,
                   queue, cur, store, accepting, history>>

-----------------------------------------------------------------------------
\* syncRest, and the end of connect().

loadCursor ==
    /\ sync.at = "load"
    /\ sync' = [sync EXCEPT !.at = "page", !.cursor = store.lastBlockHeight]
    /\ UNCHANGED <<head, linkVars, ws, timer, stopped, syncing, phase,
                   everSynced, generation, buffer, queue, cur, store,
                   accepting, history, faults>>

getEvents ==
    /\ sync.at = "page"
    /\ \E P \in Pages(sync.cursor) :
          sync' = [sync EXCEPT !.at = "loop",
                               !.todo = P \cap Processable,
                               !.next = nextRestCursor(P, sync.cursor)]
    /\ UNCHANGED <<head, linkVars, ws, timer, stopped, syncing, phase,
                   everSynced, generation, buffer, queue, cur, store,
                   accepting, history, faults>>

\* loadSyncState or getEvents throws.
catchUpFails ==
    /\ Fault
    /\ sync.at \in {"load", "page"}
    /\ forceReconnect
    /\ UNCHANGED <<head, from, nextBlock, stopped, syncing, everSynced, buffer,
                   queue, cur, store, accepting, history>>

\* await this.runExclusive(() => this.applyEvent(event, generation))
queueNext ==
    /\ sync.at = "loop"
    /\ \E e \in sync.todo :
        /\ IsFirst(e, sync.todo)
        /\ queue' = Append(queue, Item(e, TRUE))
        /\ sync' = [sync EXCEPT !.at = "await", !.todo = @ \ {e}]
    /\ UNCHANGED <<head, linkVars, ws, timer, stopped, syncing, phase,
                   everSynced, generation, buffer, cur, store, accepting,
                   history, faults>>

nextPage ==
    /\ sync.at = "loop" /\ sync.todo = {}
    /\ ~sync.next.done
    /\ sync' = [sync EXCEPT !.at = "page", !.cursor = sync.next.cursor,
                            !.next = NoNext]
    /\ UNCHANGED <<head, linkVars, ws, timer, stopped, syncing, phase,
                   everSynced, generation, buffer, queue, cur, store,
                   accepting, history, faults>>

\* The catch-up is done: drainSyncBuffer hands the buffer to the queue.
goLive ==
    /\ sync.at = "loop" /\ sync.todo = {}
    /\ sync.next.done
    /\ syncing' = FALSE
    /\ phase' = "synced"
    /\ everSynced' = TRUE
    /\ \E s \in sortEventsByPosition({buffer[i] : i \in 1..Len(buffer)}) :
          queue' = queue \o LiveItems(s)
    /\ buffer' = <<>>
    /\ sync' = Idle
    /\ UNCHANGED <<head, linkVars, ws, timer, stopped, generation, cur, store,
                   accepting, history, faults>>

-----------------------------------------------------------------------------
\* applyEvent, one call at a time (runExclusive).

Stale(item) == stopped \/ item.gen # generation

\* Mutant: the keys of the partial block are not looked at.
AlreadyAppliedByHeight(e) == e.block_height <= store.lastBlockHeight

AlreadyApplied(e) ==
    \/ e.block_height <= store.lastBlockHeight
    \/ e.block_height = store.partialBlock /\ e \in store.partialKeys

\* Mutant: the block counts as done with its first event.
RecordedWholeBlock(s, e) ==
    [lastBlockHeight |-> e.block_height, partialBlock |-> e.block_height,
     partialKeys |-> {e}]

Recorded(s, e) ==
    [lastBlockHeight |-> IF e.block_height - 1 > s.lastBlockHeight
                         THEN e.block_height - 1 ELSE s.lastBlockHeight,
     partialBlock    |-> IF e.block_height > s.partialBlock
                         THEN e.block_height ELSE s.partialBlock,
     partialKeys     |-> IF e.block_height > s.partialBlock
                         THEN {e} ELSE s.partialKeys \cup {e}]

\* syncRest awaits its own call, and no other.
Resume(item) ==
    sync' = IF item.rest /\ item.gen = generation /\ sync.at = "await"
            THEN [sync EXCEPT !.at = "loop"] ELSE sync

takeEvent ==
    /\ cur = NoEvent /\ queue # <<>>
    /\ queue' = Tail(queue)
    /\ IF Stale(Head(queue)) \/ AlreadyApplied(Head(queue).ev)
       THEN cur' = NoEvent /\ Resume(Head(queue))
       ELSE cur' = [step |-> "fetch", item |-> Head(queue)] /\ UNCHANGED sync
    /\ UNCHANGED <<head, linkVars, ws, timer, stopped, syncing, phase,
                   everSynced, generation, buffer, store, accepting, history,
                   faults>>

fetchActivity ==
    /\ cur.step = "fetch"
    /\ IF Stale(cur.item)
       THEN cur' = NoEvent /\ Resume(cur.item)
       ELSE cur' = [cur EXCEPT !.step = "handle"] /\ UNCHANGED sync
    /\ UNCHANGED <<head, linkVars, ws, timer, stopped, syncing, phase,
                   everSynced, generation, buffer, queue, store, accepting,
                   history, faults>>

applyChanges ==
    /\ cur.step = "handle"
    /\ cur' = [cur EXCEPT !.step = "save"]
    /\ handled' = handled \cup {cur.item.ev}
    /\ redone' = redone \cup ({cur.item.ev} \cap handled)
    /\ UNCHANGED <<head, linkVars, ws, timer, stopped, syncing, phase,
                   everSynced, generation, buffer, sync, queue, store,
                   accepting, interrupted, faults>>

saveSyncState ==
    /\ cur.step = "save"
    /\ store' = Recorded(store, cur.item.ev)
    /\ cur' = NoEvent
    /\ Resume(cur.item)
    /\ UNCHANGED <<head, linkVars, ws, timer, stopped, syncing, phase,
                   everSynced, generation, buffer, queue, accepting, history,
                   faults>>

Unrecorded == IF cur.step = "save" THEN {cur.item.ev} ELSE {}

\* The entity fetch, a handler or the save throws.  The catch handlers of
\* enqueueLive and connect() run before the next queued task does.
applyFails ==
    /\ Fault
    /\ cur # NoEvent
    /\ cur' = NoEvent
    /\ interrupted' = interrupted \cup Unrecorded
    /\ IF cur.item.gen = generation
       THEN forceReconnect
       ELSE UNCHANGED <<phase, generation, ws, timer, link, sync>>
    /\ UNCHANGED <<head, from, nextBlock, stopped, syncing, everSynced, buffer,
                   queue, store, accepting, handled, redone>>

-----------------------------------------------------------------------------
stop ==
    /\ Fault
    /\ generation > 0 /\ ~stopped
    /\ stopped' = TRUE
    /\ timer' = FALSE
    /\ ws' = "null"
    /\ link' = "none"
    /\ sync' = Idle
    /\ UNCHANGED <<head, from, nextBlock, syncing, phase, everSynced,
                   generation, buffer, queue, cur, store, accepting, history>>

\* The process dies and starts anew: only the store outlives it.
crashAndRestart ==
    /\ Fault
    /\ generation > 0
    /\ link' = "none" /\ from' = 1 /\ nextBlock' = 1
    /\ ws' = "null" /\ timer' = FALSE /\ stopped' = FALSE
    /\ syncing' = FALSE /\ phase' = "connecting" /\ everSynced' = FALSE
    /\ generation' = 0 /\ buffer' = <<>> /\ sync' = Idle
    /\ queue' = <<>> /\ cur' = NoEvent /\ accepting' = FALSE
    /\ interrupted' = interrupted \cup Unrecorded
    /\ UNCHANGED <<head, store, handled, redone>>

\* main.ts: the upgrade handler is installed after `await indexerWs.start()`,
\* that is, when the first connect() has returned.
acceptDidComm ==
    /\ ~accepting
    /\ generation > 0 /\ ~(generation = 1 /\ sync.at # "idle")
    /\ accepting' = TRUE
    /\ UNCHANGED <<head, linkVars, ws, timer, stopped, syncing, phase,
                   everSynced, generation, buffer, sync, queue, cur, store,
                   history, faults>>

-----------------------------------------------------------------------------
SocketStep == handleReady \/ handleSubscribed \/ handleBlock
SyncStep   == loadCursor \/ getEvents \/ queueNext \/ nextPage \/ goLive
ApplyStep  == takeEvent \/ fetchActivity \/ applyChanges \/ saveSyncState
FaultStep  == \/ socketClose \/ watchdogFires \/ catchUpFails \/ applyFails
              \/ stop \/ crashAndRestart

Next ==
    \/ Land \/ connect \/ Activate \/ subscribeTimeout \/ acceptDidComm
    \/ SocketStep \/ SyncStep \/ ApplyStep \/ FaultStep

Spec == Init /\ [][Next]_vars

\* Timers fire, requests are answered or fail (a failure is a fault, and the
\* faults are finite), messages of an open socket arrive, the promise chain
\* runs.  Nothing is assumed of Land beyond that the chain goes on.
FairSpec ==
    /\ Spec
    /\ WF_vars(Land)
    /\ WF_vars(connect)
    /\ WF_vars(Activate)
    /\ WF_vars(SocketStep)
    /\ WF_vars(SyncStep)
    /\ WF_vars(ApplyStep)
-----------------------------------------------------------------------------
\* Properties.

Items == [ev : Processable, gen : Nat, rest : BOOLEAN]
Calls == [step : {"fetch", "handle", "save"}, item : Items]
Syncs == [at : {"idle", "waiting", "load", "page", "loop", "await"},
          cursor : 0..MaxBlock,
          todo : SUBSET Processable,
          next : [done : BOOLEAN, cursor : 0..MaxBlock]]
SyncStates == [lastBlockHeight : 0..MaxBlock, partialBlock : 0..MaxBlock,
               partialKeys : SUBSET Processable]

\* Every variable has the type the code gives it.
TypeOK ==
    /\ head \in 0..MaxBlock
    /\ link \in {"none", "ready", "subscribe", "active", "live"}
    /\ from \in 1..(MaxBlock + 1) /\ nextBlock \in 1..(MaxBlock + 1)
    /\ ws \in {"null", "open", "closed"}
    /\ timer \in BOOLEAN /\ stopped \in BOOLEAN /\ syncing \in BOOLEAN
    /\ everSynced \in BOOLEAN /\ accepting \in BOOLEAN
    /\ phase \in {"connecting", "catching-up", "synced"}
    /\ generation \in Nat
    /\ buffer \in Seq(Processable)
    /\ sync \in Syncs
    /\ queue \in Seq(Items)
    /\ cur \in {NoEvent} \cup Calls
    /\ store \in SyncStates
    /\ handled \subseteq Processable
    /\ redone \subseteq Processable /\ interrupted \subseteq Processable
    /\ faults \in 0..MaxFaults

\* The event waits in the queue, or is being applied, for the current
\* generation, so that applyEvent will not drop it.
Queued(f) == \E i \in 1..Len(queue) : queue[i].gen = generation /\ queue[i].ev = f
Applying(f) == cur # NoEvent /\ cur.item.gen = generation /\ cur.item.ev = f

\* No event is lost: the handlers have run for every event at or below the
\* persisted height, so reading on from that height after a reconnect or a
\* restart skips nothing (applyEvent's watermark, "one behind").
NoEventLost ==
    \A e \in Processable :
        e.block_height <= store.lastBlockHeight => e \in handled

\* Handlers run twice for an event only when a crash or a failed save came
\* between its handlers and its record: reconnects, rewound pages and the
\* overlap of pages and buffer never cause a second run (partialKeys).
RedoneOnlyIfInterrupted == redone \subseteq interrupted

\* Once the agent went live, every event of a block its open socket has
\* delivered is handled or waits in the queue (drainSyncBuffer and the switch
\* of syncing lose nothing).
LiveCoversDelivered ==
    (~stopped /\ ~syncing /\ ws = "open" /\ link = "live") =>
        \A f \in Processable :
            f.block_height < nextBlock => f \in handled \/ Queued(f) \/ Applying(f)

\* The handlers see the events block by block: the detailed service
\* implements the feed of module IndexerFeed.
Feed == INSTANCE IndexerFeed WITH Events <- Processable
FeedSpec == Feed!Spec

\* Every event that lands is handled in the end, unless the service is
\* stopped: no failure, close, overflow or crash leaves it without a
\* reconnect or stuck in a catch-up.
EventuallyHandled == <>[](stopped \/ handled = Processable)

\* main.ts: "Accept incoming DIDComm only after the catch-up, so the agent
\* does not act on stale chain state."
AcceptOnlyAfterCatchUp == accepting => everSynced

-----------------------------------------------------------------------------
\* The inductive invariant behind NoEventLost and FeedSpec, when every
\* subscription is acknowledged in time.

\* Every event of an earlier block is handled.
Safe(e) == \A f \in Processable : f.block_height < e.block_height => f \in handled

Pending(f) == f \in handled \/ Queued(f) \/ Applying(f)

\* The store never promises more than what is handled.
InvStore ==
    /\ NoEventLost
    /\ store.partialKeys \subseteq handled

\* An event past its checks may be recorded without skipping another.
InvCur ==
    cur # NoEvent =>
        /\ cur.item.gen <= generation
        /\ cur.item.ev.block_height <= head
        /\ cur.step # "fetch" \/ ~Stale(cur.item) => Safe(cur.item.ev)
        /\ cur.step = "save" => cur.item.ev \in handled

\* The queue of the current generation is complete up to each of its events.
InvQueue ==
    \A i \in 1..Len(queue) :
        /\ queue[i].gen <= generation
        /\ queue[i].ev.block_height <= head
        /\ ~Stale(queue[i]) =>
              \A f \in Processable : f.block_height < queue[i].ev.block_height =>
                  \/ f \in handled
                  \/ Applying(f)
                  \/ \E j \in 1..(i - 1) : queue[j].gen = generation /\ queue[j].ev = f

InSync == sync.at \in {"load", "page", "loop", "await"}

\* What the catch-up has read, and what it will read next, leaves no gap.
InvRest ==
    /\ sync.at \in {"page", "loop", "await"} =>
          \A f \in Processable : f.block_height <= sync.cursor => Pending(f)
    /\ sync.at \in {"loop", "await"} =>
          /\ \A e \in sync.todo :
                /\ e.block_height <= head
                /\ \A f \in Processable : f.block_height < e.block_height =>
                      Pending(f) \/ f \in sync.todo
          /\ \A f \in Processable :
                f.block_height < (IF sync.next.done THEN from ELSE sync.next.cursor + 1)
                    => Pending(f) \/ f \in sync.todo

\* The sockets and the flags agree.
InvLink ==
    /\ link # "none" <=> ws = "open"
    /\ InSync => link \in {"live", "none"}
    /\ sync.at = "waiting" => link # "live"
    /\ sync.at # "idle" => syncing /\ ~stopped
    /\ link \in {"ready", "subscribe", "active"} => sync.at = "waiting"
    /\ stopped => link = "none"
    /\ from <= nextBlock
    /\ link \in {"active", "live"} \/ InSync => nextBlock <= head + 1

\* The buffer holds exactly the events delivered since the subscription.
InvBuffer ==
    /\ sync.at = "waiting" /\ link # "active" => buffer = <<>>
    /\ InSync \/ link = "active" =>
          /\ \A i \in 1..Len(buffer) :
                from <= buffer[i].block_height /\ buffer[i].block_height < nextBlock
          /\ \A f \in Processable :
                from <= f.block_height /\ f.block_height < nextBlock =>
                    \E i \in 1..Len(buffer) : buffer[i] = f

\* An event handled and not interrupted is in the store, or about to be.
InvOnce ==
    /\ RedoneOnlyIfInterrupted
    /\ store.partialBlock <= store.lastBlockHeight + 1
    /\ cur # NoEvent => ~AlreadyApplied(cur.item.ev)
    /\ \A e \in handled \ interrupted :
          AlreadyApplied(e) \/ (cur # NoEvent /\ cur.step = "save" /\ cur.item.ev = e)

\* The invariant that every step preserves: the height, the queue, the pages
\* and the buffer together leave no landed event behind.
IndInv ==
    /\ InvStore /\ InvCur /\ InvQueue /\ InvRest /\ InvLink /\ InvBuffer
    /\ LiveCoversDelivered
-----------------------------------------------------------------------------
\* Small chains for TLC.
Landed(b, i, s) == [block_height |-> b, index |-> i, sender |-> s]

\* Block 1 fills a page, block 2 has one event the agent skips, block 3 one.
MCEvents == {Landed(1, 1, TRUE), Landed(1, 2, TRUE), Landed(2, 1, FALSE), Landed(2, 2, TRUE),
             Landed(3, 1, TRUE)}

\* Block 1 fills a page.
ShortChain == {Landed(1, 1, TRUE), Landed(1, 2, TRUE), Landed(2, 1, TRUE)}
=============================================================================
