---------------------------- MODULE Authorization ----------------------------
(***************************************************************************)
(* AuthorizationService: the cache of the VS operator authorizations of    *)
(* the agent, one record per participant, and who refreshes it.            *)
(*                                                                         *)
(* The chain changes an authorization in a block.  The notification of the *)
(* block and the delegation projection of the indexer come from two jobs,  *)
(* so a refresh polls until the projection reached the block of the event, *)
(* or gives up.  The start of the agent refreshes too, without a block,    *)
(* and tries again in the background until it succeeds once.               *)
(***************************************************************************)
EXTENDS Naturals, Sequences

CONSTANTS
    Participants,  \* entries the agent may operate
    SeedFirst,     \* the first refresh of the start succeeded
    MaxBlocks,     \* bound: blocks that change an authorization
    MaxTimeouts    \* bound: refreshes that give up

ASSUME BoundsAssumption ==
    SeedFirst \in BOOLEAN /\ MaxBlocks \in Nat /\ MaxTimeouts \in Nat

\* A record lists TriggerResolver or not, and names a fee grant or not.
Records == {"none", "plain", "trigger", "triggerFee"}
NoCache == [p \in Participants |-> "none"]

VARIABLES
    hist,      \* per block, the authorizations of the agent
    proj,      \* the block the delegation projection reached
    news,      \* notifications that are not handled yet
    cache,     \* vsoaByParticipant
    coveredAt, \* lastRefreshAtBlock
    recent,    \* the last refresh is younger than minRefreshIntervalMs
    handler,   \* the refresh of the running notification handler
    seed,      \* the refresh of the start
    dirty,     \* ghost: a refresh was given up since the last one that ended
    sent,      \* the last TriggerResolver: its entry and payer, NoTx if none
    timeouts

vars == <<hist, proj, news, cache, coveredAt, recent, handler, seed, dirty, sent, timeouts>>

Block == Len(hist)
Current == hist[Block]
Idle == [at |-> "idle", min |-> 0, got |-> NoCache]
NoTx == [p |-> "none"]

Init ==
    /\ hist \in {<<h>> : h \in [Participants -> {"none", "trigger"}]}
    /\ proj = 1 /\ news = <<>> /\ coveredAt = 0 /\ recent = SeedFirst
    /\ cache = IF SeedFirst THEN hist[1] ELSE NoCache
    /\ seed = [Idle EXCEPT !.at = IF SeedFirst THEN "done" ELSE "idle"]
    /\ handler = Idle /\ dirty = FALSE /\ sent = NoTx /\ timeouts = 0

-----------------------------------------------------------------------------
\* The chain and the indexer.

Notice(p, r) == [block |-> Block + 1, p |-> p, revoke |-> r = "none"]

\* A block with a message of REFRESH_MSGS or REVOKE_MSGS.
changeAuthorization(p, r) ==
    /\ Block <= MaxBlocks /\ r # Current[p]
    /\ hist' = Append(hist, [Current EXCEPT ![p] = r])
    /\ news' = Append(news, Notice(p, r))
    /\ UNCHANGED <<proj, cache, coveredAt, recent, handler, seed, dirty, sent, timeouts>>

\* A block with two of them.
changeTwo(p, r, q, s) ==
    /\ p # q
    /\ Block <= MaxBlocks /\ r # Current[p] /\ s # Current[q]
    /\ hist' = Append(hist, [Current EXCEPT ![p] = r, ![q] = s])
    /\ news' = Append(Append(news, Notice(p, r)), Notice(q, s))
    /\ UNCHANGED <<proj, cache, coveredAt, recent, handler, seed, dirty, sent, timeouts>>

project ==
    /\ proj < Block /\ proj' = proj + 1
    /\ UNCHANGED <<hist, news, cache, coveredAt, recent, handler, seed, dirty, sent, timeouts>>

tick ==
    /\ recent /\ recent' = FALSE
    /\ UNCHANGED <<hist, proj, news, cache, coveredAt, handler, seed, dirty, sent, timeouts>>

-----------------------------------------------------------------------------
\* refreshForOperator.

\* Back-to-back refreshes are skipped, unless the block is not covered yet.
needsRefresh(min) == min > coveredAt \/ ~recent

\* delegationPage: the answer counts once its checkpoint reached the block.
pageCovers(min) == min = 0 \/ proj >= min

\* The map is rebuilt from the answer.
applyRefresh(t) ==
    /\ cache' = t.got /\ recent' = TRUE
    /\ coveredAt' = IF t.min = 0 THEN coveredAt ELSE t.min

invalidateParticipant(c, p) == [c EXCEPT ![p] = "none"]

\* Mutant: the record of a revoked entry waits for the refresh.
handleNoInvalidate(e) ==
    /\ UNCHANGED cache
    /\ handler' = IF needsRefresh(e.block) THEN [at |-> "poll", min |-> e.block, got |-> NoCache] ELSE Idle

\* registerAuthorizationHandlers: a revocation drops the record, then both
\* kinds of messages refresh.
handleEvent(e) ==
    /\ cache' = IF e.revoke THEN invalidateParticipant(cache, e.p) ELSE cache
    /\ handler' = IF needsRefresh(e.block) THEN [at |-> "poll", min |-> e.block, got |-> NoCache] ELSE Idle

takeEvent ==
    /\ handler.at = "idle" /\ news # <<>>
    /\ handleEvent(Head(news)) /\ news' = Tail(news)
    /\ UNCHANGED <<hist, proj, coveredAt, recent, seed, dirty, sent, timeouts>>

pollDelegation ==
    /\ handler.at = "poll" /\ pageCovers(handler.min)
    /\ handler' = [handler EXCEPT !.at = "got", !.got = hist[proj]]
    /\ UNCHANGED <<hist, proj, news, cache, coveredAt, recent, seed, dirty, sent, timeouts>>

\* "delegation checkpoint never reached block": the wrapper logs it.
pollGivesUp ==
    /\ handler.at = "poll" /\ timeouts < MaxTimeouts /\ timeouts' = timeouts + 1
    /\ handler' = Idle /\ dirty' = TRUE
    /\ UNCHANGED <<hist, proj, news, cache, coveredAt, recent, seed, sent>>

endRefresh ==
    /\ handler.at = "got" /\ applyRefresh(handler) /\ handler' = Idle /\ dirty' = FALSE
    /\ UNCHANGED <<hist, proj, news, seed, sent, timeouts>>

\* The seed of the start, with no block: runWithRetries.
seedAsks ==
    /\ seed.at = "idle"
    /\ IF needsRefresh(0) THEN seed' = [seed EXCEPT !.at = "got", !.got = hist[proj]]
                          ELSE seed' = [seed EXCEPT !.at = "done"]
    /\ UNCHANGED <<hist, proj, news, cache, coveredAt, recent, handler, dirty, sent, timeouts>>

seedFails ==
    /\ seed.at = "got" /\ timeouts < MaxTimeouts /\ timeouts' = timeouts + 1
    /\ seed' = Idle
    /\ UNCHANGED <<hist, proj, news, cache, coveredAt, recent, handler, dirty, sent>>

seedEnds ==
    /\ seed.at = "got" /\ applyRefresh(seed) /\ seed' = [Idle EXCEPT !.at = "done"]
    /\ UNCHANGED <<hist, proj, news, handler, dirty, sent, timeouts>>

-----------------------------------------------------------------------------
\* A user of the cache.

canSign(p) == cache[p] \in {"trigger", "triggerFee"}

feeGranterFor(p) == IF cache[p] = "triggerFee" THEN "corporation" ELSE "agent"

\* triggerResolverForOwnDid: an entry whose record lists the message; the chain
\* judges it by its own records.
triggerResolver(p) ==
    /\ canSign(p)
    /\ sent' = [p |-> p, payer |-> feeGranterFor(p),
                ok |-> Current[p] \in {"trigger", "triggerFee"}
                       /\ (feeGranterFor(p) = "corporation" => Current[p] = "triggerFee"),
                settled |-> news = <<>> /\ handler.at = "idle" /\ ~dirty]
    /\ UNCHANGED <<hist, proj, news, cache, coveredAt, recent, handler, seed, dirty, timeouts>>

Refresh == takeEvent \/ pollDelegation \/ endRefresh

Next ==
    \/ \E p \in Participants, r \in Records : changeAuthorization(p, r)
    \/ \E p, q \in Participants, r, s \in Records : changeTwo(p, r, q, s)
    \/ project \/ tick
    \/ Refresh \/ pollGivesUp
    \/ seedAsks \/ seedFails \/ seedEnds
    \/ \E p \in Participants : triggerResolver(p)

Spec == Init /\ [][Next]_vars

\* The projection follows the chain, time passes, a handler goes on, and the
\* interval of the seed runs until it succeeded.
Fairness ==
    /\ WF_vars(project) /\ WF_vars(tick) /\ WF_vars(Refresh)
    /\ WF_vars(seedAsks) /\ WF_vars(seedEnds)

FairSpec == Spec /\ Fairness

-----------------------------------------------------------------------------
TypeOK ==
    /\ hist \in Seq([Participants -> Records]) /\ hist # <<>>
    /\ proj \in 1..Block /\ cache \in [Participants -> Records]
    /\ news \in Seq([block : 1..Block, p : Participants, revoke : BOOLEAN])
    /\ coveredAt \in 0..Block /\ recent \in BOOLEAN /\ dirty \in BOOLEAN
    /\ handler \in [at : {"idle", "poll", "got"}, min : 0..Block,
                    got : [Participants -> Records]]
    /\ seed \in [at : {"idle", "got", "done"}, min : {0},
                 got : [Participants -> Records]]
    /\ sent # NoTx => sent \in [p : Participants, payer : {"agent", "corporation"},
                                ok : BOOLEAN, settled : BOOLEAN]
    /\ timeouts \in 0..MaxTimeouts

Told(p, b) == \A k \in DOMAIN news : news[k].p = p => news[k].block <= b

\* registerAuthorizationHandlers: once the notification of a revocation is
\* taken, no record of the entry is left to sign with, unless it was granted
\* again, also when the refresh that follows is skipped or gave up.
RevokedGone ==
    \A p \in Participants :
        (Current[p] = "none" /\ ~\E k \in DOMAIN news : news[k].p = p) => cache[p] = "none"

\* refreshForOperator: between refreshes the cache holds what the chain holds
\* of every entry whose changes it covers, although a refresh is skipped when
\* the block is covered, unless the last one gave up.
CacheCovers ==
    (handler.at = "idle" /\ ~dirty) =>
        \A p \in Participants : Told(p, coveredAt) => cache[p] = Current[p]

\* refreshForOperator: when every notification is handled and the last refresh
\* did not give up, the cache holds what the chain holds.
CacheCurrent == (news = <<>> /\ handler.at = "idle" /\ ~dirty) => cache = Current

\* triggerResolver: a transaction sent when the cache is settled names an entry
\* and a payer that the chain accepts.
SettledTriggerOk == (sent # NoTx /\ sent.settled) => sent.ok

\* Notifications come in the order of their blocks, none is older than the
\* block the cache covers, and each tells what its block did.
NewsInOrder ==
    /\ \A k \in DOMAIN news :
        /\ coveredAt <= news[k].block
        /\ handler.at # "idle" => handler.min <= news[k].block
        /\ news[k].revoke <=> hist[news[k].block][news[k].p] = "none"
        /\ \A m \in DOMAIN news : k <= m => news[k].block <= news[m].block
    /\ handler.at # "idle" => handler.min >= 1 /\ coveredAt <= handler.min

\* What no pending notification changes is what the chain holds now: of every
\* block from the one being handled on.
Stable(from) ==
    \A b \in from..Block, p \in Participants : Told(p, b) => hist[b][p] = Current[p]
NewsComplete ==
    /\ news # <<>> => Stable(news[1].block)
    /\ handler.at # "idle" => Stable(handler.min)

\* delegationPage: an answer is the state of a block at or after the one that
\* asked for it.
AnswerCovers ==
    handler.at = "got" => \E b \in handler.min..Block : handler.got = hist[b]

\* The cache of an agent whose first refresh succeeded.  A seed that is tried
\* again can overtake a refresh: it names no block.
AuthInv ==
    /\ TypeOK /\ NewsInOrder /\ NewsComplete /\ AnswerCovers
    /\ SeedFirst => /\ seed.at = "done"
                    /\ RevokedGone /\ CacheCovers /\ CacheCurrent /\ SettledTriggerOk

\* delegationPage: a refresh that does not give up ends, and the cache then
\* holds the change of the block that asked for it.
RefreshEnds ==
    \A b \in 2..(MaxBlocks + 1) :
        (Block = b) ~> (coveredAt >= b \/ dirty \/ timeouts > 0 \/ Block > b)

\* runWithRetries: however the first attempts fail, the cache of an agent that
\* is told of no change holds the authorizations it started with.
SeedCovers == (Block = 1) ~> (cache = hist[1] \/ Block > 1)
=============================================================================
