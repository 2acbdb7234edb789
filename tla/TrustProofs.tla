----------------------------- MODULE TrustProofs -----------------------------
(***************************************************************************)
(* Proofs about the parts that tie the agent to the chain, each as         *)
(* MCTrust instantiates it, for every value of its constants.              *)
(*                                                                         *)
(* The cache of the authorizations (Authorization): AuthInv is inductive.  *)
(* A refresh that ends replaces the whole cache by the state of some block *)
(* at or after the one that asked (AnswerCovers); that this agrees with    *)
(* the chain for every entry no pending notification is about needs        *)
(* NewsComplete: from the block being handled on, whatever changes is      *)
(* announced by a notification still pending.  That a skipped refresh does *)
(* no harm needs CacheCovers and the order of the notifications            *)
(* (NewsInOrder): a block is skipped only when it is the very block the    *)
(* cache covers.                                                           *)
(*                                                                         *)
(* The check of the fee (FeePreflight): FeeChecked ties what the check has *)
(* read to what the chain would answer as long as nothing changed since it *)
(* began.                                                                  *)
(*                                                                         *)
(* The mirror of the chain (ChainMirror): MirrorData measures the mirror   *)
(* against the chain by the notifications of the log that were not handled *)
(* yet, so that one that is handled twice, or late, is accounted for;      *)
(* MirrorFlow says what the notification at the head of the log can find   *)
(* of the flow.                                                            *)
(*                                                                         *)
(* The onboarding at every start (EcsBootstrap): BootInv says which of the *)
(* agent's entries the indexer can still miss at each step of run(), so    *)
(* that what it is about to start is not an entry the agent already has.   *)
(*                                                                         *)
(* The published trust material (TrustStore): StInv follows each program   *)
(* from one operation to the next.  A copy differs from the record only by *)
(* what its own operation changes (CopiesFit), a pass has synchronized     *)
(* what it has left behind (PassesReconcile), and every withdrawal that is *)
(* owed is still announced by the chain or in a program (HolderFollows,    *)
(* HolderWithdrawn, SelfBacked).                                           *)
(***************************************************************************)
EXTENDS MCTrust, SequenceTheorems, FiniteSetTheorems, FunctionTheorems,
        WellFoundedInduction, TLAPS

\* The notifications of the first n blocks.
Notices(n) == [block : 1..n, p : Participants, revoke : BOOLEAN]
\* The values of the cache and of a block.
Maps == [Participants -> Records]

\* The part of AuthInv about an agent whose first refresh succeeded.
Seeded ==
    SeedFirst => /\ seed.at = "done"
                 /\ RevokedGone /\ CacheCovers /\ CacheCurrent /\ SettledTriggerOk

\* AuthInv, by its parts.
LEMMA Parts == AuthInv <=> TypeOK /\ NewsInOrder /\ NewsComplete /\ AnswerCovers /\ Seeded
  BY DEF AuthInv, Seeded

\* A refresh that does not run has its type.
LEMMA IdleType == Idle \in [at : {"idle", "poll", "got"}, min : {0}, got : Maps]
  BY DEF Idle, NoCache, Records, Maps

\* AuthInv holds of the authorizations a start finds.
LEMMA InitInv == Init => AuthInv
<1> SUFFICES ASSUME Init PROVE AuthInv
  OBVIOUS
<1> USE BoundsAssumption
<1>1. PICK h \in [Participants -> {"none", "trigger"}] : hist = <<h>>
  BY DEF Init
<1>2. /\ hist \in Seq(Maps) /\ hist # <<>> /\ Block = 1 /\ Current = h /\ hist[1] = h
      /\ h \in Maps
  BY <1>1 DEF Block, Current, Records, Maps
<1>3. cache \in Maps /\ (SeedFirst => cache = h)
  BY <1>2 DEF Init, NoCache, Maps, Records
<1>4. /\ handler = Idle /\ handler.at = "idle" /\ seed \in
           [at : {"idle", "got", "done"}, min : {0}, got : Maps]
      /\ SeedFirst => seed.at = "done"
  BY IdleType DEF Init, Idle, Maps
<1>5. /\ news = <<>> /\ DOMAIN news = {} /\ proj = 1 /\ coveredAt = 0 /\ sent = NoTx
      /\ timeouts = 0
  BY DEF Init
<1>9. recent \in BOOLEAN /\ dirty \in BOOLEAN
  BY DEF Init
<1>6. TypeOK
  <2>1. news \in Seq([block : 1..Block, p : Participants, revoke : BOOLEAN])
    BY <1>5
  <2>2. handler \in [at : {"idle", "poll", "got"}, min : 0..Block, got : Maps]
    BY <1>2, <1>4, IdleType
  <2>3. proj \in 1..Block /\ coveredAt \in 0..Block /\ timeouts \in 0..MaxTimeouts
    BY <1>2, <1>5
  <2> QED
    BY <1>2, <1>3, <1>4, <1>5, <1>9, <2>1, <2>2, <2>3, Zenon DEF TypeOK, Maps
<1>7. NewsInOrder /\ NewsComplete /\ AnswerCovers
  BY <1>4, <1>5 DEF NewsInOrder, NewsComplete, AnswerCovers
<1>8. Seeded
  BY <1>2, <1>3, <1>4, <1>5
     DEF Seeded, RevokedGone, CacheCovers, CacheCurrent, SettledTriggerOk
<1> QED
  BY <1>6, <1>7, <1>8, Parts

\* A block is added whose state is f, with the notifications n + 1 to m: every
\* entry it changed has one, which tells whether it was revoked.
Commits(f, n, m, B) ==
    /\ B >= 1 /\ n < m /\ Block = B /\ Block' = B + 1
    /\ hist' \in Seq(Maps) /\ hist' # <<>>
    /\ \A b \in 1..B : hist'[b] = hist[b]
    /\ hist'[B + 1] = f /\ Current' = f
    /\ news' \in Seq(Notices(B + 1)) /\ DOMAIN news = 1..n /\ DOMAIN news' = 1..m
    /\ \A k \in 1..n : news'[k] = news[k]
    /\ \A k \in 1..n : news[k].block \in 1..B /\ news[k].p \in Participants
    /\ \A k \in (n + 1)..m : /\ news'[k].block = B + 1
                             /\ news'[k].revoke <=> f[news'[k].p] = "none"
    /\ \A p \in Participants : f[p] # Current[p] =>
           \E k \in (n + 1)..m : news'[k].p = p
    /\ UNCHANGED <<proj, cache, coveredAt, recent, handler, seed, dirty, sent, timeouts>>

\* A block of the chain keeps AuthInv: whatever it changes is announced.
LEMMA NewBlock ==
  ASSUME AuthInv, NEW f \in Maps, NEW n \in Nat, NEW m \in Nat, NEW B \in Nat,
         Commits(f, n, m, B)
  PROVE  AuthInv'
<1> USE DEF Commits
<1>0. TypeOK /\ NewsInOrder /\ NewsComplete /\ AnswerCovers /\ Seeded
  BY Parts
<1>1. /\ coveredAt \in 0..B /\ handler.min \in 0..B
      /\ handler.at # "idle" => handler.min \in 1..B
  BY <1>0 DEF TypeOK, NewsInOrder
<1>5. ASSUME NEW p \in Participants, NEW b \in 0..B, Told(p, b)'
      PROVE  Told(p, b) /\ f[p] = Current[p]
  <2>1. Told(p, b)
    BY <1>5 DEF Told
  <2>2. \A k \in (n + 1)..m : news'[k].p # p
    BY <1>5 DEF Told
  <2> QED
    BY <2>1, <2>2
<1>6. TypeOK'
  <2>1. /\ proj' \in 1..Block' /\ coveredAt' \in 0..Block' /\ timeouts' \in 0..MaxTimeouts
    BY <1>0 DEF TypeOK
  <2>2. handler' \in [at : {"idle", "poll", "got"}, min : 0..Block', got : Maps]
    BY <1>0 DEF TypeOK, Maps
  <2> QED
    BY <1>0, <2>1, <2>2, Zenon DEF TypeOK, Maps, Notices
<1>7. NewsInOrder'
  <2>1. \A k \in DOMAIN news' : coveredAt <= news'[k].block
    BY <1>0, <1>1 DEF NewsInOrder
  <2>2. \A k \in DOMAIN news' : handler.at # "idle" => handler.min <= news'[k].block
    BY <1>0, <1>1 DEF NewsInOrder
  <2>3. \A k \in DOMAIN news' :
           news'[k].revoke <=> hist'[news'[k].block][news'[k].p] = "none"
    BY <1>0 DEF NewsInOrder
  <2>4. \A k, l \in DOMAIN news' : k <= l => news'[k].block <= news'[l].block
    BY <1>0 DEF NewsInOrder
  <2> QED
    BY <1>0, <2>1, <2>2, <2>3, <2>4 DEF NewsInOrder
<1>8. NewsComplete'
  <2>1. ASSUME NEW from \in 1..B, Stable(from) PROVE Stable(from)'
    <3> SUFFICES ASSUME NEW b \in from..(B + 1), NEW p \in Participants, Told(p, b)'
                 PROVE  hist'[b][p] = f[p]
      BY DEF Stable
    <3>1. CASE b = B + 1
      BY <3>1
    <3>2. CASE b \in from..B
      BY <1>5, <2>1, <3>2 DEF Stable
    <3> QED
      BY <3>1, <3>2
  <2>2. Stable(B + 1)'
    BY DEF Stable
  <2>3. Stable(news[1].block)'
    <3>1. CASE n = 0
      <4>1. news'[1].block = B + 1
        BY <3>1
      <4> QED
        BY <2>2, <4>1 DEF Stable
    <3>2. CASE n > 0
      <4>1. news'[1].block = news[1].block /\ news[1].block \in 1..B /\ news # <<>>
        BY <3>2
      <4>2. Stable(news[1].block)
        BY <1>0, <4>1 DEF NewsComplete
      <4>3. PICK from \in 1..B : from = news[1].block
        BY <4>1
      <4>4. Stable(from)
        BY <4>2, <4>3 DEF Stable
      <4>5. Stable(from)'
        BY <2>1, <4>4
      <4> QED
        BY <4>1, <4>3, <4>5 DEF Stable
    <3> QED
      BY <3>1, <3>2
  <2>4. handler.at # "idle" => Stable(handler.min)'
    BY <1>0, <1>1, <2>1 DEF NewsComplete
  <2> QED
    BY <2>3, <2>4 DEF NewsComplete, Stable
<1>9. AnswerCovers'
  BY <1>0, <1>1 DEF AnswerCovers
<1>10. Seeded'
  <2> SUFFICES ASSUME SeedFirst
               PROVE /\ seed.at = "done"
                     /\ RevokedGone' /\ CacheCovers' /\ CacheCurrent' /\ SettledTriggerOk'
    BY DEF Seeded
  <2>1. RevokedGone'
    <3> SUFFICES ASSUME NEW p \in Participants, f[p] = "none",
                        ~\E k \in 1..m : news'[k].p = p
                 PROVE  cache[p] = "none"
      BY DEF RevokedGone
    <3>1. ~\E k \in 1..n : news[k].p = p
      OBVIOUS
    <3>2. f[p] = Current[p]
      <4>1. \A k \in (n + 1)..m : k \in 1..m
        OBVIOUS
      <4> QED
        BY <4>1
    <3> QED
      BY <1>0, <3>1, <3>2 DEF Seeded, RevokedGone
  <2>2. CacheCovers'
    BY <1>0, <1>1, <1>5 DEF Seeded, CacheCovers
  <2>3. news' # <<>>
    OBVIOUS
  <2> QED
    BY <1>0, <2>1, <2>2, <2>3 DEF Seeded, CacheCurrent, SettledTriggerOk
<1> QED
  BY <1>6, <1>7, <1>8, <1>9, <1>10, Parts DEF AuthInv, Seeded

\* A sequence over a set is one over a larger set.
LEMMA SeqWider ==
  ASSUME NEW S, NEW T, S \subseteq T, NEW s \in Seq(S)
  PROVE  s \in Seq(T)
  BY SeqDef

\* Every step of the chain, the indexer, the handlers and refreshForOperator keeps
\* AuthInv.
LEMMA NextInv == AuthInv /\ [Next]_vars => AuthInv'
<1> SUFFICES ASSUME AuthInv, [Next]_vars PROVE AuthInv'
  OBVIOUS
<1> USE BoundsAssumption
<1>0. TypeOK /\ NewsInOrder /\ NewsComplete /\ AnswerCovers /\ Seeded
  BY Parts
<1>a. PICK B \in Nat : B >= 1 /\ Block = B /\ Len(hist) = B
  BY <1>0 DEF TypeOK, Block
<1>b. PICK n \in Nat : Len(news) = n /\ DOMAIN news = 1..n
  BY <1>0 DEF TypeOK
<1>c. /\ hist \in Seq(Maps) /\ news \in Seq(Notices(B)) /\ news \in Seq(Notices(B + 1))
      /\ Current \in Maps
      /\ \A k \in 1..n : news[k] \in Notices(B)
  <2>1. hist \in Seq(Maps) /\ news \in Seq(Notices(B))
    BY <1>0, <1>a DEF TypeOK, Maps, Notices
  <2>2. Notices(B) \subseteq Notices(B + 1)
    BY DEF Notices
  <2>3. news \in Seq(Notices(B + 1))
    BY <2>1, <2>2, SeqWider
  <2>4. Current \in Maps
    BY <1>a, <2>1 DEF Current
  <2>5. \A k \in 1..n : news[k] \in Notices(B)
    BY <1>b, <2>1
  <2> QED
    BY <2>1, <2>3, <2>4, <2>5
<1>d. \A k \in 1..n : /\ news[k].block \in 1..B /\ news[k].p \in Participants
                      /\ news[k].revoke \in BOOLEAN
  BY <1>c DEF Notices
<1>1. ASSUME NEW p \in Participants, NEW r \in Records, changeAuthorization(p, r)
      PROVE  AuthInv'
  <2>1. PICK f \in Maps : f = [Current EXCEPT ![p] = r]
    BY <1>c DEF Maps
  <2>2. /\ f[p] = r /\ \A q \in Participants \ {p} : f[q] = Current[q]
    BY <1>c, <2>1 DEF Maps
  <2>3. hist' = Append(hist, f)
    BY <1>1, <2>1 DEF changeAuthorization
  <2>4. /\ hist' \in Seq(Maps) /\ hist' # <<>> /\ Block' = B + 1
        /\ \A b \in 1..B : hist'[b] = hist[b]
        /\ hist'[B + 1] = f /\ Current' = f
    BY <1>a, <1>c, <2>3 DEF Block, Current
  <2>5. Notice(p, r) \in Notices(B + 1)
    BY <1>a DEF Notice, Notices
  <2>6. news' = Append(news, Notice(p, r))
    BY <1>1 DEF changeAuthorization
  <2>7. /\ news' \in Seq(Notices(B + 1)) /\ DOMAIN news' = 1..(n + 1)
        /\ \A k \in 1..n : news'[k] = news[k]
        /\ news'[n + 1] = Notice(p, r)
    BY <1>b, <1>c, <2>5, <2>6
  <2>8. /\ news'[n + 1].block = B + 1 /\ news'[n + 1].p = p
        /\ news'[n + 1].revoke <=> f[p] = "none"
    <3>1. Notice(p, r).block = B + 1 /\ Notice(p, r).p = p
      BY <1>a DEF Notice
    <3>2. Notice(p, r).revoke <=> f[p] = "none"
      BY <2>2 DEF Notice
    <3> QED
      BY <2>7, <3>1, <3>2
  <2>9. /\ \A k \in (n + 1)..(n + 1) : /\ news'[k].block = B + 1
                                       /\ news'[k].revoke <=> f[news'[k].p] = "none"
        /\ \A q \in Participants : f[q] # Current[q] =>
               \E k \in (n + 1)..(n + 1) : news'[k].p = q
    BY <2>2, <2>8
  <2>10. UNCHANGED <<proj, cache, coveredAt, recent, handler, seed, dirty, sent, timeouts>>
    BY <1>1 DEF changeAuthorization
  <2>11. n + 1 \in Nat /\ n < n + 1
    OBVIOUS
  <2>12. Commits(f, n, n + 1, B)
    BY <1>a, <1>b, <1>d, <2>4, <2>7, <2>9, <2>10, <2>11, Zenon DEF Commits
  <2> QED
    BY <2>11, <2>12, NewBlock
<1>2. ASSUME NEW p \in Participants, NEW q \in Participants, NEW r \in Records,
             NEW s \in Records, changeTwo(p, r, q, s)
      PROVE  AuthInv'
  <2>1. PICK f \in Maps : f = [Current EXCEPT ![p] = r, ![q] = s]
    BY <1>c DEF Maps
  <2>2. /\ p # q /\ f[p] = r /\ f[q] = s
        /\ \A x \in Participants \ {p, q} : f[x] = Current[x]
    BY <1>2, <1>c, <2>1 DEF Maps, changeTwo
  <2>3. hist' = Append(hist, f)
    BY <1>2, <2>1 DEF changeTwo
  <2>4. /\ hist' \in Seq(Maps) /\ hist' # <<>> /\ Block' = B + 1
        /\ \A b \in 1..B : hist'[b] = hist[b]
        /\ hist'[B + 1] = f /\ Current' = f
    BY <1>a, <1>c, <2>3 DEF Block, Current
  <2>5. Notice(p, r) \in Notices(B + 1) /\ Notice(q, s) \in Notices(B + 1)
    BY <1>a DEF Notice, Notices
  <2>6. news' = Append(Append(news, Notice(p, r)), Notice(q, s))
    BY <1>2 DEF changeTwo
  <2>7. /\ news' \in Seq(Notices(B + 1)) /\ DOMAIN news' = 1..(n + 2)
        /\ \A k \in 1..n : news'[k] = news[k]
        /\ news'[n + 1] = Notice(p, r) /\ news'[n + 2] = Notice(q, s)
    BY <1>b, <1>c, <2>5, <2>6
  <2>8. /\ news'[n + 1].block = B + 1 /\ news'[n + 1].p = p
        /\ news'[n + 1].revoke <=> f[p] = "none"
        /\ news'[n + 2].block = B + 1 /\ news'[n + 2].p = q
        /\ news'[n + 2].revoke <=> f[q] = "none"
    <3>1. /\ Notice(p, r).block = B + 1 /\ Notice(p, r).p = p
          /\ Notice(q, s).block = B + 1 /\ Notice(q, s).p = q
      BY <1>a DEF Notice
    <3>2. Notice(p, r).revoke <=> f[p] = "none"
      BY <2>2 DEF Notice
    <3>3. Notice(q, s).revoke <=> f[q] = "none"
      BY <2>2 DEF Notice
    <3> QED
      BY <2>7, <3>1, <3>2, <3>3
  <2>9. /\ \A k \in (n + 1)..(n + 2) : /\ news'[k].block = B + 1
                                       /\ news'[k].revoke <=> f[news'[k].p] = "none"
        /\ \A x \in Participants : f[x] # Current[x] =>
               \E k \in (n + 1)..(n + 2) : news'[k].p = x
    BY <2>2, <2>8
  <2>10. UNCHANGED <<proj, cache, coveredAt, recent, handler, seed, dirty, sent, timeouts>>
    BY <1>2 DEF changeTwo
  <2>11. n + 2 \in Nat /\ n < n + 2
    OBVIOUS
  <2>12. Commits(f, n, n + 2, B)
    BY <1>a, <1>b, <1>d, <2>4, <2>7, <2>9, <2>10, <2>11, Zenon DEF Commits
  <2> QED
    BY <2>11, <2>12, NewBlock
<1>3. CASE project
  <2>1. TypeOK'
    BY <1>0, <1>3 DEF project, TypeOK, Block
  <2> QED
    BY <1>0, <1>3, <2>1, Parts
       DEF project, AuthInv, NewsInOrder, NewsComplete, AnswerCovers, Seeded, RevokedGone,
           CacheCovers, CacheCurrent, SettledTriggerOk, Stable, Told, Block, Current
<1>4. CASE tick
  <2>1. TypeOK'
    BY <1>0, <1>4 DEF tick, TypeOK, Block
  <2> QED
    BY <1>0, <1>4, <2>1, Parts
       DEF tick, AuthInv, NewsInOrder, NewsComplete, AnswerCovers, Seeded, RevokedGone,
           CacheCovers, CacheCurrent, SettledTriggerOk, Stable, Told, Block, Current
<1>5. CASE takeEvent
  <2>1. PICK e : /\ e = news[1] /\ n >= 1 /\ handleEvent(e) /\ news' = Tail(news)
                 /\ handler.at = "idle"
                 /\ UNCHANGED <<hist, proj, coveredAt, recent, seed, dirty, sent, timeouts>>
    BY <1>5, <1>b, <1>c DEF takeEvent
  <2>2. /\ DOMAIN news' = 1..(n - 1) /\ \A k \in 1..(n - 1) : news'[k] = news[k + 1]
        /\ news' \in Seq(Notices(B)) /\ n - 1 \in Nat
    BY <2>1, <1>b, <1>c
  <2>3. Block' = B /\ Current' = Current /\ hist' = hist
    BY <2>1, <1>a DEF Block, Current
  <2>4. /\ e.block \in 1..B /\ e.p \in Participants /\ e.revoke \in BOOLEAN
        /\ coveredAt <= e.block
        /\ e.revoke <=> hist[e.block][e.p] = "none"
        /\ \A k \in 1..n : e.block <= news[k].block
    BY <1>0, <1>b, <1>d, <2>1 DEF NewsInOrder
  <2>5. /\ handler'.at = "idle" => e.block <= coveredAt
        /\ handler'.at # "got"
        /\ handler'.at # "idle" => handler'.min = e.block
        /\ handler' \in [at : {"idle", "poll", "got"}, min : 0..B, got : Maps]
    <3>1. CASE needsRefresh(e.block)
      <4>1. handler' = [at |-> "poll", min |-> e.block, got |-> NoCache]
        BY <2>1, <3>1 DEF handleEvent
      <4>2. NoCache \in Maps
        BY DEF NoCache, Maps, Records
      <4> QED
        BY <2>4, <4>1, <4>2
    <3>2. CASE ~needsRefresh(e.block)
      <4>1. handler' = Idle
        BY <2>1, <3>2 DEF handleEvent
      <4>2. e.block <= coveredAt
        BY <1>0, <2>4, <3>2 DEF needsRefresh, TypeOK
      <4> QED
        BY <4>1, <4>2, IdleType DEF Idle
    <3> QED
      BY <3>1, <3>2
  <2>6. /\ cache' \in Maps
        /\ \A p \in Participants \ {e.p} : cache'[p] = cache[p]
        /\ cache'[e.p] = IF e.revoke THEN "none" ELSE cache[e.p]
    <3>1. cache \in Maps /\ "none" \in Records
      BY <1>0 DEF TypeOK, Maps, Records
    <3> QED
      BY <2>1, <2>4, <3>1 DEF handleEvent, invalidateParticipant, Maps
  <2>7. ASSUME NEW p \in Participants, NEW b \in e.block..B, Told(p, b)'
        PROVE  Told(p, b)
    <3> SUFFICES ASSUME NEW k \in 1..n, news[k].p = p PROVE news[k].block <= b
      BY <1>b DEF Told
    <3>1. CASE k = 1
      BY <2>1, <2>4, <3>1
    <3>2. CASE k # 1
      <4>1. k - 1 \in 1..(n - 1) /\ news'[k - 1] = news[k]
        BY <2>2, <3>2, <1>b
      <4> QED
        BY <2>2, <2>7, <4>1 DEF Told
    <3> QED
      BY <3>1, <3>2
  <2>8. ASSUME NEW p \in Participants, NEW b \in e.block..B, Told(p, b)'
        PROVE  hist[b][p] = Current[p]
    <3>1. Stable(news[1].block) /\ Told(p, b)
      BY <1>0, <1>b, <2>1, <2>7, <2>8 DEF NewsComplete
    <3> QED
      BY <1>a, <2>1, <3>1 DEF Stable
  <2>9. TypeOK'
    <3>1. /\ proj' \in 1..Block' /\ coveredAt' \in 0..Block' /\ timeouts' \in 0..MaxTimeouts
      BY <1>0, <1>a, <2>1, <2>3 DEF TypeOK
    <3>2. /\ hist' \in Seq(Maps) /\ hist' # <<>> /\ news' \in Seq(Notices(Block'))
          /\ handler' \in [at : {"idle", "poll", "got"}, min : 0..Block', got : Maps]
      BY <1>0, <2>2, <2>3, <2>5 DEF TypeOK, Maps
    <3> QED
      BY <1>0, <2>1, <2>6, <3>1, <3>2, Zenon DEF TypeOK, Maps, Notices
  <2>10. NewsInOrder'
    <3>0. /\ DOMAIN news' = 1..(n - 1) /\ coveredAt' = coveredAt /\ hist' = hist
          /\ handler'.at # "idle" => handler'.min >= 1 /\ coveredAt' <= handler'.min
      BY <2>1, <2>2, <2>4, <2>5
    <3> SUFFICES ASSUME NEW k \in 1..(n - 1)
                 PROVE  /\ coveredAt <= news'[k].block
                        /\ handler'.at # "idle" => handler'.min <= news'[k].block
                        /\ news'[k].revoke <=> hist[news'[k].block][news'[k].p] = "none"
                        /\ \A l \in 1..(n - 1) : k <= l => news'[k].block <= news'[l].block
      BY <3>0 DEF NewsInOrder
    <3>1. /\ k + 1 \in 1..n /\ news'[k] = news[k + 1]
          /\ \A l \in 1..(n - 1) : l + 1 \in 1..n /\ news'[l] = news[l + 1]
      BY <1>b, <2>2
    <3>2. \A l \in 1..n : k + 1 <= l => news[k + 1].block <= news[l].block
      BY <1>0, <1>b, <3>1 DEF NewsInOrder
    <3>3. \A l \in 1..(n - 1) : k <= l => news'[k].block <= news'[l].block
      BY <3>1, <3>2
    <3> QED
      BY <1>0, <1>b, <2>4, <2>5, <3>1, <3>3 DEF NewsInOrder
  <2>11. NewsComplete'
    <3>1. ASSUME NEW from \in e.block..B
          PROVE  Stable(from)'
      <4> SUFFICES ASSUME NEW b \in from..B, NEW p \in Participants, Told(p, b)'
                   PROVE  hist[b][p] = Current[p]
        BY <2>3 DEF Stable
      <4>1. b \in e.block..B
        BY <2>4
      <4> QED
        BY <2>8, <4>1
    <3>2. news' # <<>> => Stable(news[1].block)'
      <4> SUFFICES ASSUME news' # <<>> PROVE Stable(news[1].block)'
        OBVIOUS
      <4>1. n - 1 >= 1 /\ news'[1] = news[2] /\ 2 \in 1..n
        BY <1>b, <2>2
      <4>2. PICK from \in e.block..B : from = news'[1].block
        BY <1>d, <2>4, <4>1
      <4> QED
        BY <3>1, <4>2 DEF Stable
    <3>3. handler'.at # "idle" => Stable(handler.min)'
      <4> SUFFICES ASSUME handler'.at # "idle" PROVE Stable(handler.min)'
        OBVIOUS
      <4>1. PICK from \in e.block..B : from = handler'.min
        BY <2>4, <2>5
      <4> QED
        BY <3>1, <4>1 DEF Stable
    <3> QED
      BY <3>2, <3>3 DEF NewsComplete
  <2>12. AnswerCovers'
    BY <2>5 DEF AnswerCovers
  <2>13. Seeded'
    <3> SUFFICES ASSUME SeedFirst
                 PROVE  seed'.at = "done" /\ RevokedGone' /\ CacheCovers' /\ CacheCurrent'
                        /\ SettledTriggerOk'
      BY DEF Seeded
    <3>1. RevokedGone'
      <4> SUFFICES ASSUME NEW p \in Participants, Current[p] = "none",
                          \A k \in 1..(n - 1) : news'[k].p # p
                   PROVE  cache'[p] = "none"
        BY <2>2, <2>3 DEF RevokedGone
      <4>1. Told(p, e.block)'
        BY <2>2 DEF Told
      <4>2. hist[e.block][p] = "none"
        BY <2>4, <2>8, <4>1
      <4>3. CASE p = e.p
        BY <2>4, <2>6, <4>2, <4>3
      <4>4. CASE p # e.p
        <5>1. \A k \in 1..n : news[k].p # p
          <6> SUFFICES ASSUME NEW k \in 1..n PROVE news[k].p # p
            OBVIOUS
          <6>1. CASE k = 1
            BY <2>1, <4>4, <6>1
          <6>2. CASE k # 1
            <7>1. k - 1 \in 1..(n - 1) /\ news'[k - 1] = news[k]
              BY <1>b, <2>2, <6>2
            <7> QED
              BY <7>1
          <6> QED
            BY <6>1, <6>2
        <5> QED
          BY <1>0, <1>b, <2>6, <4>4, <5>1 DEF Seeded, RevokedGone
      <4> QED
        BY <4>3, <4>4
    <3>2. CacheCovers'
      <4> SUFFICES ASSUME handler'.at = "idle", ~dirty, NEW p \in Participants,
                          Told(p, coveredAt)'
                   PROVE  cache'[p] = Current[p]
        BY <2>1, <2>3 DEF CacheCovers
      <4>1. coveredAt = e.block
        BY <1>0, <2>4, <2>5 DEF TypeOK
      <4>2. PICK b \in e.block..B : b = coveredAt
        BY <2>4, <4>1
      <4>3. Told(p, b)'
        BY <2>1, <4>2 DEF Told
      <4>4. Told(p, coveredAt) /\ hist[e.block][p] = Current[p]
        BY <2>7, <2>8, <4>1, <4>2, <4>3
      <4>5. cache[p] = Current[p]
        BY <1>0, <2>1, <4>4 DEF Seeded, CacheCovers
      <4> QED
        BY <2>4, <2>6, <4>4, <4>5
    <3>3. CacheCurrent'
      <4> SUFFICES ASSUME news' = <<>>, handler'.at = "idle", ~dirty
                   PROVE  cache' = Current
        BY <2>1, <2>3 DEF CacheCurrent
      <4>1. \A p \in Participants : Told(p, coveredAt)'
        BY DEF Told
      <4>2. \A p \in Participants : cache'[p] = Current[p]
        BY <2>1, <2>3, <3>2, <4>1 DEF CacheCovers
      <4> QED
        BY <1>c, <2>6, <4>2 DEF Maps
    <3> QED
      BY <1>0, <2>1, <3>1, <3>2, <3>3 DEF Seeded, SettledTriggerOk
  <2> QED
    BY <2>9, <2>10, <2>11, <2>12, <2>13 DEF AuthInv, Seeded
<1>6. CASE pollDelegation
  <2>1. hist' = hist /\ news' = news /\ Block' = B /\ Current' = Current
    BY <1>6, <1>a DEF pollDelegation, Block, Current
  <2>2. /\ handler.at = "poll" /\ handler.min \in 1..B /\ proj \in handler.min..B
        /\ handler.got \in Maps
    BY <1>0, <1>6, <1>a DEF pollDelegation, pageCovers, NewsInOrder, TypeOK, Maps
  <2>3. /\ handler'.at = "got" /\ handler'.min = handler.min /\ handler'.got = hist[proj]
        /\ handler' \in [at : {"idle", "poll", "got"}, min : 0..B, got : Maps]
    <3>1. hist[proj] \in Maps
      BY <1>0, <1>a, <1>c DEF TypeOK
    <3> QED
      BY <1>0, <1>6, <1>a, <3>1 DEF pollDelegation, TypeOK, Maps
  <2>4. TypeOK'
    BY <1>0, <1>6, <1>a, <2>1, <2>3 DEF pollDelegation, TypeOK, Maps
  <2>5. NewsInOrder' /\ AnswerCovers'
    BY <1>0, <1>6, <2>1, <2>2, <2>3 DEF pollDelegation, NewsInOrder, AnswerCovers
  <2>6. NewsComplete'
    BY <1>0, <2>1, <2>2, <2>3 DEF NewsComplete, Stable, Told, Block
  <2>7. Seeded'
    BY <1>0, <1>6, <2>1, <2>2, <2>3
       DEF pollDelegation, Seeded, RevokedGone, CacheCovers, CacheCurrent, SettledTriggerOk
  <2> QED
    BY <2>4, <2>5, <2>6, <2>7 DEF AuthInv, Seeded
<1>7. CASE pollGivesUp
  <2>1. /\ hist' = hist /\ news' = news /\ Block' = B /\ Current' = Current
        /\ handler' = Idle /\ handler'.at = "idle" /\ dirty' = TRUE
    BY <1>7, <1>a DEF pollGivesUp, Block, Current, Idle
  <2>2. TypeOK'
    <3>1. timeouts' \in 0..MaxTimeouts
      BY <1>0, <1>7 DEF pollGivesUp, TypeOK
    <3>2. handler' \in [at : {"idle", "poll", "got"}, min : 0..B, got : Maps]
      BY <2>1, IdleType
    <3> QED
      BY <1>0, <1>7, <1>a, <2>1, <3>1, <3>2 DEF pollGivesUp, TypeOK, Maps
  <2>3. NewsInOrder' /\ NewsComplete' /\ AnswerCovers'
    BY <1>0, <1>7, <1>a, <2>1
       DEF pollGivesUp, NewsInOrder, NewsComplete, AnswerCovers, Stable, Told
  <2>4. Seeded'
    BY <1>0, <1>7, <2>1
       DEF pollGivesUp, Seeded, RevokedGone, CacheCovers, CacheCurrent, SettledTriggerOk
  <2> QED
    BY <2>2, <2>3, <2>4 DEF AuthInv, Seeded
<1>8. CASE endRefresh
  <2>1. /\ hist' = hist /\ news' = news /\ Block' = B /\ Current' = Current
        /\ handler' = Idle /\ handler'.at = "idle" /\ handler.at = "got"
        /\ UNCHANGED <<proj, seed, sent, timeouts>>
    BY <1>8, <1>a DEF endRefresh, Block, Current, Idle
  <2>2. /\ handler.min \in 1..B /\ handler.got \in Maps
        /\ \A k \in 1..n : handler.min <= news[k].block
    <3>1. handler.min \in 0..B /\ handler.got \in Maps
      BY <1>0, <1>a DEF TypeOK, Maps
    <3>2. handler.min >= 1 /\ \A k \in 1..n : handler.min <= news[k].block
      BY <1>0, <1>b, <2>1 DEF NewsInOrder
    <3> QED
      BY <3>1, <3>2
  <2>3. cache' = handler.got /\ coveredAt' = handler.min
    BY <1>8, <2>2 DEF endRefresh, applyRefresh
  <2>4. PICK b \in handler.min..B : cache' = hist[b]
    BY <1>0, <1>a, <2>1, <2>3 DEF AnswerCovers
  <2>5. ASSUME NEW p \in Participants, Told(p, handler.min) \/ Told(p, b)
        PROVE  cache'[p] = Current[p]
    <3>1. Stable(handler.min) /\ handler.min \in Int /\ b \in Int /\ handler.min <= b
      BY <1>0, <2>1, <2>2 DEF NewsComplete
    <3>2. Told(p, b)
      BY <1>b, <1>d, <2>5, <3>1 DEF Told
    <3> QED
      BY <1>a, <2>4, <3>1, <3>2 DEF Stable
  <2>6. TypeOK'
    <3>1. recent' \in BOOLEAN /\ dirty' \in BOOLEAN
      BY <1>8 DEF endRefresh, applyRefresh
    <3>2. /\ handler' \in [at : {"idle", "poll", "got"}, min : 0..Block', got : Maps]
          /\ coveredAt' \in 0..Block'
      BY <2>1, <2>2, <2>3, IdleType
    <3> QED
      BY <1>0, <1>a, <2>1, <2>2, <2>3, <3>1, <3>2, Zenon DEF TypeOK, Maps
  <2>7. NewsInOrder' /\ NewsComplete' /\ AnswerCovers'
    <3>1. NewsInOrder'
      BY <1>0, <1>b, <2>1, <2>2, <2>3 DEF NewsInOrder
    <3>2. NewsComplete' /\ AnswerCovers'
      BY <1>0, <1>a, <2>1 DEF NewsComplete, AnswerCovers, Stable, Told
    <3> QED
      BY <3>1, <3>2
  <2>8. Seeded'
    <3> SUFFICES ASSUME SeedFirst
                 PROVE  seed'.at = "done" /\ RevokedGone' /\ CacheCovers' /\ CacheCurrent'
                        /\ SettledTriggerOk'
      BY DEF Seeded
    <3>1. RevokedGone'
      BY <2>1, <2>5 DEF RevokedGone, Told
    <3>2. CacheCovers'
      BY <2>1, <2>3, <2>5 DEF CacheCovers, Told
    <3>3. CacheCurrent'
      <4> SUFFICES ASSUME news = <<>> PROVE cache' = Current
        BY <2>1 DEF CacheCurrent
      <4>1. \A p \in Participants : cache'[p] = Current[p]
        BY <2>5 DEF Told
      <4> QED
        BY <1>c, <2>2, <2>3, <4>1 DEF Maps
    <3> QED
      BY <1>0, <2>1, <3>1, <3>2, <3>3 DEF Seeded, SettledTriggerOk
  <2> QED
    BY <2>6, <2>7, <2>8 DEF AuthInv, Seeded
<1>9. CASE seedAsks \/ seedFails \/ seedEnds
  <2>1. /\ hist' = hist /\ news' = news /\ handler' = handler /\ dirty' = dirty
        /\ sent' = sent /\ proj' = proj /\ Block' = B /\ Current' = Current
    BY <1>9, <1>a DEF seedAsks, seedFails, seedEnds, Block, Current
  <2>2. seed.at # "done" /\ ~SeedFirst
    BY <1>0, <1>9 DEF seedAsks, seedFails, seedEnds, Seeded
  <2>3. coveredAt' = coveredAt /\ cache' \in Maps /\ recent' \in BOOLEAN
    BY <1>0, <1>9 DEF seedAsks, seedFails, seedEnds, applyRefresh, TypeOK, Maps
  <2>4. timeouts' \in 0..MaxTimeouts
    BY <1>0, <1>9 DEF seedAsks, seedFails, seedEnds, TypeOK
  <2>5. seed' \in [at : {"idle", "got", "done"}, min : {0}, got : Maps]
    <3>1. hist[proj] \in Maps /\ seed \in [at : {"idle", "got", "done"}, min : {0}, got : Maps]
      BY <1>0, <1>a, <1>c DEF TypeOK, Maps
    <3>2. CASE seedAsks
      BY <3>1, <3>2 DEF seedAsks
    <3>3. CASE seedFails \/ seedEnds
      BY <3>3, IdleType DEF seedFails, seedEnds, Idle
    <3> QED
      BY <1>9, <3>2, <3>3
  <2>6. TypeOK'
    BY <1>0, <1>a, <2>1, <2>3, <2>4, <2>5 DEF TypeOK, Maps
  <2>7. NewsInOrder' /\ NewsComplete' /\ AnswerCovers'
    BY <1>0, <1>a, <2>1, <2>3
       DEF NewsInOrder, NewsComplete, AnswerCovers, Stable, Told
  <2> QED
    BY <2>2, <2>6, <2>7 DEF AuthInv
<1>10. ASSUME NEW p \in Participants, triggerResolver(p) PROVE AuthInv'
  <2>1. /\ hist' = hist /\ news' = news /\ Block' = B /\ Current' = Current
        /\ UNCHANGED <<proj, cache, coveredAt, recent, handler, seed, dirty, timeouts>>
    BY <1>10, <1>a DEF triggerResolver, Block, Current
  <2>2. /\ sent' \in [p : Participants, payer : {"agent", "corporation"},
                      ok : BOOLEAN, settled : BOOLEAN]
        /\ sent'.settled => news = <<>> /\ handler.at = "idle" /\ ~dirty
    BY <1>10 DEF triggerResolver, feeGranterFor
  <2>3. cache = Current => sent'.ok
    BY <1>10 DEF triggerResolver, canSign, feeGranterFor
  <2>4. TypeOK'
    BY <1>0, <1>a, <2>1, <2>2 DEF TypeOK
  <2>5. NewsInOrder' /\ NewsComplete' /\ AnswerCovers'
    BY <1>0, <1>a, <2>1 DEF NewsInOrder, NewsComplete, AnswerCovers, Stable, Told
  <2>6. Seeded'
    BY <1>0, <2>1, <2>2, <2>3
       DEF Seeded, RevokedGone, CacheCovers, CacheCurrent, SettledTriggerOk, Told
  <2> QED
    BY <2>4, <2>5, <2>6 DEF AuthInv, Seeded
<1>11. CASE UNCHANGED vars
  BY <1>0, <1>11
     DEF vars, AuthInv, TypeOK, NewsInOrder, NewsComplete, AnswerCovers, Seeded, RevokedGone,
         CacheCovers, CacheCurrent, SettledTriggerOk, Stable, Told, Block, Current
<1> QED
  BY <1>1, <1>2, <1>3, <1>4, <1>5, <1>6, <1>7, <1>8, <1>9, <1>10, <1>11
     DEF Next, Refresh

\* The cache of AuthorizationService agrees with the chain for every entry whose
\* changes it covers, whatever blocks, projections, notifications and refreshes
\* that are skipped or give up interleave.
THEOREM AuthInvariance == Spec => []AuthInv
<1>1. Init => AuthInv
  BY InitInv
<1>2. AuthInv /\ [Next]_vars => AuthInv'
  BY NextInv
<1> QED
  BY <1>1, <1>2, PTL DEF Spec

\* If the first refresh of the start succeeded: no record of a revoked entry
\* outlives its notification, a settled cache equals the chain, and a transaction
\* sent from it names an entry and a payer the chain accepts.
THEOREM CacheFollowsChain ==
  SeedFirst /\ Spec => [](RevokedGone /\ CacheCurrent /\ SettledTriggerOk)
<1> SUFFICES ASSUME SeedFirst
             PROVE  Spec => [](RevokedGone /\ CacheCurrent /\ SettledTriggerOk)
  OBVIOUS
<1>1. AuthInv => RevokedGone /\ CacheCurrent /\ SettledTriggerOk
  BY DEF AuthInv
<1> QED
  BY <1>1, AuthInvariance, PTL

-----------------------------------------------------------------------------
\* The check of the fee, for any amounts, any times and any number of changes
\* by others.

\* The smaller of two limits.
LEMMA FeeMin == ASSUME NEW a \in Int, NEW b \in Int PROVE Fee!Min({a, b}) = IF a <= b THEN a ELSE b
BY DEF Fee!Min

\* What feeAllowanceOf can answer.
FeeAnswers == [unlimited : BOOLEAN, remaining : Fee!Amounts \cup {Fee!None}]

FeeBasic == [kind : {"basic"}, limit : Fee!Amounts \cup {Fee!None}, expires : Fee!Times \cup {Fee!None}]
FeePeriodic ==
    [kind : {"periodic"}, limit : Fee!Amounts \cup {Fee!None}, expires : Fee!Times \cup {Fee!None},
     reset : Fee!Times, budget : Fee!Amounts, left : Fee!Amounts]

\* The kinds of grants.
LEMMA FeeKinds ==
  ASSUME NEW g \in Fee!Allowances
  PROVE  g.kind \in {"none", "other"} \/ g \in FeeBasic \/ g \in FeePeriodic
BY DEF Fee!Allowances, FeeBasic, FeePeriodic, Fee!NoGrant

\* The amounts and times are integers from zero on.
LEMMA FeeNumbers ==
    /\ \A a \in Fee!Amounts : a \in Int /\ a >= 0
    /\ \A a \in Fee!Amounts \cup {Fee!None} : a \in Int
    /\ \A t \in Fee!Times : t \in Int /\ t >= 0
    /\ \A t \in Fee!Times \cup {Fee!None} : t \in Int
    /\ Fee!None = -1
    /\ 0 \in Fee!Amounts /\ 0 \in Fee!Times
    /\ \A a, f \in Fee!Amounts : a >= f => a - f \in Fee!Amounts
BY FeeBounds DEF Fee!Amounts, Fee!Times, Fee!None

\* The answer of feeAllowanceOf has its type.
LEMMA FeeAnswerType ==
  ASSUME NEW g \in Fee!Allowances, now \in Fee!Times
  PROVE  Fee!feeAllowanceOf(g) \in FeeAnswers
<1>1. CASE g.kind \in {"none", "other"} \/ Fee!hasPassed(g.expires)
  BY <1>1 DEF Fee!feeAllowanceOf, Fee!NoAllowance, FeeAnswers
<1>2. CASE g \in FeeBasic /\ ~Fee!hasPassed(g.expires)
  BY <1>2 DEF Fee!feeAllowanceOf, FeeBasic, FeeAnswers
<1>3. CASE g \in FeePeriodic /\ ~Fee!hasPassed(g.expires)
  <2> DEFINE i == IF Fee!hasPassed(g.reset) THEN g.budget ELSE g.left
  <2>1. i \in Fee!Amounts /\ g.limit \in Fee!Amounts \cup {Fee!None}
    BY <1>3 DEF FeePeriodic
  <2>2. g.limit # Fee!None => Fee!Min({i, g.limit}) \in Fee!Amounts
    BY <2>1, FeeNumbers, FeeMin
  <2>3. Fee!feeAllowanceOf(g) =
          [unlimited |-> FALSE, remaining |-> IF g.limit = Fee!None THEN i ELSE Fee!Min({i, g.limit})]
    BY <1>3 DEF Fee!feeAllowanceOf, FeePeriodic
  <2> QED
    BY <2>1, <2>2, <2>3 DEF FeeAnswers
<1> QED
  BY <1>1, <1>2, <1>3, FeeKinds

\* feeAllowanceOf reads every kind of grant as the chain applies it.
LEMMA FeeAgreement ==
  ASSUME NEW g \in Fee!Allowances, NEW f \in Fee!Amounts \ {0}, now \in Fee!Times,
         Fee!feeAllowanceOf(g) # Fee!NoAllowance
  PROVE  LET a == Fee!feeAllowanceOf(g) IN
         Fee!useGrantedFees(g, f) = Fee!NoGrant <=> ~a.unlimited /\ a.remaining < f
<1> USE FeeNumbers
<1>1. g.kind \notin {"none", "other"} /\ ~Fee!hasPassed(g.expires)
  BY DEF Fee!feeAllowanceOf
<1>2. CASE g \in FeeBasic
  <2>1. ~Fee!Expired(g)
    BY <1>1, <1>2 DEF FeeBasic, Fee!Expired, Fee!hasPassed
  <2>2. /\ Fee!feeAllowanceOf(g) = [unlimited |-> g.limit = Fee!None, remaining |-> g.limit]
        /\ g.kind = "basic" /\ g.limit \in Fee!Amounts \cup {Fee!None}
    BY <1>1, <1>2 DEF FeeBasic, Fee!feeAllowanceOf
  <2>3. g # Fee!NoGrant /\ [g EXCEPT !.limit = @ - f] # Fee!NoGrant
    BY <1>2, <2>2 DEF FeeBasic, Fee!NoGrant
  <2>4. Fee!useGrantedFees(g, f) = Fee!NoGrant <=> g.limit # Fee!None /\ ~(g.limit >= f)
    BY <2>1, <2>2, <2>3 DEF Fee!useGrantedFees
  <2>5. /\ Fee!feeAllowanceOf(g).unlimited = (g.limit = Fee!None)
        /\ Fee!feeAllowanceOf(g).remaining = g.limit
    <3>1. \A b \in BOOLEAN : \A x : LET a == [unlimited |-> b, remaining |-> x]
                                    IN  a.unlimited = b /\ a.remaining = x
      OBVIOUS
    <3>2. (g.limit = Fee!None) \in BOOLEAN
      OBVIOUS
    <3> QED
      BY <2>2, <3>1, <3>2, Zenon
  <2>6. ~(g.limit >= f) <=> g.limit < f
    <3>1. f \in Int /\ g.limit \in Int
      BY <2>2
    <3> QED
      BY <3>1
  <2> QED
    BY <2>4, <2>5, <2>6
<1>3. CASE g \in FeePeriodic
  <2> DEFINE i == IF Fee!hasPassed(g.reset) THEN g.budget ELSE g.left
             left == IF now < g.reset THEN g.left
                     ELSE IF g.limit = Fee!None THEN g.budget ELSE Fee!Min({g.budget, g.limit})
  <2>1. ~Fee!Expired(g) /\ (Fee!hasPassed(g.reset) <=> ~(now < g.reset))
    BY <1>1, <1>3 DEF FeePeriodic, Fee!Expired, Fee!hasPassed
  <2>2. /\ i \in Fee!Amounts /\ g.budget \in Fee!Amounts /\ g.left \in Fee!Amounts
        /\ g.limit \in Fee!Amounts \cup {Fee!None} /\ g.kind = "periodic"
    BY <1>3 DEF FeePeriodic
  <2>3. Fee!feeAllowanceOf(g) =
          [unlimited |-> FALSE, remaining |-> IF g.limit = Fee!None THEN i ELSE Fee!Min({i, g.limit})]
    BY <1>1, <2>2 DEF Fee!feeAllowanceOf
  <2>4. \A x, y : [g EXCEPT !.left = x, !.limit = y] # Fee!NoGrant
    BY <1>3, <2>2 DEF FeePeriodic, Fee!NoGrant
  <2>5. Fee!useGrantedFees(g, f) = Fee!NoGrant <=> left < f \/ (g.limit # Fee!None /\ g.limit < f)
    BY <2>1, <2>2, <2>4 DEF Fee!useGrantedFees
  <2>6. left < f \/ (g.limit # Fee!None /\ g.limit < f)
           <=> (IF g.limit = Fee!None THEN i ELSE Fee!Min({i, g.limit})) < f
    <3>1. f \in Int /\ i \in Int /\ g.budget \in Int /\ g.limit \in Int /\ g.left \in Int
      BY <2>2
    <3>2. Fee!Min({i, g.limit}) = IF i <= g.limit THEN i ELSE g.limit
      BY <3>1, FeeMin
    <3>3. Fee!Min({g.budget, g.limit}) = IF g.budget <= g.limit THEN g.budget ELSE g.limit
      BY <3>1, FeeMin
    <3>4. CASE g.limit = Fee!None
      BY <2>1, <3>4
    <3>5. CASE g.limit # Fee!None /\ now < g.reset
      BY <2>1, <3>1, <3>2, <3>5
    <3>6. CASE g.limit # Fee!None /\ ~(now < g.reset)
      BY <2>1, <3>1, <3>2, <3>3, <3>6
    <3> QED
      BY <3>4, <3>5, <3>6
  <2> QED
    BY <2>3, <2>5, <2>6
<1> QED
  BY <1>1, <1>2, <1>3, FeeKinds

\* A grant that paid is still a grant of its kind.
LEMMA FeeGrantType ==
  ASSUME NEW g \in Fee!Allowances, NEW f \in Fee!Amounts
  PROVE  Fee!useGrantedFees(g, f) \in Fee!Allowances
<1> USE FeeNumbers
<1>1. CASE g.kind \in {"none", "other"} \/ Fee!Expired(g)
  BY <1>1 DEF Fee!useGrantedFees, Fee!Allowances
<1>2. CASE g \in FeeBasic /\ ~Fee!Expired(g)
  <2>1. Fee!useGrantedFees(g, f) =
          IF g.limit = Fee!None THEN g
          ELSE IF g.limit >= f THEN [g EXCEPT !.limit = g.limit - f] ELSE Fee!NoGrant
    BY <1>2 DEF FeeBasic, Fee!useGrantedFees
  <2>2. g.limit >= f /\ g.limit # Fee!None => [g EXCEPT !.limit = g.limit - f] \in FeeBasic
    BY <1>2 DEF FeeBasic
  <2> QED
    BY <1>2, <2>1, <2>2 DEF Fee!Allowances, FeeBasic
<1>3. CASE g \in FeePeriodic /\ ~Fee!Expired(g)
  <2> DEFINE left == IF now < g.reset THEN g.left
                     ELSE IF g.limit = Fee!None THEN g.budget ELSE Fee!Min({g.budget, g.limit})
             after == [g EXCEPT !.left = left - f,
                                !.limit = IF g.limit = Fee!None THEN Fee!None ELSE g.limit - f]
  <2>1. Fee!useGrantedFees(g, f) =
          IF left < f \/ (g.limit # Fee!None /\ g.limit < f) THEN Fee!NoGrant ELSE after
    BY <1>3 DEF FeePeriodic, Fee!useGrantedFees
  <2>2. left \in Fee!Amounts /\ g.limit \in Fee!Amounts \cup {Fee!None}
    BY <1>3, FeeMin DEF FeePeriodic
  <2>3. ~(left < f \/ (g.limit # Fee!None /\ g.limit < f)) => after \in FeePeriodic
    <3>1. ~(left < f) => left - f \in Fee!Amounts
      BY <2>2
    <3>2. ~(g.limit # Fee!None /\ g.limit < f) =>
             (IF g.limit = Fee!None THEN Fee!None ELSE g.limit - f) \in Fee!Amounts \cup {Fee!None}
      BY <2>2
    <3> HIDE DEF left
    <3> QED
      BY <1>3, <3>1, <3>2 DEF FeePeriodic
  <2> QED
    BY <2>1, <2>3 DEF Fee!Allowances, FeePeriodic
<1> QED
  BY <1>1, <1>2, <1>3, FeeKinds

\* What the check knows as long as nothing changed since it began.
FeeChecked ==
    /\ allow \in FeeAnswers /\ fresh \in BOOLEAN
    /\ step # "end" => reason = "none"
    /\ step \in {"balance", "signed"} => fee # 0
    /\ step \in {"simulate", "balance", "signed"} /\ granter /\ fresh =>
          allow = Fee!feeAllowanceOf(grant) /\ allow # Fee!NoAllowance
    /\ step \in {"balance", "signed"} /\ granter => allow.unlimited \/ allow.remaining >= fee
    /\ step = "signed" /\ fresh => IF granter THEN corp >= fee ELSE own >= fee
    /\ step = "end" /\ reason = "FEEGRANT_EXHAUSTED" =>
          /\ fee # 0 /\ ~allow.unlimited /\ allow.remaining < fee
          /\ fresh => allow = Fee!feeAllowanceOf(grant) /\ allow # Fee!NoAllowance

FeeInv == Fee!TypeOK /\ Fee!CheckedFeeIsPaid /\ Fee!NamedPayerPays /\ FeeChecked

\* It holds of every grant and balance before the first transaction.
LEMMA FeeInit == Fee!Init => FeeInv
BY FeeBounds
   DEF Fee!Init, FeeInv, Fee!TypeOK, Fee!CheckedFeeIsPaid, Fee!NamedPayerPays, FeeChecked,
       Fee!Amounts, Fee!Times, Fee!None, FeeAnswers, Fee!NoAllowance

\* Every read of the check, the delivery and every change by others keeps it.
LEMMA FeeNext ==
  ASSUME FeeInv, Fee!Next
  PROVE  FeeInv'
<1> USE DEF FeeInv, Fee!TypeOK
<1>1. CASE Fee!readAllowance
  <2>1. CASE granter /\ allow' = Fee!feeAllowanceOf(grant)
    <3>1. allow' \in FeeAnswers /\ Fee!feeAllowanceOf(grant)' = Fee!feeAllowanceOf(grant)
      BY <1>1, <2>1, FeeAnswerType
         DEF Fee!readAllowance, Fee!world, Fee!feeAllowanceOf, Fee!hasPassed
    <3> QED
      BY <1>1, <2>1, <3>1
         DEF Fee!readAllowance, Fee!Stop, Fee!Go, Fee!world, FeeChecked, Fee!CheckedFeeIsPaid,
             Fee!NamedPayerPays
  <2>2. CASE ~(granter /\ allow' = Fee!feeAllowanceOf(grant))
    BY <1>1, <2>2
       DEF Fee!readAllowance, Fee!Stop, Fee!Go, Fee!world, FeeChecked, Fee!CheckedFeeIsPaid,
           Fee!NamedPayerPays
  <2> QED
    BY <2>1, <2>2
<1>2. CASE Fee!estimateFee
  <2>1. allow.remaining \in Int /\ \A f \in Fee!Amounts : f \in Int
    BY FeeNumbers DEF FeeChecked, FeeAnswers
  <2>2. Fee!feeAllowanceOf(grant)' = Fee!feeAllowanceOf(grant)
    BY <1>2 DEF Fee!estimateFee, Fee!world, Fee!feeAllowanceOf, Fee!hasPassed
  <2> QED
    BY <1>2, <2>1, <2>2
       DEF Fee!estimateFee, Fee!Stop, Fee!Go, Fee!world, FeeChecked, Fee!CheckedFeeIsPaid,
           Fee!NamedPayerPays
<1>3. CASE Fee!checkBalance
  <2>1. corp \in Int /\ own \in Int /\ fee \in Int
    BY FeeNumbers
  <2>2. Fee!feeAllowanceOf(grant)' = Fee!feeAllowanceOf(grant)
    BY <1>3 DEF Fee!checkBalance, Fee!world, Fee!feeAllowanceOf, Fee!hasPassed
  <2> QED
    BY <1>3, <2>1, <2>2
       DEF Fee!checkBalance, Fee!Stop, Fee!Go, Fee!world, FeeChecked, Fee!CheckedFeeIsPaid,
           Fee!NamedPayerPays
<1>4. CASE Fee!deliver
  <2> DEFINE after == Fee!useGrantedFees(grant, fee)
  <2>1. step = "signed" /\ step' = "end" /\ reason' = "none" /\ fee # 0 /\ fee \in Fee!Amounts \ {0}
        /\ fresh' = fresh /\ granter' = granter /\ allow' = allow /\ fee' = fee /\ now' = now
    BY <1>4 DEF Fee!deliver, FeeChecked
  <2>2. fresh /\ granter => after # Fee!NoGrant /\ corp >= fee
    <3> SUFFICES ASSUME fresh, granter PROVE after # Fee!NoGrant /\ corp >= fee
      OBVIOUS
    <3>1. /\ Fee!feeAllowanceOf(grant) # Fee!NoAllowance /\ corp >= fee
          /\ allow = Fee!feeAllowanceOf(grant) /\ (allow.unlimited \/ allow.remaining >= fee)
          /\ allow.remaining \in Int /\ fee \in Int
      BY <2>1, FeeNumbers DEF FeeChecked, FeeAnswers
    <3>2. ~(~allow.unlimited /\ allow.remaining < fee)
      BY <3>1
    <3> QED
      BY <2>1, <3>1, <3>2, FeeAgreement
  <2>3. fresh /\ ~granter => own >= fee
    BY <2>1 DEF FeeChecked
  <2>4. after \in Fee!Allowances
    BY FeeGrantType
  <2>5. /\ corp >= fee => corp - fee \in Fee!Amounts
        /\ own >= fee => own - fee \in Fee!Amounts
        /\ corp \in Int /\ own \in Int /\ fee \in Int
    BY FeeNumbers
  <2>6. Fee!TypeOK'
    BY <1>4, <2>1, <2>4, <2>5 DEF Fee!deliver
  <2>7. Fee!CheckedFeeIsPaid' /\ Fee!NamedPayerPays'
    BY <1>4, <2>1, <2>2, <2>3, <2>5 DEF Fee!deliver, Fee!CheckedFeeIsPaid, Fee!NamedPayerPays
  <2>8. FeeChecked'
    BY <2>1 DEF FeeChecked
  <2> QED
    BY <2>6, <2>7, <2>8
<1>5. CASE Fee!worldMoves
  <2>1. grant' \in Fee!Allowances /\ corp' \in Fee!Amounts /\ own' \in Fee!Amounts /\ now' \in Fee!Times
    BY <1>5, FeeBounds DEF Fee!worldMoves, Fee!Allowances, Fee!Times
  <2> QED
    BY <1>5, <2>1
       DEF Fee!worldMoves, Fee!tx, FeeChecked, Fee!CheckedFeeIsPaid, Fee!NamedPayerPays
<1>6. CASE Fee!again
  BY <1>6, FeeNumbers
     DEF Fee!again, Fee!world, FeeChecked, FeeAnswers, Fee!NoAllowance, Fee!CheckedFeeIsPaid,
         Fee!NamedPayerPays
<1> QED
  BY <1>1, <1>2, <1>3, <1>4, <1>5, <1>6 DEF Fee!Next

\* So does a step that changes nothing.
LEMMA FeeStutter == FeeInv /\ UNCHANGED Fee!vars => FeeInv'
BY DEF FeeInv, Fee!vars, Fee!world, Fee!tx, Fee!TypeOK, Fee!CheckedFeeIsPaid, Fee!NamedPayerPays,
       FeeChecked, Fee!feeAllowanceOf, Fee!hasPassed

\* A check that stopped for the allowance was right.
LEMMA FeeInvSound == FeeInv => FeeSound
<1> SUFFICES ASSUME FeeInv, step = "end", fresh, reason = "FEEGRANT_EXHAUSTED"
             PROVE  Fee!useGrantedFees(grant, fee) = Fee!NoGrant
  BY DEF FeeInv, FeeSound, Fee!StopIsJustified
<1> QED
  BY FeeAgreement DEF FeeInv, FeeChecked, Fee!TypeOK

\* Whatever the kind of the grant, a transaction that passed the check is not
\* refused for its fee and one that the check stopped would be, unless something
\* changed in between; and the named payer pays or nobody does: for any amounts,
\* any times and any number of changes by others.
THEOREM FeeIsSound == Fee!Spec => []FeeSound
<1>1. FeeInv /\ [Fee!Next]_(Fee!vars) => FeeInv'
  BY FeeNext, FeeStutter
<1> QED
  BY <1>1, FeeInit, FeeInvSound, PTL DEF Fee!Spec

-----------------------------------------------------------------------------
\* The mirror of the chain, for any number of changes, of crashes and of
\* onboarding requests that fail.

\* The notifications of a log from index k on that count a version, and whether
\* one of a set is among them.
VersionMsgs(l, k) == {i \in k..Len(l) : l[i] = "IncreaseActiveGFVersion"}
Announced(l, k, S) == \E i \in k..Len(l) : l[i] \in S

\* A log has finitely many of them.
LEMMA VersionMsgsFinite ==
  ASSUME NEW l \in Seq(Mirror!Messages), NEW k \in {1, 2}
  PROVE  IsFiniteSet(VersionMsgs(l, k)) /\ Cardinality(VersionMsgs(l, k)) \in Nat
<1>1. IsFiniteSet(k..Len(l))
  BY FS_Interval, LenProperties
<1>2. VersionMsgs(l, k) \in SUBSET (k..Len(l))
  BY DEF VersionMsgs
<1> QED
  BY <1>1, <1>2, FS_Subset, FS_CardinalityType

\* A notification at the end of the log is counted once.
LEMMA AppendedMsg ==
  ASSUME NEW l \in Seq(Mirror!Messages), NEW msg \in Mirror!Messages, NEW k \in {1, 2}, k <= Len(l) + 1
  PROVE  /\ Append(l, msg) \in Seq(Mirror!Messages) /\ Len(Append(l, msg)) = Len(l) + 1
         /\ l # <<>> => Append(l, msg)[1] = l[1]
         /\ l = <<>> => Append(l, msg)[1] = msg
         /\ Cardinality(VersionMsgs(Append(l, msg), k)) =
              IF msg = "IncreaseActiveGFVersion" THEN Cardinality(VersionMsgs(l, k)) + 1
              ELSE Cardinality(VersionMsgs(l, k))
         /\ \A S : Announced(Append(l, msg), k, S) <=> Announced(l, k, S) \/ msg \in S
<1> DEFINE n == Len(l)
           a == Append(l, msg)
<1>1. /\ a \in Seq(Mirror!Messages) /\ n \in Nat /\ Len(a) = n + 1 /\ a[n + 1] = msg
      /\ \A i \in 1..n : a[i] = l[i]
      /\ l # <<>> => n >= 1
      /\ l = <<>> => n = 0
  BY AppendProperties, LenProperties, EmptySeq
<1> HIDE DEF a
<1>2. VersionMsgs(a, k) =
        IF msg = "IncreaseActiveGFVersion" THEN VersionMsgs(l, k) \cup {n + 1}
        ELSE VersionMsgs(l, k)
  BY <1>1 DEF VersionMsgs
<1>3. n + 1 \notin VersionMsgs(l, k)
  BY <1>1 DEF VersionMsgs
<1>4. Cardinality(VersionMsgs(a, k)) =
        IF msg = "IncreaseActiveGFVersion" THEN Cardinality(VersionMsgs(l, k)) + 1
        ELSE Cardinality(VersionMsgs(l, k))
  BY <1>2, <1>3, VersionMsgsFinite, FS_AddElement
<1>5. ASSUME NEW S PROVE Announced(a, k, S) <=> Announced(l, k, S) \/ msg \in S
  <2>1. ASSUME NEW i \in k..n, l[i] \in S PROVE Announced(a, k, S)
    <3>1. i \in k..Len(a) /\ a[i] = l[i]
      BY <1>1
    <3> QED
      BY <2>1, <3>1 DEF Announced
  <2>2. ASSUME msg \in S PROVE Announced(a, k, S)
    <3>1. n + 1 \in k..Len(a)
      BY <1>1
    <3> QED
      BY <1>1, <2>2, <3>1 DEF Announced
  <2>3. ASSUME NEW i \in k..Len(a), a[i] \in S PROVE Announced(l, k, S) \/ msg \in S
    <3>1. CASE i = n + 1
      BY <1>1, <2>3, <3>1
    <3>2. CASE i # n + 1
      <4>1. i \in k..n /\ i \in 1..n
        BY <1>1, <3>2
      <4> QED
        BY <1>1, <2>3, <4>1 DEF Announced
    <3> QED
      BY <3>1, <3>2
  <2> QED
    BY <2>1, <2>2, <2>3 DEF Announced
<1> QED
  BY <1>1, <1>4, <1>5 DEF a

\* The first notification counts once.
LEMMA FirstMsg ==
  ASSUME NEW l \in Seq(Mirror!Messages), l # <<>>
  PROVE  /\ Cardinality(VersionMsgs(l, 1)) =
              IF l[1] = "IncreaseActiveGFVersion" THEN Cardinality(VersionMsgs(l, 2)) + 1
              ELSE Cardinality(VersionMsgs(l, 2))
         /\ \A S : Announced(l, 1, S) <=> l[1] \in S \/ Announced(l, 2, S)
<1>1. Len(l) \in Nat /\ Len(l) >= 1
  BY LenProperties, EmptySeq
<1>2. VersionMsgs(l, 1) =
        IF l[1] = "IncreaseActiveGFVersion" THEN VersionMsgs(l, 2) \cup {1} ELSE VersionMsgs(l, 2)
  BY <1>1 DEF VersionMsgs
<1>3. 1 \notin VersionMsgs(l, 2)
  BY DEF VersionMsgs
<1>4. ASSUME NEW S PROVE Announced(l, 1, S) <=> l[1] \in S \/ Announced(l, 2, S)
  BY <1>1 DEF Announced
<1> QED
  BY <1>2, <1>3, <1>4, VersionMsgsFinite, FS_AddElement

\* Once it is recorded, the others have moved up.
LEMMA RecordedMsg ==
  ASSUME NEW l \in Seq(Mirror!Messages), l # <<>>
  PROVE  /\ Tail(l) \in Seq(Mirror!Messages) /\ Len(Tail(l)) = Len(l) - 1 /\ Len(l) >= 1
         /\ Cardinality(VersionMsgs(Tail(l), 1)) = Cardinality(VersionMsgs(l, 2))
         /\ \A S : Announced(Tail(l), 1, S) <=> Announced(l, 2, S)
         /\ \A S : Announced(Tail(l), 2, S) => Announced(l, 2, S)
<1> DEFINE u == Tail(l)
<1>1. /\ u \in Seq(Mirror!Messages) /\ Len(l) \in Nat /\ Len(l) >= 1 /\ Len(u) = Len(l) - 1
      /\ \A i \in 1..Len(u) : u[i] = l[i + 1]
  BY HeadTailProperties, LenProperties, EmptySeq
<1> HIDE DEF u
<1>2. Cardinality(VersionMsgs(u, 1)) = Cardinality(VersionMsgs(l, 2))
  <2> DEFINE f == [i \in VersionMsgs(u, 1) |-> i + 1]
  <2>1. f \in Bijection(VersionMsgs(u, 1), VersionMsgs(l, 2))
    <3>1. \A i \in VersionMsgs(u, 1) : i \in Nat /\ i + 1 \in VersionMsgs(l, 2)
      BY <1>1 DEF VersionMsgs
    <3>2. \A j \in VersionMsgs(l, 2) : j \in Nat /\ j - 1 \in VersionMsgs(u, 1)
      BY <1>1 DEF VersionMsgs
    <3>3. \A x, y \in VersionMsgs(u, 1) : f[x] = f[y] => x = y
      BY <3>1
    <3>4. \A j \in VersionMsgs(l, 2) : \E i \in VersionMsgs(u, 1) : f[i] = j
      BY <3>1, <3>2
    <3> QED
      BY <3>1, <3>3, <3>4, Fun_IsBij
  <2>2. ExistsBijection(VersionMsgs(u, 1), VersionMsgs(l, 2))
    BY <2>1 DEF ExistsBijection
  <2> QED
    BY <1>1, <2>2, VersionMsgsFinite, FS_Bijection
<1>3. ASSUME NEW S PROVE Announced(u, 1, S) <=> Announced(l, 2, S)
  <2>1. ASSUME NEW i \in 1..Len(u), u[i] \in S PROVE Announced(l, 2, S)
    <3>1. i + 1 \in 2..Len(l) /\ l[i + 1] = u[i]
      BY <1>1
    <3> QED
      BY <2>1, <3>1 DEF Announced
  <2>2. ASSUME NEW i \in 2..Len(l), l[i] \in S PROVE Announced(u, 1, S)
    <3>1. i - 1 \in 1..Len(u) /\ u[i - 1] = l[i]
      BY <1>1
    <3> QED
      BY <2>2, <3>1 DEF Announced
  <2> QED
    BY <2>1, <2>2 DEF Announced
<1>4. ASSUME NEW S PROVE Announced(u, 2, S) => Announced(l, 2, S)
  <2>1. Announced(u, 2, S) => Announced(u, 1, S)
    BY <1>1 DEF Announced
  <2> QED
    BY <1>3, <2>1
<1> QED
  BY <1>1, <1>2, <1>3, <1>4 DEF u

\* What the notifications are about.
EcosystemMsgs == {"CreateNewEcosystem", "UpdateEcosystem", "ArchiveEcosystem"}
SchemaMsgs == {"CreateNewCredentialSchema", "ArchiveCredentialSchema"}

Ecosystems == [did : Owners \cup {"none"}, archived : BOOLEAN, version : Nat]
CredentialSchemas == [known : BOOLEAN, archived : BOOLEAN]
OnePart == [op : {"", "PENDING", "VALIDATED", "TERMINATED"}, revoked : BOOLEAN, slashed : BOOLEAN]
Mirrors == [eco : Ecosystems, cs : CredentialSchemas, part : OnePart]

\* A mirror in which every notification before index k was applied differs from
\* the chain only in what a notification from k on is about.
AgreesFrom(mirror, k) ==
    /\ Announced(log, k, EcosystemMsgs) \/
          (mirror.eco.did = eco.did /\ mirror.eco.archived = eco.archived)
    /\ Announced(log, k, SchemaMsgs) \/ mirror.cs = cs
    /\ Announced(log, k, Mirror!ParticipantMsgs) \/ mirror.part = part
    /\ mirror.eco.version + Cardinality(VersionMsgs(log, k)) = bumps

MirrorTypes ==
    /\ eco \in Ecosystems /\ eco.version = 0 /\ cs \in CredentialSchemas /\ part \in OnePart
    /\ bumps \in Nat /\ log \in Seq(Mirror!Messages) /\ Len(log) <= MaxMirrorEvents
    /\ saved \in Mirrors /\ mem \in Mirrors \cup {Mirror!NoState}

\* The saved mirror, the one a handler works on, and the participant, whose
\* notification is handled before it changes again.
MirrorData ==
    /\ MirrorTypes /\ AgreesFrom(saved, 1)
    /\ mem # Mirror!NoState => log # <<>> /\ AgreesFrom(mem, 2)
    /\ Announced(log, 1, Mirror!ParticipantMsgs) => Mirror!upsertParticipant(saved.part, log[1]) = part
    /\ ~Announced(log, 2, Mirror!ParticipantMsgs)
    /\ Announced(log, 1, SchemaMsgs) => cs.known

\* A mirror is not taken for none.
LEMMA MirrorIsSome == \A x \in Mirrors : x # Mirror!NoState
<1> SUFFICES ASSUME NEW x \in Mirrors, x = Mirror!NoState PROVE FALSE
  OBVIOUS
<1>1. DOMAIN x = {"eco", "cs", "part"}
  BY DEF Mirrors
<1>2. DOMAIN x = {"eco"}
  BY DEF Mirror!NoState
<1> QED
  BY <1>1, <1>2

\* Applying a notification to a mirror: what it reads of the chain, what it
\* keeps, and what it takes from the notification.
LEMMA AppliedIs ==
  ASSUME NEW mirror \in Mirrors, MirrorTypes, NEW msg
  PROVE  LET new == Mirror!applyStateMutation(mirror, msg) IN
         /\ new \in Mirrors
         /\ msg \in EcosystemMsgs =>
              new.eco.did = eco.did /\ new.eco.archived = eco.archived
         /\ msg \notin EcosystemMsgs =>
              new.eco.did = mirror.eco.did /\ new.eco.archived = mirror.eco.archived
         /\ new.eco.version = IF msg = "IncreaseActiveGFVersion" THEN mirror.eco.version + 1
                              ELSE mirror.eco.version
         /\ msg \in SchemaMsgs /\ cs.known => new.cs = cs
         /\ msg \notin SchemaMsgs => new.cs = mirror.cs
         /\ new.part = mirror.part \/ new.part = Mirror!upsertParticipant(mirror.part, msg)
         /\ msg \in Mirror!ParticipantMsgs => new.part = Mirror!upsertParticipant(mirror.part, msg)
         /\ msg \in EcosystemMsgs \cup SchemaMsgs \cup {"IncreaseActiveGFVersion"} =>
              new.part = mirror.part
<1> DEFINE new == Mirror!applyStateMutation(mirror, msg)
<1>0. /\ mirror.eco \in Ecosystems /\ mirror.cs \in CredentialSchemas /\ mirror.part \in OnePart
      /\ eco \in Ecosystems /\ cs \in CredentialSchemas /\ part \in OnePart
  BY DEF Mirrors, MirrorTypes
<1>1. CASE msg \in EcosystemMsgs
  <2>1. new = [mirror EXCEPT !.eco = [eco EXCEPT !.version = mirror.eco.version]]
    BY <1>1 DEF Mirror!applyStateMutation, EcosystemMsgs, Mirror!upsertEcosystem, Mirror!fetchEntity
  <2> QED
    BY <1>0, <1>1, <2>1
       DEF Mirrors, Ecosystems, EcosystemMsgs, SchemaMsgs, Mirror!ParticipantMsgs
<1>2. CASE msg = "IncreaseActiveGFVersion"
  <2>1. new = [mirror EXCEPT !.eco = [mirror.eco EXCEPT !.version = mirror.eco.version + 1]]
    BY <1>2 DEF Mirror!applyStateMutation, Mirror!bumpActiveVersion
  <2> QED
    BY <1>0, <1>2, <2>1
       DEF Mirrors, Ecosystems, EcosystemMsgs, SchemaMsgs, Mirror!ParticipantMsgs
<1>3. CASE msg \in SchemaMsgs
  <2>1. new = [mirror EXCEPT !.cs = [known |-> TRUE, archived |-> cs.archived]]
    BY <1>3
       DEF Mirror!applyStateMutation, SchemaMsgs, Mirror!upsertCredentialSchema, Mirror!fetchEntity
  <2>2. [known |-> TRUE, archived |-> cs.archived] \in CredentialSchemas
        /\ (cs.known => [known |-> TRUE, archived |-> cs.archived] = cs)
    BY <1>0 DEF CredentialSchemas
  <2> QED
    BY <1>0, <1>3, <2>1, <2>2 DEF Mirrors, EcosystemMsgs, SchemaMsgs, Mirror!ParticipantMsgs
<1>4. CASE msg \notin EcosystemMsgs \cup SchemaMsgs \cup {"IncreaseActiveGFVersion"}
  <2>1. new = [mirror EXCEPT !.part = Mirror!upsertParticipant(mirror.part, msg)]
    BY <1>4 DEF Mirror!applyStateMutation, EcosystemMsgs, SchemaMsgs
  <2>2. Mirror!upsertParticipant(mirror.part, msg) \in OnePart
    BY <1>0 DEF Mirror!upsertParticipant, Mirror!fetchEntity, OnePart
  <2> QED
    BY <1>0, <1>4, <2>1, <2>2 DEF Mirrors
<1> QED
  BY <1>1, <1>2, <1>3, <1>4

\* Nothing has happened yet.
LEMMA MirrorInit == Mirror!Init => MirrorData
<1> SUFFICES ASSUME Mirror!Init PROVE MirrorData
  OBVIOUS
<1>1. log = <<>> /\ Len(log) = 0 /\ log \in Seq(Mirror!Messages)
  BY EmptySeq DEF Mirror!Init
<1>2. \A k \in {1, 2} : VersionMsgs(log, k) = {} /\ \A S : ~Announced(log, k, S)
  BY <1>1 DEF VersionMsgs, Announced
<1>3. Cardinality(VersionMsgs(log, 1)) = 0
  BY <1>2, FS_EmptySet
<1>4. MirrorTypes /\ saved.eco = eco /\ saved.cs = cs /\ saved.part = part /\ bumps = 0
      /\ mem = Mirror!NoState
  <2>1. /\ Mirror!NoEco \in Ecosystems /\ Mirror!NoCs \in CredentialSchemas
        /\ Mirror!NoPart \in OnePart /\ Mirror!NoEco.version = 0
    BY DEF Ecosystems, CredentialSchemas, OnePart, Mirror!NoEco, Mirror!NoCs, Mirror!NoPart
  <2>2. Mirror!EmptyState \in Mirrors /\ Mirror!EmptyState.eco = Mirror!NoEco
        /\ Mirror!EmptyState.cs = Mirror!NoCs /\ Mirror!EmptyState.part = Mirror!NoPart
    BY <2>1 DEF Mirrors, Mirror!EmptyState
  <2> QED
    BY <1>1, <2>1, <2>2, MirrorBounds DEF Mirror!Init, MirrorTypes
<1> QED
  BY <1>2, <1>3, <1>4 DEF MirrorData, AgreesFrom, MirrorTypes

\* Every change of the chain is announced.
LEMMA MirrorChanges ==
  ASSUME MirrorData, NEW msg \in Mirror!Messages, log' = Append(log, msg), Len(log) < MaxMirrorEvents,
         UNCHANGED <<saved, mem>>,
         eco' \in Ecosystems, eco'.version = 0, cs' \in CredentialSchemas, part' \in OnePart,
         bumps' = (IF msg = "IncreaseActiveGFVersion" THEN bumps + 1 ELSE bumps),
         msg \in EcosystemMsgs \/ eco' = eco,
         IF msg \in SchemaMsgs THEN cs'.known ELSE cs' = cs,
         IF msg \in Mirror!ParticipantMsgs
         THEN /\ log = <<>> /\ mem = Mirror!NoState
              /\ \A p : p = part => Mirror!upsertParticipant(p, msg)' = part'
         ELSE part' = part
  PROVE  MirrorData'
<1>0. /\ log \in Seq(Mirror!Messages) /\ Len(log) \in Nat /\ bumps \in Nat
      /\ saved \in Mirrors /\ mem \in Mirrors \cup {Mirror!NoState}
  BY LenProperties DEF MirrorData, MirrorTypes
<1>1. MirrorTypes'
  BY <1>0, AppendedMsg, MirrorBounds DEF MirrorData, MirrorTypes
<1>2. ASSUME NEW mirror \in Mirrors, NEW k \in {1, 2}, k <= Len(log) + 1, AgreesFrom(mirror, k)
      PROVE  /\ Announced(log', k, EcosystemMsgs) \/
                   (mirror.eco.did = eco'.did /\ mirror.eco.archived = eco'.archived)
             /\ Announced(log', k, SchemaMsgs) \/ mirror.cs = cs'
             /\ Announced(log', k, Mirror!ParticipantMsgs) \/ mirror.part = part'
             /\ mirror.eco.version + Cardinality(VersionMsgs(log', k)) = bumps'
  <2>1. Cardinality(VersionMsgs(log, k)) \in Nat /\ mirror.eco.version \in Nat
    BY <1>0, VersionMsgsFinite DEF Mirrors, Ecosystems
  <2> QED
    <3>1. \A S : Announced(log', k, S) <=> Announced(log, k, S) \/ msg \in S
      BY <1>0, <1>2, AppendedMsg
    <3>2. Cardinality(VersionMsgs(log', k)) =
            IF msg = "IncreaseActiveGFVersion" THEN Cardinality(VersionMsgs(log, k)) + 1
            ELSE Cardinality(VersionMsgs(log, k))
      BY <1>0, <1>2, AppendedMsg
    <3>3. mirror.eco.version + Cardinality(VersionMsgs(log', k)) = bumps'
      BY <1>0, <1>2, <2>1, <3>2 DEF AgreesFrom
    <3> QED
      BY <1>2, <3>1, <3>3 DEF AgreesFrom
<1>3. AgreesFrom(saved, 1)'
  BY <1>0, <1>2 DEF MirrorData, AgreesFrom
<1>4. mem' # Mirror!NoState => log' # <<>> /\ AgreesFrom(mem, 2)'
  <2> SUFFICES ASSUME mem # Mirror!NoState PROVE log' # <<>> /\ AgreesFrom(mem, 2)'
    OBVIOUS
  <2>1. log # <<>> /\ AgreesFrom(mem, 2) /\ mem \in Mirrors
    BY <1>0 DEF MirrorData
  <2>2. 2 <= Len(log) + 1
    BY <1>0, <2>1, EmptySeq
  <2>3. log' # <<>>
    BY <1>0, AppendedMsg, EmptySeq
  <2> QED
    BY <1>2, <2>1, <2>2, <2>3 DEF AgreesFrom
<1>5. ~Announced(log', 2, Mirror!ParticipantMsgs)
  <2>1. CASE log = <<>>
    BY <1>0, <2>1, AppendedMsg, EmptySeq DEF Announced
  <2>2. CASE log # <<>>
    <3>1. 2 <= Len(log) + 1
      BY <1>0, <2>2, EmptySeq
    <3> QED
      BY <1>0, <2>2, <3>1, AppendedMsg DEF MirrorData
  <2> QED
    BY <2>1, <2>2
<1>6. Announced(log', 1, Mirror!ParticipantMsgs) => Mirror!upsertParticipant(saved.part, log[1])' = part'
  <2>1. CASE msg \in Mirror!ParticipantMsgs
    <3>1. saved.part = part
      BY <2>1, <1>0, EmptySeq DEF MirrorData, AgreesFrom, Announced
    <3>2. log'[1] = msg /\ saved' = saved
      BY <1>0, <2>1, AppendedMsg
    <3> QED
      BY <2>1, <3>1, <3>2 DEF Mirror!upsertParticipant, Mirror!fetchEntity
  <2>2. CASE msg \notin Mirror!ParticipantMsgs
    <3>1. Announced(log', 1, Mirror!ParticipantMsgs) => Announced(log, 1, Mirror!ParticipantMsgs)
      BY <1>0, <2>2, AppendedMsg
    <3>2. Announced(log, 1, Mirror!ParticipantMsgs) => log # <<>>
      BY EmptySeq DEF Announced
    <3>3. log # <<>> => log'[1] = log[1]
      BY <1>0, AppendedMsg
    <3>4. part' = part
      BY <2>2
    <3> QED
      BY <3>1, <3>2, <3>3, <3>4 DEF MirrorData, Mirror!upsertParticipant, Mirror!fetchEntity
  <2> QED
    BY <2>1, <2>2
<1>7. Announced(log', 1, SchemaMsgs) => cs'.known
  BY <1>0, AppendedMsg DEF MirrorData
<1> QED
  BY <1>1, <1>3, <1>4, <1>5, <1>6, <1>7 DEF MirrorData, Announced

\* Every change of the chain keeps the mirror.
LEMMA ChainKeepsMirror ==
  ASSUME MirrorData,
         Mirror!ecosystemMsg \/ Mirror!schemaMsg \/ \E m \in Mirror!ParticipantMsgs : Mirror!participantMsg(m)
  PROVE  MirrorData'
<1>0. /\ eco \in Ecosystems /\ eco.version = 0 /\ cs \in CredentialSchemas /\ part \in OnePart
      /\ bumps \in Nat /\ log \in Seq(Mirror!Messages)
  BY DEF MirrorData, MirrorTypes
<1> USE DEF EcosystemMsgs, SchemaMsgs, Mirror!ParticipantMsgs, Mirror!Emit
<1>1. CASE Mirror!ecosystemMsg
  <2>1. UNCHANGED <<cs, part, saved, mem>>
    BY <1>1 DEF Mirror!ecosystemMsg
  <2>2. PICK msg \in {"CreateNewEcosystem", "UpdateEcosystem", "ArchiveEcosystem", "IncreaseActiveGFVersion"} :
           /\ Mirror!Emit(msg)
           /\ eco' \in Ecosystems /\ eco'.version = 0
           /\ msg \in EcosystemMsgs \/ eco' = eco
           /\ bumps' = IF msg = "IncreaseActiveGFVersion" THEN bumps + 1 ELSE bumps
    <3>1. \A d \in Owners : [Mirror!NoEco EXCEPT !.did = d] \in Ecosystems
             /\ [Mirror!NoEco EXCEPT !.did = d].version = 0
      BY DEF Ecosystems, Mirror!NoEco
    <3>2. \A d \in Owners : [eco EXCEPT !.did = d] \in Ecosystems /\ [eco EXCEPT !.did = d].version = 0
      BY <1>0 DEF Ecosystems
    <3>3. [eco EXCEPT !.archived = ~@] \in Ecosystems /\ [eco EXCEPT !.archived = ~@].version = 0
      BY <1>0 DEF Ecosystems
    <3> QED
      BY <1>0, <1>1, <3>1, <3>2, <3>3 DEF Mirror!ecosystemMsg
  <2>3. /\ msg \in Mirror!Messages /\ log' = Append(log, msg) /\ Len(log) < MaxMirrorEvents
        /\ msg \notin SchemaMsgs /\ msg \notin Mirror!ParticipantMsgs
    BY <2>2 DEF Mirror!Messages
  <2>4. UNCHANGED <<saved, mem>> /\ cs' = cs /\ part' = part
    BY <2>1
  <2> QED
    BY <1>0, <2>2, <2>3, <2>4, MirrorChanges
<1>2. CASE Mirror!schemaMsg
  <2>1. UNCHANGED <<eco, part, bumps, saved, mem>>
    BY <1>2 DEF Mirror!schemaMsg
  <2>2. PICK msg \in SchemaMsgs : Mirror!Emit(msg) /\ cs' \in CredentialSchemas /\ cs'.known
    <3>1. [cs EXCEPT !.known = TRUE] \in CredentialSchemas /\ [cs EXCEPT !.known = TRUE].known
      BY <1>0 DEF CredentialSchemas
    <3>2. [cs EXCEPT !.archived = ~@] \in CredentialSchemas /\ [cs EXCEPT !.archived = ~@].known = cs.known
      BY <1>0 DEF CredentialSchemas
    <3> QED
      BY <1>2, <3>1, <3>2 DEF Mirror!schemaMsg
  <2>3. /\ msg \in Mirror!Messages /\ log' = Append(log, msg) /\ Len(log) < MaxMirrorEvents
        /\ msg # "IncreaseActiveGFVersion" /\ msg \notin Mirror!ParticipantMsgs
    BY <2>2 DEF Mirror!Messages
  <2>4. UNCHANGED <<saved, mem>> /\ eco' = eco /\ part' = part /\ bumps' = bumps
    BY <2>1
  <2> QED
    BY <1>0, <2>2, <2>3, <2>4, MirrorChanges
<1>3. ASSUME NEW msg \in Mirror!ParticipantMsgs, Mirror!participantMsg(msg) PROVE MirrorData'
  <2>1. UNCHANGED <<eco, cs, bumps, saved, mem>> /\ log = <<>> /\ mem = Mirror!NoState /\ Mirror!Emit(msg)
    BY <1>3 DEF Mirror!participantMsg
  <2>2. part' \in OnePart
    BY <1>0, <1>3 DEF Mirror!participantMsg, OnePart
  <2>3. ASSUME NEW p, p = part PROVE Mirror!upsertParticipant(p, msg)' = part'
    <3>1. part \in OnePart /\ part' \in OnePart
      BY <1>0, <2>2
    <3>2. part' =
            CASE msg \in {"StartParticipantOP", "RenewParticipantOP"} -> [part EXCEPT !.op = "PENDING"]
              [] msg = "SetParticipantOPToValidated" -> [part EXCEPT !.op = "VALIDATED"]
              [] msg = "CancelParticipantOPLastRequest" ->
                    [part EXCEPT !.op = IF ever THEN "VALIDATED" ELSE "TERMINATED"]
              [] msg = "RevokeParticipant" -> [part EXCEPT !.revoked = TRUE]
              [] msg = "SlashParticipantTrustDeposit" -> [part EXCEPT !.slashed = TRUE]
              [] OTHER -> [part EXCEPT !.slashed = FALSE]
      BY <1>3 DEF Mirror!participantMsg
    <3>3. Mirror!upsertParticipant(p, msg)' =
            CASE msg \in {"StartParticipantOP", "RenewParticipantOP"} -> [part EXCEPT !.op = "PENDING"]
              [] msg = "SetParticipantOPToValidated" -> [part EXCEPT !.op = "VALIDATED"]
              [] msg = "RevokeParticipant" -> [part EXCEPT !.op = part'.op, !.revoked = TRUE]
              [] msg = "SlashParticipantTrustDeposit" -> [part EXCEPT !.op = part'.op, !.slashed = TRUE]
              [] msg = "RepayParticipantSlashedTrustDeposit" ->
                    [part EXCEPT !.op = part'.op, !.slashed = FALSE]
              [] OTHER -> [part EXCEPT !.op = part'.op]
      BY <2>3 DEF Mirror!upsertParticipant, Mirror!fetchEntity
    <3>4. CASE msg \in {"StartParticipantOP", "RenewParticipantOP", "SetParticipantOPToValidated"}
      BY <3>2, <3>3, <3>4
    <3>5. CASE msg = "CancelParticipantOPLastRequest"
      BY <3>1, <3>2, <3>3, <3>5 DEF OnePart
    <3>6. CASE msg \in {"RevokeParticipant", "SlashParticipantTrustDeposit"}
      BY <3>1, <3>2, <3>3, <3>6 DEF OnePart
    <3>7. CASE msg = "RepayParticipantSlashedTrustDeposit"
      BY <3>1, <3>2, <3>3, <3>7 DEF OnePart
    <3> QED
      BY <3>4, <3>5, <3>6, <3>7
  <2>4. /\ msg \in Mirror!Messages /\ log' = Append(log, msg) /\ Len(log) < MaxMirrorEvents
        /\ msg # "IncreaseActiveGFVersion" /\ msg \notin SchemaMsgs
    BY <2>1 DEF Mirror!Messages
  <2>5. UNCHANGED <<saved, mem>> /\ eco' = eco /\ cs' = cs /\ bumps' = bumps
    BY <2>1
  <2> QED
    BY <1>0, <2>1, <2>2, <2>3, <2>4, <2>5, MirrorChanges
<1> QED
  BY <1>1, <1>2, <1>3

\* Handling the first notification brings the mirror as far as the others.
LEMMA ApplyKeepsMirror ==
  ASSUME MirrorData, Mirror!applyChanges
  PROVE  MirrorData'
<1> DEFINE new == Mirror!applyStateMutation(saved, log[1])
<1>0. /\ log # <<>> /\ log \in Seq(Mirror!Messages) /\ saved \in Mirrors /\ MirrorTypes /\ AgreesFrom(saved, 1)
      /\ UNCHANGED <<eco, cs, part, bumps, log, saved>>
  BY DEF MirrorData, MirrorTypes, Mirror!applyChanges, Mirror!chain
<1>1. mem' = new
  <2>1. mem' = Mirror!applyStateMutation(saved, Head(log))
    BY DEF Mirror!applyChanges
  <2>2. Head(log) = log[1]
    BY <1>0, HeadTailProperties
  <2> QED
    BY <2>1, <2>2
<1>2. /\ Cardinality(VersionMsgs(log, 1)) =
              IF log[1] = "IncreaseActiveGFVersion" THEN Cardinality(VersionMsgs(log, 2)) + 1
              ELSE Cardinality(VersionMsgs(log, 2))
      /\ \A S : Announced(log, 1, S) <=> log[1] \in S \/ Announced(log, 2, S)
      /\ Cardinality(VersionMsgs(log, 2)) \in Nat /\ saved.eco.version \in Nat
  BY <1>0, FirstMsg, VersionMsgsFinite DEF Mirrors, Ecosystems
<1>3. new \in Mirrors
  BY <1>0, AppliedIs
<1>4. AgreesFrom(new, 2)
  <2>1. Announced(log, 2, EcosystemMsgs) \/ (new.eco.did = eco.did /\ new.eco.archived = eco.archived)
    BY <1>0, <1>2, AppliedIs DEF AgreesFrom
  <2>2. Announced(log, 2, SchemaMsgs) \/ new.cs = cs
    BY <1>0, <1>2, AppliedIs DEF AgreesFrom, MirrorData
  <2>3. new.part = part
    <3>1. ~Announced(log, 2, Mirror!ParticipantMsgs)
      BY DEF MirrorData
    <3>2. CASE log[1] \in Mirror!ParticipantMsgs
      BY <1>0, <1>2, <3>2, AppliedIs DEF MirrorData
    <3>3. CASE log[1] \notin Mirror!ParticipantMsgs
      <4>1. saved.part = part
        BY <1>0, <1>2, <3>1, <3>3 DEF AgreesFrom
      <4>2. new.part = saved.part \/ new.part = Mirror!upsertParticipant(saved.part, log[1])
        BY <1>0, AppliedIs
      <4>3. Mirror!upsertParticipant(saved.part, log[1]) = part
        <5>1. Mirror!upsertParticipant(saved.part, log[1]) = [saved.part EXCEPT !.op = part.op]
          BY <3>3 DEF Mirror!upsertParticipant, Mirror!fetchEntity, Mirror!ParticipantMsgs
        <5> QED
          BY <1>0, <4>1, <5>1 DEF MirrorTypes, OnePart
      <4> QED
        BY <4>1, <4>2, <4>3
    <3> QED
      BY <3>2, <3>3
  <2>4. new.eco.version + Cardinality(VersionMsgs(log, 2)) = bumps
    <3>1. new.eco.version = IF log[1] = "IncreaseActiveGFVersion" THEN saved.eco.version + 1
                            ELSE saved.eco.version
      BY <1>0, AppliedIs
    <3> QED
      BY <1>0, <1>2, <3>1 DEF AgreesFrom
  <2> QED
    BY <2>1, <2>2, <2>3, <2>4 DEF AgreesFrom
<1> HIDE DEF new
<1>5. MirrorTypes'
  BY <1>0, <1>1, <1>3 DEF MirrorTypes
<1> QED
  BY <1>0, <1>1, <1>4, <1>5
     DEF MirrorData, AgreesFrom, Mirror!upsertParticipant, Mirror!fetchEntity

\* The mirror and the position are saved together.
LEMMA SaveKeepsMirror ==
  ASSUME MirrorData, Mirror!saveSyncState
  PROVE  MirrorData'
<1>0. /\ log # <<>> /\ log \in Seq(Mirror!Messages) /\ mem \in Mirrors /\ AgreesFrom(mem, 2)
      /\ saved' = mem /\ mem' = Mirror!NoState /\ log' = Tail(log)
      /\ UNCHANGED <<eco, cs, part, bumps>>
  BY DEF MirrorData, MirrorTypes, Mirror!saveSyncState, Mirror!chain
<1>1. /\ log' \in Seq(Mirror!Messages) /\ Len(log') = Len(log) - 1 /\ Len(log) \in Nat
      /\ Cardinality(VersionMsgs(log', 1)) = Cardinality(VersionMsgs(log, 2))
      /\ \A S : Announced(log', 1, S) <=> Announced(log, 2, S)
      /\ \A S : Announced(log', 2, S) => Announced(log, 2, S)
      /\ \A S : Announced(log, 1, S) <=> log[1] \in S \/ Announced(log, 2, S)
  BY <1>0, RecordedMsg, FirstMsg, LenProperties
<1>2. MirrorTypes'
  BY <1>0, <1>1, MirrorBounds DEF MirrorData, MirrorTypes
<1>3. AgreesFrom(saved, 1)'
  BY <1>0, <1>1 DEF AgreesFrom
<1> QED
  BY <1>0, <1>1, <1>2, <1>3 DEF MirrorData

\* A step of the mirror keeps what it knows.
LEMMA MirrorDataStep ==
  ASSUME MirrorData, Mirror!Next
  PROVE  MirrorData'
<1>1. CASE Mirror!crash
  BY <1>1
     DEF Mirror!crash, Mirror!chain, MirrorData, MirrorTypes, AgreesFrom, Mirror!upsertParticipant,
         Mirror!fetchEntity
<1>2. CASE Mirror!credentialArrives
  BY <1>2
     DEF Mirror!credentialArrives, Mirror!chain, MirrorData, MirrorTypes, AgreesFrom,
         Mirror!upsertParticipant, Mirror!fetchEntity
<1> QED
  BY <1>1, <1>2, ChainKeepsMirror, ApplyKeepsMirror, SaveKeepsMirror DEF Mirror!Next, Mirror!Handle

\* The notification that is handled next, or now, is one of a set.
HeadIs(S) == log # <<>> /\ log[1] \in S

\* The flow of a participant: it ends when the revocation is handled, and a
\* cancelled renewal finds it with its credential.
MirrorFlow ==
    /\ flow \in {"none", "OR_SENT", "VALIDATED", "COMPLETED"} \cup Mirror!Ended
    /\ hasCred \in BOOLEAN /\ (hasCred => flow # "none")
    /\ part.revoked => ~HeadIs(Mirror!ParticipantMsgs \ {"RevokeParticipant"})
    /\ part.revoked /\ (mem # Mirror!NoState \/ ~HeadIs({"RevokeParticipant"})) =>
          flow \in Mirror!Ended \cup {"none"}
    /\ reacted = "COMPLETED" =>
          (/\ flow \notin Mirror!Ended \cup {"none"} /\ hasCred /\ ever
           /\ ~HeadIs({"RevokeParticipant", "SlashParticipantTrustDeposit"})
           /\ (HeadIs({"CancelParticipantOPLastRequest"}) => part.op = "VALIDATED"))

\* A change of the participant is announced at once; what it does to a flow is
\* up to its handler.
LEMMA ChangesKeepFlow ==
  ASSUME MirrorData, MirrorFlow, NEW msg \in Mirror!ParticipantMsgs, Mirror!participantMsg(msg)
  PROVE  MirrorFlow'
<1>1. /\ log = <<>> /\ log' = Append(log, msg) /\ mem = Mirror!NoState /\ mem' = mem
      /\ ~part.revoked /\ UNCHANGED <<flow, hasCred>>
  BY DEF Mirror!participantMsg, Mirror!Emit, Mirror!flows
<1>2. log' # <<>> /\ log'[1] = msg
  <2>1. log \in Seq(Mirror!Messages) /\ msg \in Mirror!Messages
    BY DEF MirrorData, MirrorTypes, Mirror!Messages
  <2> QED
    BY <1>1, <2>1, AppendProperties, LenProperties, EmptySeq
<1>3. part \in OnePart
  BY DEF MirrorData, MirrorTypes
<1>4. /\ part'.revoked => msg = "RevokeParticipant"
      /\ reacted' = "COMPLETED" =>
            /\ flow \notin Mirror!Ended \cup {"none"} /\ hasCred /\ ever /\ ever'
            /\ msg \notin {"RevokeParticipant", "SlashParticipantTrustDeposit"}
      /\ msg = "CancelParticipantOPLastRequest" /\ ever => part'.op = "VALIDATED"
  BY <1>1, <1>3 DEF Mirror!participantMsg, MirrorFlow, OnePart, Mirror!ParticipantMsgs
<1> QED
  BY <1>1, <1>2, <1>4 DEF MirrorFlow, HeadIs

\* Each handler leaves of the flow what its notification asks for.
LEMMA HandlersKeepFlow ==
  ASSUME MirrorData, MirrorFlow, Mirror!applyChanges
  PROVE  MirrorFlow'
<1>0. /\ log # <<>> /\ mem = Mirror!NoState
      /\ UNCHANGED <<part, log, ever, reacted>>
  BY DEF Mirror!applyChanges, Mirror!chain
<1>1. Head(log) = log[1]
  BY <1>0, HeadTailProperties DEF MirrorData, MirrorTypes
<1>2. \A S : HeadIs(S)' <=> log[1] \in S
  BY <1>0 DEF HeadIs
<1>3. part.revoked => \/ log[1] = "RevokeParticipant"
                      \/ flow \in Mirror!Ended \cup {"none"} /\ log[1] \notin Mirror!ParticipantMsgs
  BY <1>0 DEF MirrorFlow, HeadIs
<1>4. reacted = "COMPLETED" =>
        /\ flow \notin Mirror!Ended \cup {"none"} /\ hasCred /\ ever
        /\ log[1] \notin {"RevokeParticipant", "SlashParticipantTrustDeposit"}
        /\ log[1] = "CancelParticipantOPLastRequest" => part.op = "VALIDATED"
  BY <1>0 DEF MirrorFlow, HeadIs
<1>5. Mirror!dispatch(log[1])
  BY <1>1 DEF Mirror!applyChanges
<1>6. /\ flow' \in {"none", "OR_SENT", "VALIDATED", "COMPLETED"} \cup Mirror!Ended
      /\ hasCred' \in BOOLEAN /\ (hasCred' => flow' # "none")
  BY <1>5
     DEF MirrorFlow, Mirror!dispatch, Mirror!startParticipantOPAutoFlow, Mirror!flows,
         Mirror!markApplicantVtFlowRecordsValidated, Mirror!terminateByChainEvent,
         Mirror!reconcileVtFlowRecordsOnCancel, Mirror!Ended
<1>7. part.revoked => flow' \in Mirror!Ended \cup {"none"}
  BY <1>3, <1>5
     DEF MirrorFlow, Mirror!dispatch, Mirror!flows, Mirror!terminateByChainEvent, Mirror!Ended,
         Mirror!ParticipantMsgs
<1>8. reacted = "COMPLETED" => flow' \notin Mirror!Ended \cup {"none"} /\ hasCred'
  BY <1>4, <1>5
     DEF MirrorFlow, Mirror!dispatch, Mirror!startParticipantOPAutoFlow, Mirror!flows,
         Mirror!markApplicantVtFlowRecordsValidated, Mirror!reconcileVtFlowRecordsOnCancel,
         Mirror!Ended
<1> QED
  BY <1>0, <1>2, <1>3, <1>4, <1>6, <1>7, <1>8 DEF MirrorFlow

\* Every other step leaves the flow of a participant alone, or brings its
\* credential.
LEMMA MirrorFlowStep ==
  ASSUME MirrorData, MirrorFlow, Mirror!Next
  PROVE  MirrorFlow'
<1>0. log \in Seq(Mirror!Messages)
  BY DEF MirrorData, MirrorTypes
<1>1. CASE Mirror!ecosystemMsg \/ Mirror!schemaMsg
  <2>1. PICK msg \in Mirror!Messages \ Mirror!ParticipantMsgs : log' = Append(log, msg)
    BY <1>1 DEF Mirror!ecosystemMsg, Mirror!schemaMsg, Mirror!Emit, Mirror!Messages, Mirror!ParticipantMsgs
  <2>2. /\ log # <<>> => log'[1] = log[1]
        /\ log = <<>> => log'[1] = msg
        /\ log' # <<>>
    BY <1>0, <2>1, AppendProperties, LenProperties, EmptySeq
  <2>3. \A S : S \subseteq Mirror!ParticipantMsgs => (HeadIs(S)' <=> HeadIs(S))
    BY <2>1, <2>2 DEF HeadIs
  <2>4. UNCHANGED <<part, mem, flow, hasCred, ever, reacted>>
    BY <1>1 DEF Mirror!ecosystemMsg, Mirror!schemaMsg, Mirror!flows
  <2>5. /\ Mirror!ParticipantMsgs \ {"RevokeParticipant"} \subseteq Mirror!ParticipantMsgs
        /\ {"RevokeParticipant"} \subseteq Mirror!ParticipantMsgs
        /\ {"RevokeParticipant", "SlashParticipantTrustDeposit"} \subseteq Mirror!ParticipantMsgs
        /\ {"CancelParticipantOPLastRequest"} \subseteq Mirror!ParticipantMsgs
    BY DEF Mirror!ParticipantMsgs
  <2> QED
    BY <2>3, <2>4, <2>5 DEF MirrorFlow
<1>2. CASE Mirror!saveSyncState
  <2>1. /\ mem # Mirror!NoState /\ log # <<>> /\ log' = Tail(log) /\ UNCHANGED <<part, flow, hasCred, ever, reacted>>
    BY <1>2 DEF Mirror!saveSyncState, Mirror!chain, Mirror!flows, MirrorData
  <2>2. \A S : S \subseteq Mirror!ParticipantMsgs => ~HeadIs(S)'
    <3> SUFFICES ASSUME NEW S, S \subseteq Mirror!ParticipantMsgs, HeadIs(S)' PROVE FALSE
      OBVIOUS
    <3>1. Announced(log', 1, S)
      <4>1. log' \in Seq(Mirror!Messages) /\ log' # <<>> /\ log'[1] \in S
        BY <1>0, <2>1, RecordedMsg DEF HeadIs
      <4>2. 1 \in 1..Len(log')
        BY <4>1, LenProperties, EmptySeq
      <4> QED
        BY <4>1, <4>2 DEF Announced
    <3>2. Announced(log, 2, Mirror!ParticipantMsgs)
      BY <1>0, <2>1, <3>1, RecordedMsg DEF Announced
    <3> QED
      BY <3>2 DEF MirrorData
  <2>3. /\ Mirror!ParticipantMsgs \ {"RevokeParticipant"} \subseteq Mirror!ParticipantMsgs
        /\ {"RevokeParticipant", "SlashParticipantTrustDeposit"} \subseteq Mirror!ParticipantMsgs
        /\ {"CancelParticipantOPLastRequest"} \subseteq Mirror!ParticipantMsgs
    BY DEF Mirror!ParticipantMsgs
  <2> QED
    BY <2>1, <2>2, <2>3 DEF MirrorFlow
<1>3. CASE Mirror!crash
  BY <1>3 DEF Mirror!crash, Mirror!chain, Mirror!flows, MirrorFlow, HeadIs
<1>4. CASE Mirror!credentialArrives
  BY <1>4 DEF Mirror!credentialArrives, Mirror!chain, MirrorFlow, HeadIs, Mirror!Ended
<1> QED
  BY <1>1, <1>2, <1>3, <1>4, ChangesKeepFlow, HandlersKeepFlow DEF Mirror!Next, Mirror!Handle

\* What the two parts say once every notification is handled.
LEMMA MirrorInvSound == MirrorData /\ MirrorFlow => MirrorAgrees
<1> SUFFICES ASSUME MirrorData, MirrorFlow PROVE MirrorAgrees
  OBVIOUS
<1>0. /\ log \in Seq(Mirror!Messages) /\ saved \in Mirrors /\ saved.eco \in Ecosystems
      /\ saved.eco.version \in Nat /\ saved.part \in OnePart /\ eco \in Ecosystems
      /\ Cardinality(VersionMsgs(log, 1)) \in Nat /\ bumps \in Nat
      /\ saved.eco.version + Cardinality(VersionMsgs(log, 1)) = bumps
  BY VersionMsgsFinite DEF MirrorData, MirrorTypes, AgreesFrom, Mirrors, Ecosystems
<1>1. Mirror!TypeOK
  <2>1. saved.eco.version <= bumps
    BY <1>0
  <2> QED
    BY <1>0, <2>1 DEF Mirror!TypeOK, MirrorData, MirrorTypes, MirrorFlow, OnePart
<1>2. Mirror!MirrorConverges
  <2> SUFFICES ASSUME log = <<>>
               PROVE  /\ saved.eco = [eco EXCEPT !.version = bumps]
                      /\ saved.cs = cs /\ saved.part = part
    BY DEF Mirror!MirrorConverges, Mirror!Drained
  <2>1. VersionMsgs(log, 1) = {} /\ \A S : ~Announced(log, 1, S)
    BY EmptySeq DEF VersionMsgs, Announced
  <2>2. saved.eco.version = bumps
    <3>1. Cardinality(VersionMsgs(log, 1)) = 0
      BY <2>1, FS_EmptySet
    <3> QED
      BY <1>0, <3>1
  <2> QED
    BY <1>0, <2>1, <2>2 DEF MirrorData, AgreesFrom, Ecosystems
<1>3. Mirror!RevokedFlowEnds
  BY DEF Mirror!RevokedFlowEnds, Mirror!Drained, MirrorFlow, HeadIs
<1>4. Mirror!CancelRestores
  BY DEF Mirror!CancelRestores, Mirror!Drained, MirrorFlow, Mirror!Ended
<1> QED
  BY <1>1, <1>2, <1>3, <1>4 DEF MirrorAgrees

\* When every notification is handled the mirror agrees with the chain, each
\* version message counted once; a revoked participant's flow has ended and a
\* cancelled renewal has not ended it: for any number of changes, whatever the
\* handlers read too late and however often a crash makes them run again, as
\* long as each notification of the participant is handled before it changes
\* again.
THEOREM MirrorIsFaithful == Mirror!Spec => []MirrorAgrees
<1>1. Mirror!Init => MirrorFlow
  BY DEF Mirror!Init, MirrorFlow, HeadIs, Mirror!NoPart
<1>2. MirrorData /\ MirrorFlow /\ [Mirror!Next]_(Mirror!vars) => MirrorData' /\ MirrorFlow'
  <2>1. MirrorData /\ MirrorFlow /\ UNCHANGED Mirror!vars => MirrorData' /\ MirrorFlow'
    BY DEF Mirror!vars, Mirror!chain, Mirror!flows, MirrorData, MirrorTypes, AgreesFrom,
           Mirror!upsertParticipant, Mirror!fetchEntity, MirrorFlow, HeadIs
  <2> QED
    BY <2>1, MirrorDataStep, MirrorFlowStep
<1> QED
  BY <1>1, <1>2, MirrorInit, MirrorInvSound, PTL DEF Mirror!Spec

-----------------------------------------------------------------------------
\* The onboarding at every start, for any number of trusted ecosystems, of
\* entries, of crashes, of failures and of moves of others.

\* The participants of the agent, and the transactions run() decides on.
BootEntries ==
    [eco : Bootstrap!Ecosystems, kind : {"credential", "service"}, role : {"HOLDER", "ISSUER"},
     val : {"own", "peer", "parent"}, op : {"PENDING", "VALIDATED"}, live : BOOLEAN]
BootPlans ==
    [tx : {"start", "selfCreate"}, entry : BootEntries, then : {"validate", "service", "done"}]

\* Two entries of one role for one schema.
SameEntry(p, q) == p.eco = q.eco /\ p.kind = q.kind /\ p.role = q.role

\* The values of the variables the argument reads.
BootTypes ==
    /\ Bootstrap!TypeOK
    /\ parts \in Seq(BootEntries) /\ view \in Seq(BootEntries)
    /\ plan = Bootstrap!NoPlan \/ plan \in BootPlans

\* What the indexer shows of an entry is what the chain has.
SeenAgrees(ps, vs) ==
    /\ Len(vs) <= Len(ps)
    /\ \A i \in 1..Len(vs) : SameEntry(vs[i], ps[i]) /\ vs[i].live = ps[i].live

\* Until run() starts an entry of its own the indexer shows them all; while it
\* goes on, what the indexer does not show yet is the entry of its credential.
UnseenKnown ==
    /\ pc \in {"offers", "resume", "holder", "delegated"} => Len(view) = Len(parts)
    /\ pc \in {"service", "validate", "submit"} =>
         \A i \in 1..Len(parts) : i > Len(view) => parts[i].kind = "credential"

\* What run() is about to start, the agent has not.
PlanIsNew ==
    pc = "submit" => /\ \A i \in 1..Len(parts) : SameEntry(parts[i], plan.entry) => ~parts[i].live
                     /\ plan.entry.kind = "service" => plan.then = "done"

\* The inductive invariant.
BootInv == BootTypes /\ SeenAgrees(parts, view) /\ UnseenKnown /\ PlanIsNew /\ Bootstrap!OneEntry

\* A set of ecosystems has a least one: the one with the fewest before it.
LEMMA LeastEcosystem ==
  ASSUME NEW S \in SUBSET Nat, S # {}
  PROVE  Bootstrap!Min(S) \in S
<1> DEFINE T == {1..x : x \in S}
<1>1. \A x \in S : 1..x \in FiniteSubsetsOf(Nat)
  BY FS_Interval DEF FiniteSubsetsOf
<1>2. T \subseteq FiniteSubsetsOf(Nat) /\ T # {}
  BY <1>1
<1>3. PICK t \in T : \A u \in T : ~ (<<u, t>> \in StrictSubsetOrdering(Nat))
  BY <1>2, FS_StrictSubsetOrderingWellFounded, WFMin
<1>4. PICK x \in S : t = 1..x
  BY <1>3
<1>5. ASSUME NEW y \in S PROVE x =< y
  <2>1. 1..y \in T /\ 1..y \subseteq Nat /\ 1..x \subseteq Nat
    OBVIOUS
  <2>2. ~ (<<1..y, 1..x>> \in StrictSubsetOrdering(Nat))
    BY <1>3, <1>4, <2>1
  <2>3. ~ (1..y \subseteq 1..x /\ 1..y # 1..x)
    BY <2>1, <2>2 DEF StrictSubsetOrdering
  <2>4. CASE y < x
    <3>1. 1..y \subseteq 1..x /\ x \in 1..x /\ x \notin 1..y
      BY <2>4
    <3> QED
      BY <2>3, <3>1
  <2> QED
    BY <2>4
<1> QED
  BY <1>5 DEF Bootstrap!Min

\* The ecosystem discoverEcsSchemas takes.
LEMMA DiscoveredEcosystem ==
  ASSUME BootTypes
  PROVE  Bootstrap!discoverEcsSchemas \in Bootstrap!Ecosystems
<1>1. /\ Bootstrap!Listed \in SUBSET Nat
      /\ \A x \in Bootstrap!Listed : x \in Bootstrap!Ecosystems
      /\ Bootstrap!Unlisted \in Bootstrap!Ecosystems
  BY BootBounds DEF Bootstrap!Listed, Bootstrap!Ecosystems, Bootstrap!Unlisted
<1>2. CASE usableEco \cap Bootstrap!Listed = {}
  BY <1>1, <1>2 DEF Bootstrap!discoverEcsSchemas
<1>3. CASE usableEco \cap Bootstrap!Listed # {}
  BY <1>1, <1>3, LeastEcosystem DEF Bootstrap!discoverEcsSchemas
<1> QED
  BY <1>2, <1>3

\* The entries of the chain, when one changed at most: the same entries, none
\* of which came back to life.
Moved(ps, qs) ==
    /\ qs \in Seq(BootEntries) /\ Len(qs) = Len(ps)
    /\ \A i \in 1..Len(ps) : SameEntry(qs[i], ps[i]) /\ (qs[i].live => ps[i].live)

\* The entries stay entries of one role for one schema each when they move.
LEMMA MovedOneEntry ==
  ASSUME BootTypes, Bootstrap!OneEntry, Moved(parts, parts')
  PROVE  Bootstrap!OneEntry'
<1>1. DOMAIN parts = 1..Len(parts) /\ DOMAIN parts' = 1..Len(parts)
  BY LenProperties DEF BootTypes, Moved
<1>2. \A i \in 1..Len(parts) : parts[i].op \in {"PENDING", "VALIDATED"}
  <2>1. \A i \in 1..Len(parts) : parts[i] \in BootEntries
    BY ElementOfSeq DEF BootTypes
  <2> QED
    BY <2>1 DEF BootEntries
<1>3. \A p : Bootstrap!isUsableParticipant(p) <=> p.live /\ p.op \in {"PENDING", "VALIDATED"}
  BY DEF Bootstrap!isUsableParticipant
<1> QED
  BY <1>1, <1>2, <1>3 DEF Bootstrap!OneEntry, Bootstrap!isUsableParticipant, Moved, SameEntry

\* BootInv holds at the start.
LEMMA BootStarts == Bootstrap!Init => BootInv
<1> SUFFICES ASSUME Bootstrap!Init PROVE BootInv
  OBVIOUS
<1>1. parts = <<>> /\ view = <<>> /\ Len(parts) = 0 /\ Len(view) = 0 /\ DOMAIN parts = {}
      /\ parts \in Seq(BootEntries) /\ view \in Seq(BootEntries)
  BY DEF Bootstrap!Init
<1>2. Bootstrap!TypeOK
  <2>1. Bootstrap!Listed \subseteq Bootstrap!Ecosystems
    BY BootBounds DEF Bootstrap!Listed, Bootstrap!Ecosystems
  <2> QED
    BY <1>1, <2>1, BootBounds DEF Bootstrap!Init, Bootstrap!TypeOK, Bootstrap!FlowStates
<1> QED
  BY <1>1, <1>2
     DEF BootInv, BootTypes, SeenAgrees, UnseenKnown, PlanIsNew, Bootstrap!OneEntry, Bootstrap!Init

\* The values a step of run(), of a flow or of the chain leaves.
LEMMA TypesKept ==
  ASSUME BootTypes, setting' = setting, usableEco' \subseteq usableEco,
         parts' \in Seq(BootEntries), view' \in Seq(BootEntries),
         Len(view') <= Len(parts'), Len(parts') <= MaxEntries,
         flows' \in [Bootstrap!Ids -> Bootstrap!FlowStates],
         ready' \in [Bootstrap!Ids -> BOOLEAN], handling' \subseteq Bootstrap!Ids,
         pendingIds' \subseteq Bootstrap!Ids, outcome' \in {"pending", "completed", "failed"},
         \/ plan' = Bootstrap!NoPlan /\ pc' # "submit"
         \/ plan' \in BootPlans /\ pc' = "submit",
         pc' \in {"down", "offers", "resume", "holder", "service", "delegated", "submit",
                  "validate", "done"}
  PROVE  BootTypes'
<1>1. /\ DOMAIN parts' = 1..Len(parts')
      /\ \A i \in 1..Len(parts') : parts'[i] \in BootEntries
  BY LenProperties, ElementOfSeq
<1>2. \A i \in DOMAIN parts' : parts'[i].op \in {"PENDING", "VALIDATED"} /\ parts'[i].live \in BOOLEAN
  BY <1>1 DEF BootEntries
<1>3. (plan' # Bootstrap!NoPlan) = (pc' = "submit")
  <2>1. \A p \in BootPlans : p # Bootstrap!NoPlan
    <3>1. \A p \in BootPlans : p.tx # "none"
      BY DEF BootPlans
    <3>2. Bootstrap!NoPlan.tx = "none"
      BY DEF Bootstrap!NoPlan
    <3> QED
      BY <3>1, <3>2
  <2> QED
    BY <2>1
<1>4. setting' \in Bootstrap!Settings /\ usableEco' \subseteq Bootstrap!Ecosystems
  BY DEF BootTypes, Bootstrap!TypeOK
<1>5. Bootstrap!TypeOK'
  BY <1>2, <1>3, <1>4 DEF Bootstrap!TypeOK
<1> QED
  BY <1>5 DEF BootTypes

\* What the indexer shows is a prefix of the entries.
LEMMA ShownPrefix ==
  ASSUME NEW ps \in Seq(BootEntries), NEW n \in Nat, n <= Len(ps)
  PROVE  /\ SubSeq(ps, 1, n) \in Seq(BootEntries) /\ Len(SubSeq(ps, 1, n)) = n
         /\ SeenAgrees(ps, SubSeq(ps, 1, n))
<1>1. \A i \in 1..n : ps[i] \in BootEntries
  BY ElementOfSeq, LenProperties
<1> DEFINE s == SubSeq(ps, 1, n)
<1>2. /\ s \in Seq(BootEntries) /\ Len(s) = IF 1 <= n THEN n - 1 + 1 ELSE 0
      /\ \A i \in 1..(n - 1 + 1) : s[i] = ps[1 + i - 1]
  BY <1>1, SubSeqProperties
<1> HIDE DEF s
<1>3. Len(s) = n /\ \A i \in 1..n : s[i] = ps[i]
  BY <1>2
<1>4. SeenAgrees(ps, s)
  BY <1>3, LenProperties DEF SeenAgrees, SameEntry
<1> QED
  BY <1>2, <1>3, <1>4 DEF s

\* startOnboardingProcess leaves the flows with their types.
LEMMA FlowBegins ==
  ASSUME BootTypes, NEW i, Bootstrap!startOnboardingProcess(i)
  PROVE  flows' \in [Bootstrap!Ids -> Bootstrap!FlowStates] /\ ready' \in [Bootstrap!Ids -> BOOLEAN]
BY DEF Bootstrap!startOnboardingProcess, BootTypes, Bootstrap!TypeOK, Bootstrap!FlowStates

\* An entry that is set to validated, or dies.
LEMMA EntrySet ==
  ASSUME NEW p \in BootEntries
  PROVE  /\ [p EXCEPT !.op = "VALIDATED"] \in BootEntries /\ [p EXCEPT !.live = FALSE] \in BootEntries
         /\ SameEntry([p EXCEPT !.op = "VALIDATED"], p) /\ [p EXCEPT !.op = "VALIDATED"].live = p.live
         /\ SameEntry([p EXCEPT !.live = FALSE], p) /\ ~[p EXCEPT !.live = FALSE].live
BY DEF BootEntries, SameEntry

\* An entry that is set to validated, or dies, moves and no other.
LEMMA EntrySetMoves ==
  ASSUME BootTypes, NEW i
  PROVE  /\ Moved(parts, [parts EXCEPT ![i].op = "VALIDATED"])
         /\ Moved(parts, [parts EXCEPT ![i].live = FALSE])
         /\ Moved(parts, parts)
         /\ \A j \in 1..Len(parts) : [parts EXCEPT ![i].op = "VALIDATED"][j].live = parts[j].live
<1>1. /\ Len(parts) \in Nat /\ DOMAIN parts = 1..Len(parts)
      /\ \A j \in 1..Len(parts) : parts[j] \in BootEntries
      /\ parts \in Seq(BootEntries)
  BY LenProperties, ElementOfSeq DEF BootTypes
<1> DEFINE v == [parts EXCEPT ![i].op = "VALIDATED"]
           d == [parts EXCEPT ![i].live = FALSE]
<1>2. /\ v = [j \in 1..Len(parts) |-> IF j = i THEN [parts[i] EXCEPT !.op = "VALIDATED"] ELSE parts[j]]
      /\ d = [j \in 1..Len(parts) |-> IF j = i THEN [parts[i] EXCEPT !.live = FALSE] ELSE parts[j]]
  BY <1>1
<1>3. /\ \A j \in 1..Len(parts) : v[j] \in BootEntries /\ d[j] \in BootEntries
      /\ \A j \in 1..Len(parts) : SameEntry(v[j], parts[j]) /\ v[j].live = parts[j].live
      /\ \A j \in 1..Len(parts) : SameEntry(d[j], parts[j]) /\ (d[j].live => parts[j].live)
  <2> SUFFICES ASSUME NEW j \in 1..Len(parts)
               PROVE  /\ v[j] \in BootEntries /\ d[j] \in BootEntries
                      /\ SameEntry(v[j], parts[j]) /\ v[j].live = parts[j].live
                      /\ SameEntry(d[j], parts[j]) /\ (d[j].live => parts[j].live)
    OBVIOUS
  <2>1. /\ v[j] = IF j = i THEN [parts[j] EXCEPT !.op = "VALIDATED"] ELSE parts[j]
        /\ d[j] = IF j = i THEN [parts[j] EXCEPT !.live = FALSE] ELSE parts[j]
        /\ parts[j] \in BootEntries
    BY <1>1, <1>2
  <2> HIDE DEF v, d
  <2>2. SameEntry(parts[j], parts[j])
    BY DEF SameEntry
  <2> QED
    BY <2>1, <2>2, EntrySet
<1>4. \A q : (/\ DOMAIN q = 1..Len(parts) /\ q = [j \in 1..Len(parts) |-> q[j]]
              /\ \A j \in 1..Len(parts) : q[j] \in BootEntries)
           => q \in Seq(BootEntries) /\ Len(q) = Len(parts)
  BY <1>1, SeqDef
<1>5. DOMAIN v = 1..Len(parts) /\ DOMAIN d = 1..Len(parts)
      /\ v = [j \in 1..Len(parts) |-> v[j]] /\ d = [j \in 1..Len(parts) |-> d[j]]
  BY <1>1
<1> HIDE DEF v, d
<1>6. v \in Seq(BootEntries) /\ Len(v) = Len(parts) /\ d \in Seq(BootEntries) /\ Len(d) = Len(parts)
  BY <1>3, <1>4, <1>5
<1>7. Moved(parts, v) /\ Moved(parts, d) /\ Moved(parts, parts)
  BY <1>1, <1>3, <1>6 DEF Moved, SameEntry
<1> QED
  BY <1>3, <1>7 DEF v, d

\* setParticipantOPToValidated moves an entry, and none dies of it.
LEMMA Validating ==
  ASSUME BootTypes, NEW i, Bootstrap!setParticipantOPToValidated(i)
  PROVE  Moved(parts, parts') /\ \A j \in 1..Len(parts) : parts'[j].live = parts[j].live
BY EntrySetMoves DEF Bootstrap!setParticipantOPToValidated

\* A step that leaves the entries and what the indexer shows of them.
LEMMA EntriesStay ==
  ASSUME BootInv, BootTypes', parts' = parts, view' = view, UnseenKnown', PlanIsNew'
  PROVE  BootInv'
<1>1. Bootstrap!OneEntry'
  BY DEF BootInv, Bootstrap!OneEntry, Bootstrap!isUsableParticipant
<1>2. SeenAgrees(parts, view)'
  BY DEF BootInv, SeenAgrees, SameEntry
<1> QED
  BY <1>1, <1>2 DEF BootInv

\* A step that moves entries, and shows the indexer what died.
LEMMA EntriesMove ==
  ASSUME BootInv, BootTypes', Moved(parts, parts'), Len(view') = Len(view),
         SeenAgrees(parts', view'), plan' = plan,
         \/ pc' = pc
         \/ pc = "validate" /\ pc' \in {"service", "done"}
  PROVE  BootInv'
<1>1. Bootstrap!OneEntry'
  BY MovedOneEntry DEF BootInv
<1>2. \A i \in 1..Len(parts) : parts'[i].kind = parts[i].kind /\ Len(parts') = Len(parts)
  BY DEF Moved, SameEntry
<1>3. Len(parts') = Len(parts) /\ Len(view') = Len(view)
  BY DEF Moved
<1>4. UnseenKnown'
  BY <1>2, <1>3 DEF BootInv, UnseenKnown
<1>5. PlanIsNew'
  BY <1>3 DEF BootInv, PlanIsNew, Moved, SameEntry
<1>6. SeenAgrees(parts, view)'
  BY DEF SeenAgrees, SameEntry
<1> QED
  BY <1>1, <1>4, <1>5, <1>6 DEF BootInv

\* The values the steps that follow start from.
LEMMA BootFacts ==
  ASSUME BootInv
  PROVE  /\ BootTypes /\ Bootstrap!TypeOK
         /\ Len(parts) \in Nat /\ Len(view) \in Nat /\ Len(view) <= Len(parts)
         /\ Len(parts) <= MaxEntries /\ MaxEntries \in Nat
         /\ DOMAIN parts = 1..Len(parts) /\ DOMAIN view = 1..Len(view)
         /\ \A i \in 1..Len(parts) : parts[i] \in BootEntries
         /\ \A i \in 1..Len(view) : view[i] \in BootEntries
         /\ 1..Len(parts) \subseteq Bootstrap!Ids /\ 1..Len(view) \subseteq Bootstrap!Ids
<1>1. parts \in Seq(BootEntries) /\ view \in Seq(BootEntries) /\ Bootstrap!TypeOK
  BY DEF BootInv, BootTypes
<1>2. /\ Len(parts) \in Nat /\ Len(view) \in Nat
      /\ DOMAIN parts = 1..Len(parts) /\ DOMAIN view = 1..Len(view)
  BY <1>1, LenProperties
<1>3. Len(view) <= Len(parts) /\ Len(parts) <= MaxEntries
  BY <1>1 DEF Bootstrap!TypeOK
<1>4. /\ \A i \in 1..Len(parts) : parts[i] \in BootEntries
      /\ \A i \in 1..Len(view) : view[i] \in BootEntries
  BY <1>1, ElementOfSeq
<1>5. 1..Len(parts) \subseteq Bootstrap!Ids /\ 1..Len(view) \subseteq Bootstrap!Ids
  BY <1>2, <1>3, BootBounds DEF Bootstrap!Ids
<1> QED
  BY <1>1, <1>2, <1>3, <1>4, <1>5, BootBounds DEF BootInv

\* The start.
LEMMA BootStep == BootInv /\ Bootstrap!boot => BootInv'
<1> SUFFICES ASSUME BootInv, Bootstrap!boot PROVE BootInv'
  OBVIOUS
<1> USE DEF Bootstrap!boot
<1>1. BootTypes'
  BY BootFacts, TypesKept DEF Bootstrap!flowVars, Bootstrap!count, Bootstrap!TypeOK, BootTypes
<1>2. Bootstrap!OneEntry'
  BY DEF BootInv, Bootstrap!OneEntry, Bootstrap!isUsableParticipant
<1>3. SeenAgrees(parts, view)'
  BY BootFacts DEF SeenAgrees, SameEntry
<1>4. UnseenKnown' /\ PlanIsNew'
  BY BootFacts DEF UnseenKnown, PlanIsNew
<1> QED
  BY <1>1, <1>2, <1>3, <1>4 DEF BootInv

\* The steps that leave the entries, and where run() stands with its plan.
LEMMA QuietStep ==
  ASSUME BootInv, UNCHANGED <<setting, parts, view, plan, pc>>,
         usableEco' \subseteq usableEco,
         flows' \in [Bootstrap!Ids -> Bootstrap!FlowStates],
         ready' \in [Bootstrap!Ids -> BOOLEAN], handling' \subseteq Bootstrap!Ids,
         pendingIds' \subseteq Bootstrap!Ids, outcome' = outcome
  PROVE  BootInv'
<1>1. \/ plan' = Bootstrap!NoPlan /\ pc' # "submit"
      \/ plan' \in BootPlans /\ pc' = "submit"
  <2>1. (plan # Bootstrap!NoPlan) = (pc = "submit")
    BY BootFacts DEF Bootstrap!TypeOK
  <2>2. plan = Bootstrap!NoPlan \/ plan \in BootPlans
    BY BootFacts DEF BootTypes
  <2>3. (plan # Bootstrap!NoPlan) <=> (pc = "submit")
    BY <2>1
  <2>4. plan' = plan /\ pc' = pc
    OBVIOUS
  <2>5. CASE pc = "submit"
    BY <2>2, <2>3, <2>4, <2>5
  <2>6. CASE pc # "submit"
    BY <2>3, <2>4, <2>6
  <2> QED
    BY <2>5, <2>6
<1>2. BootTypes'
  BY <1>1, BootFacts, TypesKept DEF Bootstrap!TypeOK, BootTypes
<1>3. UnseenKnown' /\ PlanIsNew'
  BY DEF BootInv, UnseenKnown, PlanIsNew, SameEntry
<1> QED
  BY <1>2, <1>3, EntriesStay

\* Offers that waited; the steps of the peers, of a flow and of the ecosystems.
LEMMA FlowSteps ==
  ASSUME BootInv,
         \/ Bootstrap!acceptPendingOffers
         \/ \E i \in Bootstrap!Ids :
              Bootstrap!peerAnswers(i) \/ Bootstrap!autoAccept(i) \/ Bootstrap!loseConnection(i)
         \/ \E e \in Bootstrap!Ecosystems : Bootstrap!archiveEcosystem(e)
  PROVE  BootInv'
<1> USE BootFacts DEF Bootstrap!flowVars, Bootstrap!count, Bootstrap!chainVars
<1>0. /\ flows \in [Bootstrap!Ids -> Bootstrap!FlowStates] /\ ready \in [Bootstrap!Ids -> BOOLEAN]
      /\ handling \subseteq Bootstrap!Ids /\ pendingIds \subseteq Bootstrap!Ids
  BY DEF Bootstrap!TypeOK
<1>1. CASE Bootstrap!acceptPendingOffers
  <2>1. PICK i : Bootstrap!acceptPendingOffer(i) /\ pendingIds' = pendingIds \ {i}
    BY <1>1 DEF Bootstrap!acceptPendingOffers
  <2>2. flows' \in [Bootstrap!Ids -> Bootstrap!FlowStates] /\ ready' \in [Bootstrap!Ids -> BOOLEAN]
    BY <1>0, <2>1, FlowBegins
       DEF Bootstrap!acceptPendingOffer, Bootstrap!fails_, Bootstrap!FlowStates
  <2> QED
    BY <1>0, <1>1, <2>1, <2>2, QuietStep DEF Bootstrap!acceptPendingOffers
<1>2. ASSUME NEW i \in Bootstrap!Ids, Bootstrap!peerAnswers(i) PROVE BootInv'
  <2>1. flows' \in [Bootstrap!Ids -> Bootstrap!FlowStates] /\ handling' \subseteq Bootstrap!Ids
    BY <1>0, <1>2 DEF Bootstrap!peerAnswers, Bootstrap!FlowStates
  <2> QED
    BY <1>0, <1>2, <2>1, QuietStep DEF Bootstrap!peerAnswers
<1>3. ASSUME NEW i \in Bootstrap!Ids, Bootstrap!autoAccept(i) PROVE BootInv'
  <2>1. flows' \in [Bootstrap!Ids -> Bootstrap!FlowStates] /\ handling' \subseteq Bootstrap!Ids
    BY <1>0, <1>3 DEF Bootstrap!autoAccept, Bootstrap!FlowStates
  <2> QED
    BY <1>0, <1>3, <2>1, QuietStep DEF Bootstrap!autoAccept
<1>4. ASSUME NEW i \in Bootstrap!Ids, Bootstrap!loseConnection(i) PROVE BootInv'
  <2>1. ready' \in [Bootstrap!Ids -> BOOLEAN]
    BY <1>0, <1>4 DEF Bootstrap!loseConnection
  <2> QED
    BY <1>0, <1>4, <2>1, QuietStep DEF Bootstrap!loseConnection
<1>5. ASSUME NEW e \in Bootstrap!Ecosystems, Bootstrap!archiveEcosystem(e) PROVE BootInv'
  BY <1>0, <1>5, QuietStep DEF Bootstrap!archiveEcosystem
<1> QED
  BY <1>1, <1>2, <1>3, <1>4, <1>5

\* The participants that a start finds PENDING.
LEMMA ResumeSteps ==
  ASSUME BootInv, \/ Bootstrap!beginResume \/ Bootstrap!resumePendingOnboardings
  PROVE  BootInv'
<1> USE BootFacts DEF Bootstrap!flowVars, Bootstrap!count, Bootstrap!chainVars
<1>0. /\ flows \in [Bootstrap!Ids -> Bootstrap!FlowStates] /\ ready \in [Bootstrap!Ids -> BOOLEAN]
      /\ handling \subseteq Bootstrap!Ids /\ pendingIds \subseteq Bootstrap!Ids
      /\ outcome \in {"pending", "completed", "failed"}
      /\ (plan # Bootstrap!NoPlan) <=> (pc = "submit")
  BY DEF Bootstrap!TypeOK
<1>1. CASE Bootstrap!beginResume
  <2>1. pendingIds' \subseteq Bootstrap!Ids
    BY <1>1 DEF Bootstrap!beginResume
  <2>2. BootTypes'
    BY <1>0, <1>1, <2>1, TypesKept DEF Bootstrap!beginResume, BootTypes
  <2>3. UnseenKnown' /\ PlanIsNew'
    BY <1>1 DEF BootInv, UnseenKnown, PlanIsNew, Bootstrap!beginResume
  <2> QED
    BY <1>1, <2>2, <2>3, EntriesStay DEF Bootstrap!beginResume
<1>2. CASE Bootstrap!resumePendingOnboardings
  <2>1. PICK i : Bootstrap!resumeOnboarding(i) /\ pendingIds' = pendingIds \ {i}
    BY <1>2 DEF Bootstrap!resumePendingOnboardings
  <2>2. /\ pc = "resume" /\ pc' = pc /\ plan' = plan /\ view' = view /\ outcome' = outcome
        /\ setting' = setting /\ usableEco' = usableEco /\ handling' = handling
    BY <1>2 DEF Bootstrap!resumePendingOnboardings
  <2>3. /\ Moved(parts, parts') /\ \A j \in 1..Len(parts) : parts'[j].live = parts[j].live
        /\ flows' \in [Bootstrap!Ids -> Bootstrap!FlowStates]
        /\ ready' \in [Bootstrap!Ids -> BOOLEAN]
    <3>1. CASE parts' = parts /\ flows' = flows /\ ready' = ready
      BY <1>0, <3>1, EntrySetMoves
    <3>2. CASE Bootstrap!setParticipantOPToValidated(i) /\ flows' = flows /\ ready' = ready
      BY <1>0, <3>2, Validating
    <3>3. CASE Bootstrap!startOnboardingProcess(i) /\ parts' = parts
      BY <3>3, EntrySetMoves, FlowBegins
    <3> QED
      BY <2>1, <3>1, <3>2, <3>3 DEF Bootstrap!resumeOnboarding, Bootstrap!fails_
  <2>4. parts' \in Seq(BootEntries) /\ Len(parts') = Len(parts)
    BY <2>3 DEF Moved
  <2>5. pendingIds' \subseteq Bootstrap!Ids
    BY <1>0, <2>1
  <2>6. BootTypes'
    BY <1>0, <2>2, <2>3, <2>4, <2>5, TypesKept DEF BootTypes
  <2>7. SeenAgrees(parts', view')
    BY <2>2, <2>3, <2>4 DEF BootInv, SeenAgrees, Moved, SameEntry
  <2> QED
    BY <2>2, <2>3, <2>6, <2>7, EntriesMove
<1> QED
  BY <1>1, <1>2

\* What run() decides: it goes on, ends, or submits an entry the agent has not.
Decides ==
    /\ UNCHANGED <<setting, usableEco, parts, view, flows, ready, handling, pendingIds>>
    /\ \/ /\ plan' = Bootstrap!NoPlan
          /\ outcome' \in {"pending", "completed", "failed"}
          /\ \/ pc' = "done"
             \/ pc' \in {"holder", "delegated"} /\ pc = "resume"
             \/ pc' = "service" /\ pc = "holder"
       \/ /\ plan' \in BootPlans /\ pc' = "submit" /\ pc \in {"holder", "service", "delegated"}
          /\ outcome' = outcome
          /\ plan'.entry.kind = "service" => plan'.then = "done"
          /\ pc = "service" => plan'.entry.kind = "service"
          /\ Bootstrap!existing(plan'.entry.eco, plan'.entry.kind, plan'.entry.role) = {}

\* A decision keeps the invariant: what the indexer shows is all that could be
\* the planned entry.
LEMMA DecideStep == BootInv /\ Decides => BootInv'
<1> SUFFICES ASSUME BootInv, Decides PROVE BootInv'
  OBVIOUS
<1> USE BootFacts
<1>0. /\ flows \in [Bootstrap!Ids -> Bootstrap!FlowStates] /\ ready \in [Bootstrap!Ids -> BOOLEAN]
      /\ handling \subseteq Bootstrap!Ids /\ pendingIds \subseteq Bootstrap!Ids
      /\ outcome \in {"pending", "completed", "failed"}
  BY DEF Bootstrap!TypeOK
<1>1. BootTypes'
  BY <1>0, TypesKept DEF Decides, BootTypes
<1>2. UnseenKnown'
  BY DEF BootInv, UnseenKnown, Decides
<1>3. PlanIsNew'
  <2> SUFFICES ASSUME pc' = "submit", NEW i \in 1..Len(parts), SameEntry(parts[i], plan'.entry)
               PROVE  ~parts[i].live
    BY DEF Decides, PlanIsNew, SameEntry
  <2>1. i <= Len(view)
    BY DEF Decides, BootInv, UnseenKnown, SameEntry
  <2>2. i \in 1..Len(view) /\ view[i] \in BootEntries
        /\ SameEntry(view[i], parts[i]) /\ view[i].live = parts[i].live
    BY <2>1 DEF BootInv, SeenAgrees
  <2>3. i \notin Bootstrap!existing(plan'.entry.eco, plan'.entry.kind, plan'.entry.role)
    BY DEF Decides
  <2>4. ~Bootstrap!isUsableParticipant(view[i])
    BY <2>2, <2>3 DEF Bootstrap!existing, SameEntry
  <2>5. view[i].op \in {"PENDING", "VALIDATED"} /\ view[i].live \in BOOLEAN
    BY <2>2 DEF BootEntries
  <2> QED
    BY <2>2, <2>4, <2>5 DEF Bootstrap!isUsableParticipant
<1> QED
  BY <1>1, <1>2, <1>3, EntriesStay DEF Decides

\* The steps of run() that decide.
LEMMA RunDecides ==
  ASSUME BootInv,
         \/ Bootstrap!runMode \/ Bootstrap!ensureHolderParticipant
         \/ Bootstrap!ensureServiceIssuer \/ Bootstrap!runDelegated
  PROVE  Decides
<1> USE BootFacts DEF Bootstrap!flowVars, Bootstrap!count, Bootstrap!chainVars,
                      Bootstrap!Step, Bootstrap!Done
<1>0. outcome \in {"pending", "completed", "failed"}
  BY DEF Bootstrap!TypeOK
<1>d. Bootstrap!discoverEcsSchemas \in Bootstrap!Ecosystems
  BY DiscoveredEcosystem
<1>p. \A e \in Bootstrap!Ecosystems, k \in {"credential", "service"}, r \in {"HOLDER", "ISSUER"},
         v \in {"own", "peer", "parent"}, o \in {"PENDING", "VALIDATED"} :
           /\ Bootstrap!Entry(e, k, r, v, o) \in BootEntries
           /\ Bootstrap!Entry(e, k, r, v, o).eco = e
           /\ Bootstrap!Entry(e, k, r, v, o).kind = k
           /\ Bootstrap!Entry(e, k, r, v, o).role = r
  BY DEF Bootstrap!Entry, BootEntries
<1>t. \A t \in {"start", "selfCreate"}, n \in BootEntries, h \in {"validate", "service", "done"} :
           [tx |-> t, entry |-> n, then |-> h] \in BootPlans
  BY DEF BootPlans
<1>s. \A e \in Bootstrap!Ecosystems, k \in {"credential", "service"}, r \in {"HOLDER", "ISSUER"},
         v \in {"own", "peer", "parent"}, h \in {"validate", "service", "done"} :
           /\ Bootstrap!Start(e, k, r, v, h) \in BootPlans
           /\ Bootstrap!Start(e, k, r, v, h).entry.eco = e
           /\ Bootstrap!Start(e, k, r, v, h).entry.kind = k
           /\ Bootstrap!Start(e, k, r, v, h).entry.role = r
           /\ Bootstrap!Start(e, k, r, v, h).then = h
  <2> SUFFICES ASSUME NEW e \in Bootstrap!Ecosystems, NEW k \in {"credential", "service"},
                      NEW r \in {"HOLDER", "ISSUER"}, NEW v \in {"own", "peer", "parent"},
                      NEW h \in {"validate", "service", "done"}
               PROVE  /\ Bootstrap!Start(e, k, r, v, h) \in BootPlans
                      /\ Bootstrap!Start(e, k, r, v, h).entry.eco = e
                      /\ Bootstrap!Start(e, k, r, v, h).entry.kind = k
                      /\ Bootstrap!Start(e, k, r, v, h).entry.role = r
                      /\ Bootstrap!Start(e, k, r, v, h).then = h
    OBVIOUS
  <2> DEFINE n == Bootstrap!Entry(e, k, r, v, "PENDING")
  <2>1. n \in BootEntries /\ n.eco = e /\ n.kind = k /\ n.role = r
    BY <1>p
  <2> HIDE DEF n
  <2>2. Bootstrap!Start(e, k, r, v, h) = [tx |-> "start", entry |-> n, then |-> h]
    BY DEF n, Bootstrap!Start
  <2>3. [tx |-> "start", entry |-> n, then |-> h] \in BootPlans
    BY <1>t, <2>1
  <2> QED
    BY <2>1, <2>2, <2>3
<1>1. CASE Bootstrap!runMode
  BY <1>0, <1>1 DEF Bootstrap!runMode, Decides
<1>2. CASE Bootstrap!ensureHolderParticipant
  <2> DEFINE e == Bootstrap!discoverEcsSchemas
             role == IF setting.ownRoot THEN "ISSUER" ELSE "HOLDER"
             val == IF setting.ownRoot THEN "own" ELSE "peer"
             after == IF setting.ownRoot THEN "validate" ELSE "service"
  <2>1. /\ pc = "holder"
        /\ UNCHANGED <<setting, usableEco, parts, view, flows, ready, handling, pendingIds>>
        /\ \/ pc' = "done" /\ plan' = Bootstrap!NoPlan /\ outcome' = "failed"
           \/ pc' = "service" /\ plan' = Bootstrap!NoPlan /\ outcome' = outcome
           \/ /\ pc' = "submit" /\ plan' = Bootstrap!Start(e, "credential", role, val, after)
              /\ outcome' = outcome /\ Bootstrap!existing(e, "credential", role) = {}
    BY <1>2 DEF Bootstrap!ensureHolderParticipant
  <2>2. /\ e \in Bootstrap!Ecosystems /\ role \in {"HOLDER", "ISSUER"}
        /\ val \in {"own", "peer", "parent"} /\ after \in {"validate", "service", "done"}
    BY <1>d
  <2> HIDE DEF e, role, val, after
  <2> QED
    BY <1>0, <1>s, <2>1, <2>2 DEF Decides
<1>3. CASE Bootstrap!ensureServiceIssuer
  <2> DEFINE e == Bootstrap!discoverEcsSchemas
             n == Bootstrap!Entry(e, "service", "ISSUER", "peer", "VALIDATED")
  <2>1. /\ pc = "service"
        /\ UNCHANGED <<setting, usableEco, parts, view, flows, ready, handling, pendingIds>>
        /\ \/ pc' = "done" /\ plan' = Bootstrap!NoPlan /\ outcome' \in {"failed", "completed"}
           \/ /\ pc' = "submit" /\ outcome' = outcome /\ Bootstrap!existing(e, "service", "ISSUER") = {}
              /\ \/ plan' = [tx |-> "selfCreate", entry |-> n, then |-> "done"]
                 \/ plan' = Bootstrap!Start(e, "service", "ISSUER", "peer", "done")
    BY <1>3 DEF Bootstrap!ensureServiceIssuer
  <2>2. e \in Bootstrap!Ecosystems
    BY <1>d
  <2>3. n \in BootEntries /\ n.eco = e /\ n.kind = "service" /\ n.role = "ISSUER"
    BY <1>p, <2>2
  <2> HIDE DEF e, n
  <2>4. CASE plan' = [tx |-> "selfCreate", entry |-> n, then |-> "done"]
    <3>1. plan' \in BootPlans /\ plan'.entry = n /\ plan'.then = "done"
      BY <1>t, <2>3, <2>4
    <3> QED
      BY <1>0, <2>1, <2>3, <3>1 DEF Decides
  <2>5. CASE plan' = Bootstrap!Start(e, "service", "ISSUER", "peer", "done")
    BY <1>0, <1>s, <2>1, <2>2, <2>5 DEF Decides
  <2>6. CASE plan' = Bootstrap!NoPlan /\ pc' = "done"
    BY <1>0, <2>1, <2>6 DEF Decides
  <2> QED
    BY <2>1, <2>4, <2>5, <2>6
<1>4. CASE Bootstrap!runDelegated
  <2> DEFINE e == setting.parentEco
  <2>1. /\ pc = "delegated"
        /\ UNCHANGED <<setting, usableEco, parts, view, flows, ready, handling, pendingIds>>
        /\ \/ pc' = "done" /\ plan' = Bootstrap!NoPlan /\ outcome' \in {"failed", "completed"}
           \/ /\ pc' = "submit" /\ outcome' = outcome /\ Bootstrap!existing(e, "service", "HOLDER") = {}
              /\ plan' = Bootstrap!Start(e, "service", "HOLDER", "parent", "done")
    BY <1>4 DEF Bootstrap!runDelegated
  <2>2. e \in Bootstrap!Ecosystems
    BY DEF Bootstrap!TypeOK, Bootstrap!Settings
  <2> HIDE DEF e
  <2> QED
    BY <1>0, <1>s, <2>1, <2>2 DEF Decides
<1> QED
  BY <1>1, <1>2, <1>3, <1>4

\* An entry that is added, of a role for a schema that the agent has no live
\* entry of.
LEMMA EntryAdded ==
  ASSUME BootInv, NEW n \in BootEntries, parts' = Append(parts, n), Len(parts) < MaxEntries,
         view' = view,
         \A i \in 1..Len(parts) : SameEntry(parts[i], n) => ~Bootstrap!isUsableParticipant(parts[i])
  PROVE  /\ parts' \in Seq(BootEntries) /\ Len(parts') = Len(parts) + 1 /\ Len(parts') <= MaxEntries
         /\ parts'[Len(parts) + 1] = n /\ \A i \in 1..Len(parts) : parts'[i] = parts[i]
         /\ Bootstrap!OneEntry' /\ SeenAgrees(parts, view)'
<1> USE BootFacts
<1>1. /\ parts' \in Seq(BootEntries) /\ Len(parts') = Len(parts) + 1
      /\ parts'[Len(parts) + 1] = n /\ \A i \in 1..Len(parts) : parts'[i] = parts[i]
  <2>1. parts \in Seq(BootEntries)
    BY DEF BootTypes
  <2> QED
    BY <2>1, AppendProperties
<1>2. Len(parts') <= MaxEntries
  BY <1>1
<1>3. DOMAIN parts' = 1..(Len(parts) + 1)
  BY <1>1, LenProperties
<1>4. Bootstrap!OneEntry'
  <2> SUFFICES ASSUME NEW i \in 1..(Len(parts) + 1), NEW j \in 1..(Len(parts) + 1),
                      SameEntry(parts'[i], parts'[j]),
                      Bootstrap!isUsableParticipant(parts'[i]),
                      Bootstrap!isUsableParticipant(parts'[j])
               PROVE  i = j
    BY <1>3 DEF Bootstrap!OneEntry, SameEntry, Bootstrap!isUsableParticipant
  <2>1. CASE i \in 1..Len(parts) /\ j \in 1..Len(parts)
    BY <1>1, <2>1 DEF BootInv, Bootstrap!OneEntry, SameEntry
  <2>2. CASE i = Len(parts) + 1 /\ j \in 1..Len(parts)
    BY <1>1, <2>2 DEF SameEntry
  <2>3. CASE j = Len(parts) + 1 /\ i \in 1..Len(parts)
    BY <1>1, <2>3 DEF SameEntry
  <2> QED
    BY <2>1, <2>2, <2>3
<1>5. SeenAgrees(parts, view)'
  BY <1>1 DEF BootInv, SeenAgrees, SameEntry
<1> QED
  BY <1>1, <1>2, <1>4, <1>5

\* A transaction of the agent.
LEMMA SubmitStep == BootInv /\ Bootstrap!submit => BootInv'
<1> SUFFICES ASSUME BootInv, Bootstrap!submit PROVE BootInv'
  OBVIOUS
<1> USE BootFacts DEF Bootstrap!flowVars, Bootstrap!Done
<1>0. /\ flows \in [Bootstrap!Ids -> Bootstrap!FlowStates] /\ ready \in [Bootstrap!Ids -> BOOLEAN]
      /\ handling \subseteq Bootstrap!Ids /\ pendingIds \subseteq Bootstrap!Ids
      /\ outcome \in {"pending", "completed", "failed"}
      /\ (plan # Bootstrap!NoPlan) <=> (pc = "submit")
      /\ plan = Bootstrap!NoPlan \/ plan \in BootPlans
      /\ parts \in Seq(BootEntries) /\ view \in Seq(BootEntries)
  BY DEF Bootstrap!TypeOK, BootTypes
<1>1. /\ pc = "submit" /\ plan' = Bootstrap!NoPlan /\ plan \in BootPlans
      /\ UNCHANGED <<setting, usableEco, view, flows, ready, handling, pendingIds>>
  BY <1>0 DEF Bootstrap!submit
<1>2. plan.entry \in BootEntries /\ plan.then \in {"validate", "service", "done"}
  BY <1>1 DEF BootPlans
<1>3. CASE /\ Len(parts) < MaxEntries /\ parts' = Append(parts, plan.entry) /\ pc' = plan.then
           /\ outcome' \in {"pending", "completed", "failed"}
  <2>1. \A i \in 1..Len(parts) :
           SameEntry(parts[i], plan.entry) => ~Bootstrap!isUsableParticipant(parts[i])
    BY <1>1 DEF BootInv, PlanIsNew, Bootstrap!isUsableParticipant
  <2>2. /\ parts' \in Seq(BootEntries) /\ Len(parts') = Len(parts) + 1 /\ Len(parts') <= MaxEntries
        /\ parts'[Len(parts) + 1] = plan.entry /\ \A i \in 1..Len(parts) : parts'[i] = parts[i]
        /\ Bootstrap!OneEntry' /\ SeenAgrees(parts, view)'
    BY <1>1, <1>2, <1>3, <2>1, EntryAdded
  <2>3. BootTypes'
    BY <1>0, <1>1, <1>2, <1>3, <2>2, TypesKept
  <2>4. UnseenKnown'
    <3> SUFFICES ASSUME pc' \in {"service", "validate"}, NEW i \in 1..(Len(parts) + 1), i > Len(view)
                 PROVE  parts'[i].kind = "credential"
      BY <1>1, <1>2, <1>3, <2>2 DEF UnseenKnown
    <3>1. CASE i = Len(parts) + 1
      <4>1. plan.entry.kind # "service"
        BY <1>1, <1>3 DEF BootInv, PlanIsNew
      <4> QED
        BY <1>2, <2>2, <3>1, <4>1 DEF BootEntries
    <3>2. CASE i \in 1..Len(parts)
      BY <1>1, <2>2, <3>2 DEF BootInv, UnseenKnown
    <3> QED
      BY <3>1, <3>2
  <2>5. PlanIsNew'
    BY <1>2, <1>3 DEF PlanIsNew
  <2> QED
    BY <2>2, <2>3, <2>4, <2>5 DEF BootInv
<1>4. CASE pc' = "done" /\ outcome' = "failed" /\ parts' = parts
  <2>1. BootTypes'
    BY <1>0, <1>1, <1>4, TypesKept
  <2>2. UnseenKnown' /\ PlanIsNew'
    BY <1>4 DEF UnseenKnown, PlanIsNew
  <2> QED
    BY <1>1, <1>4, <2>1, <2>2, EntriesStay
<1> QED
  BY <1>0, <1>3, <1>4 DEF Bootstrap!submit

\* The second transaction of ensureSelfIssuedParticipant.
LEMMA ValidateStep == BootInv /\ Bootstrap!validateOwn => BootInv'
<1> SUFFICES ASSUME BootInv, Bootstrap!validateOwn PROVE BootInv'
  OBVIOUS
<1> USE BootFacts DEF Bootstrap!flowVars
<1>0. /\ flows \in [Bootstrap!Ids -> Bootstrap!FlowStates] /\ ready \in [Bootstrap!Ids -> BOOLEAN]
      /\ handling \subseteq Bootstrap!Ids /\ pendingIds \subseteq Bootstrap!Ids
      /\ outcome \in {"pending", "completed", "failed"}
      /\ (plan # Bootstrap!NoPlan) <=> (pc = "submit")
      /\ parts \in Seq(BootEntries) /\ view \in Seq(BootEntries)
  BY DEF Bootstrap!TypeOK, BootTypes
<1>1. /\ pc = "validate" /\ pc' \in {"service", "done"} /\ plan' = plan /\ plan = Bootstrap!NoPlan
      /\ outcome' \in {"pending", "completed", "failed"}
      /\ UNCHANGED <<setting, usableEco, view, flows, ready, handling, pendingIds>>
  BY <1>0 DEF Bootstrap!validateOwn
<1>2. Moved(parts, parts') /\ \A j \in 1..Len(parts) : parts'[j].live = parts[j].live
  <2>1. CASE parts' = parts
    BY <2>1, EntrySetMoves
  <2>2. CASE \E i : Bootstrap!setParticipantOPToValidated(i)
    BY <2>2, Validating
  <2> QED
    BY <2>1, <2>2 DEF Bootstrap!validateOwn
<1>3. BootTypes'
  BY <1>0, <1>1, <1>2, TypesKept DEF Moved
<1>4. SeenAgrees(parts', view')
  BY <1>1, <1>2 DEF BootInv, SeenAgrees, Moved, SameEntry
<1> QED
  BY <1>1, <1>2, <1>3, <1>4, EntriesMove

\* The indexer shows one more entry.
LEMMA ShowStep == BootInv /\ Bootstrap!startParticipantOPAutoFlow => BootInv'
<1> SUFFICES ASSUME BootInv, Bootstrap!startParticipantOPAutoFlow PROVE BootInv'
  OBVIOUS
<1> USE BootFacts DEF Bootstrap!count
<1>0. /\ flows \in [Bootstrap!Ids -> Bootstrap!FlowStates] /\ ready \in [Bootstrap!Ids -> BOOLEAN]
      /\ handling \subseteq Bootstrap!Ids /\ pendingIds \subseteq Bootstrap!Ids
      /\ outcome \in {"pending", "completed", "failed"}
      /\ (plan # Bootstrap!NoPlan) <=> (pc = "submit")
      /\ plan = Bootstrap!NoPlan \/ plan \in BootPlans
      /\ parts \in Seq(BootEntries)
      /\ pc \in {"down", "offers", "resume", "holder", "service", "delegated", "submit",
                 "validate", "done"}
  BY DEF Bootstrap!TypeOK, BootTypes
<1>1. /\ Len(view) < Len(parts) /\ view' = SubSeq(parts, 1, Len(view) + 1) /\ parts' = parts
      /\ UNCHANGED <<setting, usableEco, handling, pc, pendingIds, plan, outcome>>
  BY DEF Bootstrap!startParticipantOPAutoFlow
<1>2. flows' \in [Bootstrap!Ids -> Bootstrap!FlowStates] /\ ready' \in [Bootstrap!Ids -> BOOLEAN]
  BY <1>0, FlowBegins DEF Bootstrap!startParticipantOPAutoFlow, Bootstrap!fails_
<1>3. /\ view' \in Seq(BootEntries) /\ Len(view') = Len(view) + 1 /\ SeenAgrees(parts, view')
  BY <1>0, <1>1, ShownPrefix
<1>4. BootTypes'
  BY <1>0, <1>1, <1>2, <1>3, TypesKept
<1>5. Bootstrap!OneEntry' /\ SeenAgrees(parts, view)'
  BY <1>1, <1>3 DEF BootInv, Bootstrap!OneEntry, Bootstrap!isUsableParticipant, SeenAgrees, SameEntry
<1>6. UnseenKnown' /\ PlanIsNew'
  BY <1>1, <1>3 DEF BootInv, UnseenKnown, PlanIsNew, SameEntry
<1> QED
  BY <1>4, <1>5, <1>6 DEF BootInv

\* The validator sets an entry to validated, or one dies.
LEMMA ChainStep == \A i \in Bootstrap!Ids : BootInv /\ Bootstrap!chainMoves(i) => BootInv'
<1> SUFFICES ASSUME BootInv, NEW i \in Bootstrap!Ids, Bootstrap!chainMoves(i) PROVE BootInv'
  OBVIOUS
<1> USE BootFacts DEF Bootstrap!flowVars
<1>0. /\ flows \in [Bootstrap!Ids -> Bootstrap!FlowStates] /\ ready \in [Bootstrap!Ids -> BOOLEAN]
      /\ handling \subseteq Bootstrap!Ids /\ pendingIds \subseteq Bootstrap!Ids
      /\ outcome \in {"pending", "completed", "failed"}
      /\ (plan # Bootstrap!NoPlan) <=> (pc = "submit")
      /\ plan = Bootstrap!NoPlan \/ plan \in BootPlans
      /\ pc \in {"down", "offers", "resume", "holder", "service", "delegated", "submit",
                 "validate", "done"}
  BY DEF Bootstrap!TypeOK, BootTypes
<1>1. /\ view' = SubSeq(parts', 1, Len(view))
      /\ UNCHANGED <<setting, usableEco, flows, ready, handling, pc, pendingIds, plan, outcome>>
  BY DEF Bootstrap!chainMoves
<1>2. Moved(parts, parts')
  <2>1. \/ parts' = [parts EXCEPT ![i].op = "VALIDATED"]
        \/ parts' = [parts EXCEPT ![i].live = FALSE]
    BY DEF Bootstrap!chainMoves
  <2>2. CASE parts' = [parts EXCEPT ![i].op = "VALIDATED"]
    BY <2>2, EntrySetMoves
  <2>3. CASE parts' = [parts EXCEPT ![i].live = FALSE]
    BY <2>3, EntrySetMoves, Zenon
  <2> QED
    BY <2>1, <2>2, <2>3
<1>3. view' \in Seq(BootEntries) /\ Len(view') = Len(view) /\ SeenAgrees(parts', view')
  BY <1>1, <1>2, ShownPrefix DEF Moved
<1>4. BootTypes'
  BY <1>0, <1>1, <1>2, <1>3, TypesKept DEF Moved
<1> QED
  BY <1>1, <1>2, <1>3, <1>4, EntriesMove

\* The operator provisions an entry, and the process ends.
LEMMA OperatorSteps == BootInv /\ (Bootstrap!provision \/ Bootstrap!crash) => BootInv'
<1> SUFFICES ASSUME BootInv, Bootstrap!provision \/ Bootstrap!crash PROVE BootInv'
  OBVIOUS
<1> USE BootFacts DEF Bootstrap!flowVars, Bootstrap!chainVars
<1>0. /\ flows \in [Bootstrap!Ids -> Bootstrap!FlowStates] /\ ready \in [Bootstrap!Ids -> BOOLEAN]
      /\ handling \subseteq Bootstrap!Ids /\ pendingIds \subseteq Bootstrap!Ids
      /\ outcome \in {"pending", "completed", "failed"}
      /\ (plan # Bootstrap!NoPlan) <=> (pc = "submit")
      /\ plan = Bootstrap!NoPlan \/ plan \in BootPlans
      /\ parts \in Seq(BootEntries) /\ view \in Seq(BootEntries)
  BY DEF Bootstrap!TypeOK, BootTypes
<1>1. CASE Bootstrap!provision
  <2> DEFINE e == IF setting.mode = "delegated" THEN setting.parentEco
                  ELSE Bootstrap!discoverEcsSchemas
             k == IF setting.mode = "delegated" THEN "service" ELSE "credential"
  <2>1. PICK val \in {"peer", "parent"} :
          /\ ~\E i \in DOMAIN parts : /\ parts[i].eco = e /\ parts[i].kind = k
                                      /\ Bootstrap!isUsableParticipant(parts[i])
          /\ parts' = Append(parts, Bootstrap!Entry(e, k, "HOLDER", val, "PENDING"))
    BY <1>1 DEF Bootstrap!provision
  <2>2. /\ pc \in {"down", "done"} /\ Len(parts) < MaxEntries
        /\ UNCHANGED <<setting, usableEco, view, flows, ready, handling, pc, pendingIds, plan, outcome>>
    BY <1>1 DEF Bootstrap!provision
  <2>3. e \in Bootstrap!Ecosystems /\ k \in {"credential", "service"}
    BY DiscoveredEcosystem DEF Bootstrap!TypeOK, Bootstrap!Settings
  <2> HIDE DEF e, k
  <2> DEFINE n == Bootstrap!Entry(e, k, "HOLDER", val, "PENDING")
  <2>4. n \in BootEntries /\ n.eco = e /\ n.kind = k
    BY <2>3 DEF Bootstrap!Entry, BootEntries
  <2>5. parts' = Append(parts, n)
    BY <2>1
  <2> HIDE DEF n
  <2>6. \A i \in 1..Len(parts) : SameEntry(parts[i], n) => ~Bootstrap!isUsableParticipant(parts[i])
    BY <2>1, <2>4 DEF SameEntry
  <2>7. /\ parts' \in Seq(BootEntries) /\ Len(parts') = Len(parts) + 1 /\ Len(parts') <= MaxEntries
        /\ Bootstrap!OneEntry' /\ SeenAgrees(parts, view)'
    BY <2>2, <2>4, <2>5, <2>6, EntryAdded
  <2>8. BootTypes'
    BY <1>0, <2>2, <2>7, TypesKept
  <2>9. UnseenKnown' /\ PlanIsNew'
    BY <2>2 DEF UnseenKnown, PlanIsNew
  <2> QED
    BY <2>7, <2>8, <2>9 DEF BootInv
<1>2. CASE Bootstrap!crash
  <2>1. BootTypes'
    BY <1>0, <1>2, TypesKept DEF Bootstrap!crash
  <2>2. UnseenKnown' /\ PlanIsNew'
    BY <1>2 DEF Bootstrap!crash, UnseenKnown, PlanIsNew
  <2> QED
    BY <1>2, <2>1, <2>2, EntriesStay DEF Bootstrap!crash
<1> QED
  BY <1>1, <1>2

\* A step of the onboarding, of the agent or of the others, keeps BootInv.
LEMMA BootNext == BootInv /\ [Bootstrap!Next]_(Bootstrap!vars) => BootInv'
<1> SUFFICES ASSUME BootInv, [Bootstrap!Next]_(Bootstrap!vars) PROVE BootInv'
  OBVIOUS
<1>1. CASE Bootstrap!Bootstrap
  BY <1>1, BootStep, FlowSteps, ResumeSteps, RunDecides, DecideStep, SubmitStep, ValidateStep
     DEF Bootstrap!Bootstrap
<1>2. CASE Bootstrap!startParticipantOPAutoFlow
  BY <1>2, ShowStep
<1>3. CASE \E i \in Bootstrap!Ids : \/ Bootstrap!peerAnswers(i) \/ Bootstrap!autoAccept(i)
                                    \/ Bootstrap!chainMoves(i) \/ Bootstrap!loseConnection(i)
  BY <1>3, FlowSteps, ChainStep
<1>4. CASE \/ Bootstrap!provision \/ Bootstrap!crash
           \/ \E e \in Bootstrap!Ecosystems : Bootstrap!archiveEcosystem(e)
  BY <1>4, FlowSteps, OperatorSteps
<1>5. CASE UNCHANGED Bootstrap!vars
  <2>1. UNCHANGED <<setting, usableEco, parts, view, flows, ready, handling, pc, pendingIds, plan, outcome>>
    BY <1>5 DEF Bootstrap!vars, Bootstrap!chainVars, Bootstrap!flowVars
  <2> QED
    BY <2>1, QuietStep, BootFacts DEF Bootstrap!TypeOK
<1> QED
  BY <1>1, <1>2, <1>3, <1>4, <1>5 DEF Bootstrap!Next

\* isUsableParticipant, "StartParticipantOP pays a trust deposit, and it cannot
\* be undone": whatever is interrupted and restarted, over any number of starts,
\* the agent never holds two entries of one role for one schema that could both
\* become active.
THEOREM BootstrapIsOnce == Bootstrap!Spec => []OneEntry
<1>1. BootInv => OneEntry
  BY DEF BootInv, BootTypes, OneEntry
<1> QED
  BY <1>1, BootStarts, BootNext, PTL DEF Bootstrap!Spec

-----------------------------------------------------------------------------
(* The published material, when its writers run one at a time, for any      *)
(* schemas, endpoints, changes, failures and crashes.                       *)

\* The operations and notifications, and the values of the variables.
StoreOps ==
    [k : {"sync", "jsc", "tm"}, x : Schemas] \cup [k : {"each"}, x : SUBSET Schemas]
      \cup [k : {"withdraw"}, x : Nat] \cup [k : {"add", "delete"}, x : Endpoints]
      \cup [k : {"pass", "detach", "rebind", "publish", "tag", "passed", "vtc", "remove",
                 "revoked", "handled"}, x : {0}]
StoreNews ==
    [k : {"CreateNewCredentialSchema"}, x : Schemas] \cup [k : {"RevokeIssuer"}, x : Nat \ {0}]
      \cup [k : {"SetParticipantOPToValidated", "RevokeHolder"}, x : {0}]
DidRecords ==
    [jsc : [Schemas -> Nat], tm : [Schemas -> Nat], jscSvc : SUBSET Schemas, held : BOOLEAN,
     self : BOOLEAN, tag : Nat, vtcSvc : SUBSET {"holder", "self"}, custom : SUBSET Endpoints]
StoreTypes ==
    /\ rec \in DidRecords /\ copy \in [Store!Threads -> DidRecords]
    /\ version \in [Schemas -> Nat] /\ owned \in BOOLEAN /\ onChain \in BOOLEAN
    /\ issuers \in Nat /\ issuer \in 0..issuers /\ bound \in [Store!Threads -> 0..issuers]
    /\ holder \in {"offered", "completed", "revoked"}
    /\ storeNews \in Seq(StoreNews) /\ todo \in [Store!Threads -> Seq(StoreOps)]
    /\ stale \in BOOLEAN /\ passed \in BOOLEAN /\ faults \in Nat

\* What a program has left to do.
Has(q, k) == \E i \in 1..Len(q) : q[i].k = k
HasAt(q, k, x) == \E i \in 1..Len(q) : q[i].k = k /\ q[i].x = x

\* Every program is a part of one order of the operations.
Rank(k) ==
    CASE k \in {"pass", "remove"} -> 0
      [] k \in {"sync", "jsc", "revoked", "vtc", "add", "delete"} -> 1
      [] k = "tm" -> 2
      [] k = "each" -> 3
      [] k = "detach" -> 4
      [] k = "withdraw" -> 5
      [] k \in {"rebind", "publish"} -> 6
      [] k = "tag" -> 7
      [] k = "passed" -> 8
      [] k = "handled" -> 9
Sorted(q) == \A i, j \in 1..Len(q) : i < j => Rank(q[i].k) < Rank(q[j].k)

\* What a program that has begun still holds of its parts.
ProgramFits(q) ==
    /\ Sorted(q)
    /\ Has(q, "pass") => HasAt(q, "each", Schemas) /\ Has(q, "detach")
    /\ Has(q, "rebind") \/ Has(q, "publish") => Has(q, "tag")
    /\ Has(q, "tag") => Has(q, "rebind") \/ Head(q).k \in {"publish", "tag"}
    /\ \A s \in Schemas, left \in SUBSET Schemas :
          HasAt(q, "tm", s) /\ HasAt(q, "each", left) => s \notin left

Writes == {"sync", "jsc", "tm", "detach", "withdraw", "rebind", "publish", "tag", "vtc",
           "remove", "add", "delete"}

\* One program at a time; a copy belongs to its first operation.
ProgramsInTurn ==
    /\ \A t, u \in Store!Threads : Store!Running(t) /\ Store!Running(u) => t = u
    /\ \A t \in Store!Threads :
         /\ ProgramFits(todo[t])
         /\ copy[t] # Store!NoRec => Store!Running(t) /\ Head(todo[t]).k \in Writes

\* The notification in hand is the one at work, until its handler returns.
NotificationInHand ==
    /\ \A t \in Store!Threads : Has(todo[t], "handled") => t = "notif"
    /\ Store!Running("notif") => storeNews # <<>> /\ Has(todo["notif"], "handled")
    /\ \A i \in 1..Len(storeNews) :
         storeNews[i].k = "CreateNewCredentialSchema" => version[storeNews[i].x] # 0
    /\ \A t \in Store!Threads, s \in Schemas : HasAt(todo[t], "jsc", s) => version[s] # 0

\* A record announces what it holds, of versions the chain has had.
Served(r) ==
    /\ \A s \in r.jscSvc : r.jsc[s] # 0
    /\ \A s \in Schemas : r.jsc[s] <= version[s]
    /\ r.tag \in 0..issuers
    /\ "holder" \in r.vtcSvc => r.held
    /\ "self" \in r.vtcSvc => r.self
    /\ r.tag # 0 => r.self

\* What an operation makes of a record, and the first one of a program of the
\* record as it is.
Outcome(t, o, r) ==
    IF o.k = "publish" THEN Store!publishSelfIssuedEcsPresentation(r) ELSE Store!Apply(t, o, r)
Result(t) == Outcome(t, Head(todo[t]), rec)

\* What a copy changes of the record, whatever the chain did since it was read.
CopyKeeps(t) ==
    LET k == Head(todo[t]).k  c == copy[t] IN
    /\ k \notin {"vtc", "remove"} => c.held = rec.held
    /\ k = "remove" => ~c.held
    /\ k \notin {"withdraw", "rebind", "publish", "tag"} => c.self = rec.self /\ c.tag = rec.tag
    /\ k = "withdraw" => ~c.self /\ c.tag = 0
    /\ k \in {"rebind", "publish"} => c.tag = rec.tag /\ (c.self # rec.self => bound[t] # 0)
    /\ k = "tag" =>
         c.self = rec.self /\ c.tag = IF rec.self /\ bound[t] # 0 THEN bound[t] ELSE rec.tag

CopiesFit ==
    \A t \in Store!Threads : copy[t] # Store!NoRec =>
        /\ Served(copy[t]) /\ CopyKeeps(t)
        /\ ~stale => copy[t] = Result(t)

\* The schemas that a pass has synchronized, those whose type metadata it has
\* saved, and whether it has detached.
Reconciled(r, L, M, d) ==
    /\ \A s \in Schemas \ L : owned /\ version[s] # 0 => r.jsc[s] = version[s] /\ s \in r.jscSvc
    /\ \A s \in Schemas \ M : owned /\ version[s] # 0 => r.tm[s] # 0
    /\ d => owned \/ r.jscSvc = {}

InPass(q) == Has(q, "passed") /\ ~Has(q, "pass")
Listed(q) == {s \in Schemas : \E left \in SUBSET Schemas : s \in left /\ HasAt(q, "each", left)}
ToSync(q) == Listed(q) \cup {s \in Schemas : HasAt(q, "sync", s)}
ToDescribe(q) == Listed(q) \cup {s \in Schemas : HasAt(q, "tm", s)}

PassesReconcile ==
    /\ \A t \in Store!Threads : InPass(todo[t]) =>
         /\ ~passed
         /\ ~stale => Reconciled(rec, ToSync(todo[t]), ToDescribe(todo[t]), ~Has(todo[t], "detach"))
    /\ passed /\ ~stale => Reconciled(rec, {}, {}, TRUE)

\* The flow of the HOLDER.
HolderFollows ==
    /\ \A t \in Store!Threads : Has(todo[t], "vtc") => holder = "completed"
    /\ ~onChain => holder = "revoked" \/ \E i \in 1..Len(storeNews) : storeNews[i].k = "RevokeHolder"
    /\ Store!Running("notif") /\ Head(storeNews).k = "RevokeHolder" =>
         holder = "revoked" \/ Has(todo["notif"], "revoked")

\* A participant whose credential may be published: the active ISSUER, or one
\* whose revocation waits to be handled.
Backed(p) ==
    p # 0 /\ (p = issuer \/ \E i \in 1..Len(storeNews) : storeNews[i] = [k |-> "RevokeIssuer", x |-> p])

\* What holds until an operation fails or the process stops.
HolderWithdrawn ==
    /\ holder = "revoked" => ~rec.held \/ \E t \in Store!Threads : Has(todo[t], "remove")
    /\ \A t \in Store!Threads : Has(todo[t], "revoked") => ~rec.held \/ Has(todo[t], "remove")

SelfBacked ==
    /\ rec.self /\ rec.tag # 0 => Backed(rec.tag)
    /\ rec.self /\ rec.tag = 0 =>
         \E t \in Store!Threads : Store!Running(t) /\ Head(todo[t]).k = "tag" /\ bound[t] # 0
    /\ Store!Running("notif") /\ Head(storeNews).k = "RevokeIssuer" =>
         /\ ~Has(todo["notif"], "tag")
         /\ HasAt(todo["notif"], "withdraw", Head(storeNews).x) \/ ~rec.self \/ rec.tag # Head(storeNews).x
    /\ \A t \in Store!Threads :
         /\ Store!Running(t)
         /\ \/ Head(todo[t]).k \in {"publish", "tag"}
            \/ Head(todo[t]).k = "rebind" /\ copy[t] # Store!NoRec
         => bound[t] = 0 \/ Backed(bound[t])

-----------------------------------------------------------------------------
\* Programs.

\* An operation is one of StoreOps.
LEMMA OpsAre ==
    /\ \A k, x : Store!Op(k, x) = [k |-> k, x |-> x] /\ Store!Op(k, x).k = k /\ Store!Op(k, x).x = x
    /\ \A k \in {"pass", "detach", "rebind", "publish", "tag", "passed", "vtc", "remove",
                 "revoked", "handled"} : Store!Op(k, 0) \in StoreOps
    /\ \A k \in {"sync", "jsc", "tm"}, s \in Schemas : Store!Op(k, s) \in StoreOps
    /\ \A left \in SUBSET Schemas : Store!Op("each", left) \in StoreOps
    /\ \A p \in Nat : Store!Op("withdraw", p) \in StoreOps
    /\ \A k \in {"add", "delete"}, e \in Endpoints : Store!Op(k, e) \in StoreOps
BY DEF StoreOps, Store!Op

\* The numbers of the order.
LEMMA Ranks ==
    /\ Rank("pass") = 0 /\ Rank("remove") = 0 /\ Rank("sync") = 1 /\ Rank("jsc") = 1
    /\ Rank("revoked") = 1 /\ Rank("vtc") = 1 /\ Rank("add") = 1 /\ Rank("delete") = 1
    /\ Rank("tm") = 2 /\ Rank("each") = 3 /\ Rank("detach") = 4 /\ Rank("withdraw") = 5
    /\ Rank("rebind") = 6 /\ Rank("publish") = 6 /\ Rank("tag") = 7 /\ Rank("passed") = 8
    /\ Rank("handled") = 9
    /\ \A o \in StoreOps : Rank(o.k) \in 0..9
BY DEF Rank, StoreOps

\* Only the return of a handler is last.
LEMMA LastRank ==
  ASSUME NEW o \in StoreOps, o.k # "handled"
  PROVE  Rank(o.k) \in 0..8
<1>1. o.k \in {"pass", "remove", "sync", "jsc", "revoked", "vtc", "add", "delete", "tm", "each", "detach",
              "withdraw", "rebind", "publish", "tag", "passed"}
  BY DEF StoreOps
<1> QED
  BY <1>1, Ranks

\* A sequence that is not empty.
LEMMA NotEmpty ==
  ASSUME NEW S, NEW q \in Seq(S), NEW n \in Nat \ {0}, Len(q) = n
  PROVE  q # <<>> /\ Head(q) = q[1]
BY EmptySeq, HeadTailProperties

\* An empty program has nothing to do.
LEMMA NothingToDo ==
    /\ \A k : ~Has(<<>>, k)
    /\ \A k, x : ~HasAt(<<>>, k, x)
    /\ ProgramFits(<<>>) /\ ~InPass(<<>>)
BY DEF Has, HasAt, ProgramFits, Sorted, InPass

\* An operation of a program has a number.
LEMMA HasRank ==
  ASSUME NEW q \in Seq(StoreOps), NEW k, Has(q, k)
  PROVE  Rank(k) \in 0..9
<1>1. PICK i \in 1..Len(q) : q[i].k = k
  BY DEF Has
<1>2. q[i] \in StoreOps
  BY <1>1, ElementOfSeq
<1> QED
  BY <1>1, <1>2, Ranks

\* What is left when the first operation is done.
LEMMA FirstDone ==
  ASSUME NEW q \in Seq(StoreOps), q # <<>>
  PROVE  /\ Head(q) \in StoreOps /\ Tail(q) \in Seq(StoreOps)
         /\ \A k : Has(q, k) <=> Head(q).k = k \/ Has(Tail(q), k)
         /\ \A k, x : HasAt(q, k, x) <=> (Head(q).k = k /\ Head(q).x = x) \/ HasAt(Tail(q), k, x)
         /\ Sorted(q) => /\ Sorted(Tail(q))
                         /\ \A k : Has(Tail(q), k) => Rank(Head(q).k) < Rank(k)
         /\ Tail(q) # <<>> => Has(Tail(q), Head(Tail(q)).k)
<1> DEFINE r == Tail(q)
<1>1. /\ Head(q) = q[1] /\ r \in Seq(StoreOps) /\ Len(r) = Len(q) - 1 /\ Len(q) \in Nat \ {0}
      /\ \A i \in 1..Len(r) : r[i] = q[i + 1]
  BY HeadTailProperties, LenProperties, EmptySeq
<1>2. Head(q) \in StoreOps
  BY <1>1, ElementOfSeq
<1>3. \A i \in 1..Len(q) : i = 1 \/ (i - 1 \in 1..Len(r) /\ q[i] = r[i - 1])
  BY <1>1
<1>4. \A i \in 1..Len(r) : i + 1 \in 1..Len(q)
  BY <1>1
<1>5. 1 \in 1..Len(q)
  BY <1>1
<1>6. r # <<>> => Head(r) = r[1] /\ 1 \in 1..Len(r)
  BY <1>1, HeadTailProperties, LenProperties, EmptySeq
<1> HIDE DEF r
<1>7. \A k : Has(q, k) <=> Head(q).k = k \/ Has(r, k)
  <2> TAKE k
  <2>1. Has(q, k) => Head(q).k = k \/ Has(r, k)
    BY <1>1, <1>3 DEF Has
  <2>2. Head(q).k = k => Has(q, k)
    BY <1>1, <1>5 DEF Has
  <2>3. Has(r, k) => Has(q, k)
    BY <1>1, <1>4 DEF Has
  <2> QED
    BY <2>1, <2>2, <2>3
<1>8. \A k, x : HasAt(q, k, x) <=> (Head(q).k = k /\ Head(q).x = x) \/ HasAt(r, k, x)
  <2> TAKE k, x
  <2>1. HasAt(q, k, x) => (Head(q).k = k /\ Head(q).x = x) \/ HasAt(r, k, x)
    BY <1>1, <1>3 DEF HasAt
  <2>2. Head(q).k = k /\ Head(q).x = x => HasAt(q, k, x)
    BY <1>1, <1>5 DEF HasAt
  <2>3. HasAt(r, k, x) => HasAt(q, k, x)
    BY <1>1, <1>4 DEF HasAt
  <2> QED
    BY <2>1, <2>2, <2>3
<1>9. ASSUME Sorted(q)
      PROVE  Sorted(r) /\ \A k : Has(r, k) => Rank(Head(q).k) < Rank(k)
  <2>1. Sorted(r)
    BY <1>1, <1>4, <1>9 DEF Sorted
  <2>2. ASSUME NEW i \in 1..Len(r) PROVE Rank(Head(q).k) < Rank(r[i].k)
    <3>1. i + 1 \in 1..Len(q) /\ 1 < i + 1
      BY <1>4
    <3> QED
      BY <1>1, <1>5, <1>9, <3>1 DEF Sorted
  <2> QED
    BY <2>1, <2>2 DEF Has
<1>10. r # <<>> => Has(r, Head(r).k)
  BY <1>6 DEF Has
<1> QED
  BY <1>1, <1>2, <1>7, <1>8, <1>9, <1>10 DEF r

\* A program with one more operation at its beginning.
LEMMA OneMore ==
  ASSUME NEW q \in Seq(StoreOps), NEW o \in StoreOps
  PROVE  /\ <<o>> \o q \in Seq(StoreOps) /\ <<o>> \o q # <<>> /\ Head(<<o>> \o q) = o
         /\ Tail(<<o>> \o q) = q
         /\ \A k : Has(<<o>> \o q, k) <=> o.k = k \/ Has(q, k)
         /\ \A k, x : HasAt(<<o>> \o q, k, x) <=> (o.k = k /\ o.x = x) \/ HasAt(q, k, x)
         /\ Sorted(q) /\ (\A k : Has(q, k) => Rank(o.k) < Rank(k)) => Sorted(<<o>> \o q)
<1> DEFINE r == <<o>> \o q
<1>1. /\ r \in Seq(StoreOps) /\ r # <<>> /\ Head(r) = o /\ Tail(r) = q
      /\ Len(r) = Len(q) + 1 /\ Len(q) \in Nat /\ r[1] = o
      /\ \A i \in 1..Len(q) : r[i + 1] = q[i]
  OBVIOUS
<1>2. \A i \in 1..Len(r) : i = 1 \/ (i - 1 \in 1..Len(q) /\ r[i] = q[i - 1])
  BY <1>1
<1> HIDE DEF r
<1>3. /\ \A k : Has(r, k) <=> o.k = k \/ Has(q, k)
      /\ \A k, x : HasAt(r, k, x) <=> (o.k = k /\ o.x = x) \/ HasAt(q, k, x)
  BY <1>1, FirstDone
<1>4. ASSUME Sorted(q), \A k : Has(q, k) => Rank(o.k) < Rank(k)
      PROVE  Sorted(r)
  <2>1. \A i \in 1..Len(q) : Rank(o.k) < Rank(q[i].k)
    BY <1>4 DEF Has
  <2> SUFFICES ASSUME NEW i \in 1..Len(r), NEW j \in 1..Len(r), i < j
               PROVE  Rank(r[i].k) < Rank(r[j].k)
    BY DEF Sorted
  <2>2. j - 1 \in 1..Len(q) /\ r[j] = q[j - 1]
    BY <1>1, <1>2
  <2>3. CASE i = 1
    BY <1>1, <2>1, <2>2, <2>3
  <2>4. CASE i # 1
    <3>1. i - 1 \in 1..Len(q) /\ r[i] = q[i - 1] /\ i - 1 < j - 1
      BY <1>1, <1>2, <2>4
    <3> QED
      BY <1>4, <2>2, <3>1 DEF Sorted
  <2> QED
    BY <2>3, <2>4
<1> QED
  BY <1>1, <1>3, <1>4 DEF r

\* What is left fits still, also when a rebinding is given up.
LEMMA FirstDoneFits ==
  ASSUME NEW q \in Seq(StoreOps), q # <<>>, ProgramFits(q)
  PROVE  /\ ~Has(Tail(q), "pass") /\ ProgramFits(Tail(q))
         /\ \A k : Has(Tail(q), k) => Rank(k) \in 0..9 /\ Rank(Head(q).k) < Rank(k)
         /\ Head(q).k \in {"rebind", "publish"} =>
              /\ Tail(q) # <<>> /\ Head(Tail(q)) = Store!Op("tag", 0)
              /\ Tail(Tail(q)) \in Seq(StoreOps) /\ ProgramFits(Tail(Tail(q)))
<1>1. ASSUME NEW p \in Seq(StoreOps), p # <<>>, ProgramFits(p)
      PROVE  /\ Head(p) \in StoreOps /\ Tail(p) \in Seq(StoreOps) /\ Sorted(Tail(p))
             /\ \A k : Has(Tail(p), k) => Rank(k) \in 0..9 /\ Rank(Head(p).k) < Rank(k)
             /\ \A k : Has(p, k) <=> Head(p).k = k \/ Has(Tail(p), k)
             /\ \A k, x : HasAt(Tail(p), k, x) => HasAt(p, k, x)
             /\ ~Has(Tail(p), "pass") /\ Rank(Head(p).k) \in 0..9
  <2>1. /\ Sorted(Tail(p)) /\ Head(p) \in StoreOps /\ Tail(p) \in Seq(StoreOps)
        /\ \A k : Has(Tail(p), k) => Rank(Head(p).k) < Rank(k)
        /\ \A k : Has(p, k) <=> Head(p).k = k \/ Has(Tail(p), k)
        /\ \A k, x : HasAt(Tail(p), k, x) => HasAt(p, k, x)
    BY <1>1, FirstDone DEF ProgramFits
  <2>2. Rank(Head(p).k) \in 0..9 /\ Rank("pass") = 0
    BY <2>1, Ranks
  <2>3. ~Has(Tail(p), "pass")
    BY <2>1, <2>2
  <2>4. \A k : Has(Tail(p), k) => Rank(k) \in 0..9
    BY <2>1, HasRank
  <2> QED
    BY <2>1, <2>2, <2>3, <2>4
<1>2. ASSUME NEW p \in Seq(StoreOps), p # <<>>, ProgramFits(p), Head(p).k \in {"rebind", "publish"}
      PROVE  Tail(p) # <<>> /\ Head(Tail(p)) = Store!Op("tag", 0)
  <2>1. Tail(p) \in Seq(StoreOps) /\ Sorted(Tail(p)) /\ Rank(Head(p).k) = 6
    BY <1>1, <1>2, Ranks
  <2>2. Has(Tail(p), "tag")
    BY <1>2, <1>1 DEF ProgramFits
  <2>3. Tail(p) # <<>>
    BY <2>2, NothingToDo
  <2> DEFINE h == Head(Tail(p))
             w == Tail(Tail(p))
  <2>4. /\ h \in StoreOps
        /\ \A k : Has(Tail(p), k) <=> h.k = k \/ Has(w, k)
        /\ \A k : Has(w, k) => Rank(h.k) < Rank(k)
    BY <2>1, <2>3, FirstDone
  <2> HIDE DEF h, w
  <2>5. Rank(h.k) \in 0..9 /\ Rank(h.k) > 6
    <3>1. Rank(Head(p).k) < Rank(h.k)
      BY <1>1, <1>2, <2>4
    <3>2. Rank(h.k) \in 0..9
      BY <2>4, Ranks
    <3> QED
      BY <2>1, <3>1, <3>2
  <2>6. h.k = "tag"
    <3>1. Has(w, "tag") => Rank(h.k) < 7
      BY <2>4, Ranks
    <3>2. ~Has(w, "tag")
      BY <2>5, <3>1
    <3> QED
      BY <2>2, <2>4, <3>2
  <2>7. h = Store!Op("tag", 0)
    BY <2>4, <2>6 DEF StoreOps, Store!Op
  <2> QED
    BY <2>3, <2>7 DEF h
<1>3. ASSUME NEW p \in Seq(StoreOps), p # <<>>, ProgramFits(p)
      PROVE  ProgramFits(Tail(p))
  <2>1. Has(Tail(p), "rebind") \/ Has(Tail(p), "publish") => Has(Tail(p), "tag")
    <3>1. Has(Tail(p), "rebind") \/ Has(Tail(p), "publish") => Rank(Head(p).k) < 6
      BY <1>1, <1>3, Ranks
    <3>2. Has(Tail(p), "rebind") \/ Has(Tail(p), "publish") => Has(p, "tag")
      BY <1>1, <1>3 DEF ProgramFits
    <3>3. Head(p).k = "tag" => Rank(Head(p).k) = 7
      BY Ranks
    <3> QED
      BY <1>1, <1>3, <3>1, <3>2, <3>3
  <2>2. ASSUME Has(Tail(p), "tag")
        PROVE  Has(Tail(p), "rebind") \/ Head(Tail(p)).k \in {"publish", "tag"}
    <3>1. Head(p).k # "tag"
      BY <1>1, <1>3, <2>2, Ranks
    <3>2. Has(p, "rebind") \/ Head(p).k = "publish"
      BY <1>1, <1>3, <2>2, <3>1 DEF ProgramFits
    <3>3. CASE Head(p).k \in {"rebind", "publish"}
      <4>1. Head(Tail(p)) = Store!Op("tag", 0)
        BY <1>2, <1>3, <3>3
      <4>2. Store!Op("tag", 0).k = "tag"
        BY OpsAre
      <4> QED
        BY <4>1, <4>2, Zenon
    <3>4. CASE Head(p).k \notin {"rebind", "publish"}
      BY <1>1, <1>3, <3>2, <3>4
    <3> QED
      BY <3>3, <3>4
  <2>3. \A s \in Schemas, left \in SUBSET Schemas :
          HasAt(Tail(p), "tm", s) /\ HasAt(Tail(p), "each", left) => s \notin left
    BY <1>1, <1>3 DEF ProgramFits
  <2> QED
    BY <1>1, <1>3, <2>1, <2>2, <2>3 DEF ProgramFits
<1>4. Tail(q) \in Seq(StoreOps) /\ ProgramFits(Tail(q)) /\ ~Has(Tail(q), "pass")
  BY <1>1, <1>3
<1>5. ASSUME Head(q).k \in {"rebind", "publish"}
      PROVE  /\ Tail(q) # <<>> /\ Head(Tail(q)) = Store!Op("tag", 0)
             /\ Tail(Tail(q)) \in Seq(StoreOps) /\ ProgramFits(Tail(Tail(q)))
  <2>1. Tail(q) # <<>> /\ Head(Tail(q)) = Store!Op("tag", 0)
    BY <1>2, <1>5
  <2> QED
    BY <1>1, <1>3, <1>4, <2>1
<1> QED
  BY <1>1, <1>4, <1>5

\* The digest is on the chain: the presentation is published next.
LEMMA AnchoredFits ==
  ASSUME NEW q \in Seq(StoreOps), q # <<>>, ProgramFits(q), Head(q).k = "rebind",
         NEW p, p = <<Store!Op("publish", 0)>> \o Tail(q)
  PROVE  /\ p \in Seq(StoreOps) /\ p # <<>> /\ ProgramFits(p)
         /\ Head(p) = Store!Op("publish", 0) /\ Tail(p) = Tail(q)
         /\ \A k : k \notin {"rebind", "publish"} => (Has(p, k) <=> Has(q, k))
         /\ \A k, x : k \notin {"rebind", "publish"} => (HasAt(p, k, x) <=> HasAt(q, k, x))
<1> DEFINE o == Store!Op("publish", 0)
<1>1. o \in StoreOps /\ o.k = "publish"
  BY OpsAre
<1>2. /\ Tail(q) \in Seq(StoreOps) /\ ProgramFits(Tail(q)) /\ ~Has(Tail(q), "pass")
      /\ \A k : Has(Tail(q), k) => Rank(k) \in 0..9 /\ Rank(Head(q).k) < Rank(k)
      /\ \A k : Has(q, k) <=> Head(q).k = k \/ Has(Tail(q), k)
      /\ \A k, x : HasAt(q, k, x) <=> (Head(q).k = k /\ Head(q).x = x) \/ HasAt(Tail(q), k, x)
  BY FirstDone, FirstDoneFits
<1>3. \A k : Has(Tail(q), k) => Rank(o.k) < Rank(k)
  <2>1. Rank("rebind") = 6 /\ Rank("publish") = 6
    BY Ranks
  <2> QED
    BY <1>1, <1>2, <2>1
<1>4. /\ p \in Seq(StoreOps) /\ p # <<>> /\ Head(p) = o /\ Tail(p) = Tail(q) /\ Sorted(p)
      /\ \A k : Has(p, k) <=> o.k = k \/ Has(Tail(q), k)
      /\ \A k, x : HasAt(p, k, x) <=> (o.k = k /\ o.x = x) \/ HasAt(Tail(q), k, x)
  <2>1. p = <<o>> \o Tail(q)
    OBVIOUS
  <2>2. Sorted(Tail(q))
    BY <1>2 DEF ProgramFits
  <2> HIDE DEF o
  <2>3. Sorted(<<o>> \o Tail(q))
    BY <1>1, <1>2, <1>3, <2>2, OneMore
  <2>4. /\ <<o>> \o Tail(q) \in Seq(StoreOps) /\ <<o>> \o Tail(q) # <<>>
        /\ Head(<<o>> \o Tail(q)) = o /\ Tail(<<o>> \o Tail(q)) = Tail(q)
        /\ \A k : Has(<<o>> \o Tail(q), k) <=> o.k = k \/ Has(Tail(q), k)
        /\ \A k, x : HasAt(<<o>> \o Tail(q), k, x) <=> (o.k = k /\ o.x = x) \/ HasAt(Tail(q), k, x)
    BY <1>1, <1>2, OneMore
  <2> QED
    BY <2>1, <2>3, <2>4
<1> HIDE DEF o
<1>5. /\ \A k : k \notin {"rebind", "publish"} => (Has(p, k) <=> Has(q, k))
      /\ \A k, x : k \notin {"rebind", "publish"} => (HasAt(p, k, x) <=> HasAt(q, k, x))
  BY <1>1, <1>2, <1>4
<1>6. ProgramFits(p)
  <2>1. ~Has(p, "pass") /\ Has(p, "tag")
    BY <1>1, <1>2, <1>4 DEF ProgramFits
  <2>2. \A s \in Schemas, left \in SUBSET Schemas :
          HasAt(p, "tm", s) /\ HasAt(p, "each", left) => s \notin left
    BY <1>5 DEF ProgramFits
  <2> QED
    BY <1>1, <1>4, <2>1, <2>2 DEF ProgramFits
<1> QED
  BY <1>4, <1>5, <1>6 DEF o

\* A schema is taken from those that are left.
LEMMA NextSchemaFits ==
  ASSUME NEW q \in Seq(StoreOps), q # <<>>, ProgramFits(q), Head(q).k = "each",
         NEW s \in Head(q).x, NEW p,
         p = <<Store!Op("sync", s), Store!Op("tm", s), Store!Op("each", Head(q).x \ {s})>> \o Tail(q)
  PROVE  /\ p \in Seq(StoreOps) /\ p # <<>> /\ ProgramFits(p) /\ Head(p).k = "sync"
         /\ \A k : k \notin {"sync", "tm"} => (Has(p, k) <=> Has(q, k))
         /\ \A k, x : k \notin {"sync", "tm", "each"} => (HasAt(p, k, x) <=> HasAt(q, k, x))
         /\ ToSync(p) = ToSync(q) /\ ToDescribe(p) = ToDescribe(q)
<1> DEFINE a == Store!Op("sync", s)
           b == Store!Op("tm", s)
           left == Head(q).x
           c == Store!Op("each", left \ {s})
           q1 == <<c>> \o Tail(q)
           q2 == <<b>> \o q1
<1>1. Head(q) \in StoreOps /\ left \in SUBSET Schemas /\ s \in Schemas
  <2>1. Head(q) \in StoreOps
    BY FirstDone
  <2> QED
    BY <2>1 DEF StoreOps
<1>2. /\ a \in StoreOps /\ b \in StoreOps /\ c \in StoreOps
      /\ a.k = "sync" /\ b.k = "tm" /\ c.k = "each" /\ a.x = s /\ b.x = s /\ c.x = left \ {s}
  BY <1>1, OpsAre
<1>3. /\ Tail(q) \in Seq(StoreOps) /\ ProgramFits(Tail(q)) /\ ~Has(Tail(q), "pass")
      /\ \A k : Has(Tail(q), k) => Rank(k) \in 0..9 /\ 3 < Rank(k)
      /\ \A k : Has(q, k) <=> k = "each" \/ Has(Tail(q), k)
      /\ \A k, x : HasAt(q, k, x) <=> (k = "each" /\ x = left) \/ HasAt(Tail(q), k, x)
  <2>1. Rank("each") = 3
    BY Ranks
  <2> QED
    BY <2>1, FirstDone, FirstDoneFits
<1>4. p = <<a>> \o q2
  <2> HIDE DEF a, b, c
  <2>2. p = <<a, b, c>> \o Tail(q)
    BY DEF a, b, c
  <2>3. <<a, b, c>> \o Tail(q) = <<a>> \o (<<b>> \o (<<c>> \o Tail(q)))
    <3> DEFINE r == Tail(q)
    <3>1. r \in Seq(StoreOps) /\ a \in StoreOps /\ b \in StoreOps /\ c \in StoreOps
      BY <1>2, <1>3
    <3> HIDE DEF r
    <3> DEFINE once == <<a, b, c>> \o r
               each == <<a>> \o (<<b>> \o (<<c>> \o r))
               at(i) == IF i = 1 THEN a ELSE IF i = 2 THEN b ELSE IF i = 3 THEN c ELSE r[i - 3]
    <3>2. once \in Seq(StoreOps) /\ Len(once) = 3 + Len(r) /\ \A i \in 1..Len(once) : once[i] = at(i)
      BY <3>1
    <3>3. each \in Seq(StoreOps) /\ Len(each) = 3 + Len(r) /\ \A i \in 1..Len(each) : each[i] = at(i)
      BY <3>1
    <3> HIDE DEF once, each, at
    <3>4. once = each
      BY <3>2, <3>3, SeqEqual
    <3> QED
      BY <3>4 DEF r, once, each
  <2> QED
    BY <2>2, <2>3
<1> HIDE DEF a, b, c, left
<1>5. /\ q1 \in Seq(StoreOps) /\ Sorted(q1)
      /\ \A k : Has(q1, k) <=> k = "each" \/ Has(Tail(q), k)
      /\ \A k, x : HasAt(q1, k, x) <=> (k = "each" /\ x = left \ {s}) \/ HasAt(Tail(q), k, x)
  <2>1. Sorted(Tail(q)) /\ \A k : Has(Tail(q), k) => Rank(c.k) < Rank(k)
    BY <1>2, <1>3, Ranks DEF ProgramFits
  <2> QED
    BY <1>2, <1>3, <2>1, OneMore
<1> HIDE DEF q1
<1>6. /\ q2 \in Seq(StoreOps) /\ Sorted(q2)
      /\ \A k : Has(q2, k) <=> k = "tm" \/ Has(q1, k)
      /\ \A k, x : HasAt(q2, k, x) <=> (k = "tm" /\ x = s) \/ HasAt(q1, k, x)
  <2>1. \A k : Has(q1, k) => Rank(b.k) < Rank(k)
    <3>1. Rank(b.k) = 2 /\ \A k : k = "each" => Rank(k) = 3
      BY <1>2, Ranks
    <3>2. ASSUME NEW k, Has(q1, k) PROVE Rank(b.k) < Rank(k)
      <4>1. CASE k = "each"
        BY <3>1, <4>1
      <4>2. CASE Has(Tail(q), k)
        BY <1>3, <3>1, <4>2
      <4> QED
        BY <1>5, <3>2, <4>1, <4>2
    <3> QED
      BY <3>2
  <2> QED
    BY <1>2, <1>5, <2>1, OneMore DEF q2
<1> HIDE DEF q2
<1>7. /\ p \in Seq(StoreOps) /\ p # <<>> /\ Sorted(p) /\ Head(p) = a
      /\ \A k : Has(p, k) <=> k = "sync" \/ Has(q2, k)
      /\ \A k, x : HasAt(p, k, x) <=> (k = "sync" /\ x = s) \/ HasAt(q2, k, x)
  <2>1. \A k : Has(q2, k) => Rank(a.k) < Rank(k)
    <3>1. Rank(a.k) = 1 /\ \A k : (k = "tm" => Rank(k) = 2) /\ (k = "each" => Rank(k) = 3)
      BY <1>2, Ranks
    <3>2. ASSUME NEW k, Has(q2, k) PROVE Rank(a.k) < Rank(k)
      <4>1. CASE k = "tm" \/ k = "each"
        BY <3>1, <4>1
      <4>2. CASE Has(Tail(q), k)
        BY <1>3, <3>1, <4>2
      <4> QED
        BY <1>5, <1>6, <3>2, <4>1, <4>2
    <3> QED
      BY <3>2
  <2>2. Sorted(<<a>> \o q2)
    BY <1>2, <1>6, <2>1, OneMore
  <2>3. /\ <<a>> \o q2 \in Seq(StoreOps) /\ <<a>> \o q2 # <<>> /\ Head(<<a>> \o q2) = a
        /\ \A k : Has(<<a>> \o q2, k) <=> a.k = k \/ Has(q2, k)
        /\ \A k, x : HasAt(<<a>> \o q2, k, x) <=> (a.k = k /\ a.x = x) \/ HasAt(q2, k, x)
    BY <1>2, <1>6, OneMore
  <2> QED
    BY <1>2, <1>4, <2>2, <2>3
<1>8. /\ \A k : k \notin {"sync", "tm"} => (Has(p, k) <=> Has(q, k))
      /\ \A k, x : k \notin {"sync", "tm", "each"} => (HasAt(p, k, x) <=> HasAt(q, k, x))
  BY <1>3, <1>5, <1>6, <1>7
<1>9. /\ ~Has(Tail(q), "sync") /\ ~Has(Tail(q), "tm") /\ ~Has(Tail(q), "each")
      /\ \A x : ~HasAt(Tail(q), "sync", x) /\ ~HasAt(Tail(q), "tm", x) /\ ~HasAt(Tail(q), "each", x)
  <2>1. ~Has(Tail(q), "sync") /\ ~Has(Tail(q), "tm") /\ ~Has(Tail(q), "each")
    <3>1. Rank("sync") = 1 /\ Rank("tm") = 2 /\ Rank("each") = 3
      BY Ranks
    <3> QED
      BY <1>3, <3>1
  <2>2. \A k, x : HasAt(Tail(q), k, x) => Has(Tail(q), k)
    BY DEF Has, HasAt
  <2> QED
    BY <2>1, <2>2
<1>10. /\ \A x : HasAt(q, "each", x) <=> x = left
       /\ \A x : ~HasAt(q, "sync", x) /\ ~HasAt(q, "tm", x)
  BY <1>3, <1>9
<1>11. /\ \A x : HasAt(p, "each", x) <=> x = left \ {s}
       /\ \A x : HasAt(p, "sync", x) <=> x = s
       /\ \A x : HasAt(p, "tm", x) <=> x = s
  BY <1>5, <1>6, <1>7, <1>9
<1>12. ProgramFits(p)
  <2>1. ~Has(p, "pass")
    BY <1>3, <1>5, <1>6, <1>7
  <2>2. Has(p, "rebind") \/ Has(p, "publish") => Has(p, "tag")
    BY <1>8 DEF ProgramFits
  <2>3. \A t \in Schemas, l \in SUBSET Schemas : HasAt(p, "tm", t) /\ HasAt(p, "each", l) => t \notin l
    BY <1>11
  <2>4. Has(p, "tag") => Has(p, "rebind") \/ Head(p).k \in {"publish", "tag"}
    <3>1. Head(q).k \notin {"publish", "tag"}
      OBVIOUS
    <3> QED
      BY <1>8, <3>1 DEF ProgramFits
  <2> QED
    BY <1>7, <2>1, <2>2, <2>3, <2>4 DEF ProgramFits
<1>13. ToSync(p) = ToSync(q) /\ ToDescribe(p) = ToDescribe(q)
  <2>1. Listed(p) = left \ {s}
    BY <1>1, <1>11 DEF Listed
  <2>2. Listed(q) = left
    BY <1>1, <1>10 DEF Listed
  <2>3. {r \in Schemas : HasAt(p, "sync", r)} = {s} /\ {r \in Schemas : HasAt(p, "tm", r)} = {s}
    BY <1>1, <1>11
  <2>4. {r \in Schemas : HasAt(q, "sync", r)} = {} /\ {r \in Schemas : HasAt(q, "tm", r)} = {}
    BY <1>10
  <2>5. s \in left
    BY DEF left
  <2> QED
    BY <2>1, <2>2, <2>3, <2>4, <2>5 DEF ToSync, ToDescribe
<1> QED
  BY <1>2, <1>7, <1>8, <1>12, <1>13

-----------------------------------------------------------------------------
\* Records.

\* What a record that announces one more schema keeps of another.
Announces(r, c, s) ==
    /\ c \in DidRecords /\ c.tm = r.tm /\ c.held = r.held /\ c.self = r.self /\ c.tag = r.tag
    /\ c.vtcSvc = r.vtcSvc
    /\ \A u \in Schemas : u # s => c.jsc[u] = r.jsc[u] /\ (u \in c.jscSvc <=> u \in r.jscSvc)
    /\ s \in r.jscSvc => s \in c.jscSvc
    /\ c.jsc[s] \in {r.jsc[s], version[s]} /\ (r.jsc[s] # 0 => c.jsc[s] # 0)
    /\ s \in c.jscSvc => s \in r.jscSvc \/ c.jsc[s] # 0
    /\ owned /\ version[s] # 0 => c.jsc[s] = version[s] /\ s \in c.jscSvc
    /\ ~owned => c = r

\* The JSON schema credential is issued, or announced again.
LEMMA SchemaSynced ==
  ASSUME version \in [Schemas -> Nat], owned \in BOOLEAN, NEW r \in DidRecords, NEW s \in Schemas
  PROVE  /\ Announces(r, Store!syncSchema(r, s), s)
         /\ version[s] # 0 => Announces(r, IF owned THEN Store!saveJsc(r, s) ELSE r, s)
<1> DEFINE c == Store!saveJsc(r, s)
           d == [r EXCEPT !.jscSvc = @ \cup {s}]
<1>1. /\ c \in DidRecords /\ c.tm = r.tm /\ c.held = r.held /\ c.self = r.self /\ c.tag = r.tag
      /\ c.vtcSvc = r.vtcSvc /\ c.jscSvc = r.jscSvc \cup {s}
      /\ c.jsc = [r.jsc EXCEPT ![s] = version[s]] /\ r.jsc \in [Schemas -> Nat]
  BY DEF DidRecords, Store!saveJsc
<1>2. /\ d \in DidRecords /\ d.tm = r.tm /\ d.held = r.held /\ d.self = r.self /\ d.tag = r.tag
      /\ d.vtcSvc = r.vtcSvc /\ d.jscSvc = r.jscSvc \cup {s} /\ d.jsc = r.jsc
  BY DEF DidRecords
<1>3. Store!syncSchema(r, s) = IF ~owned \/ version[s] = 0 THEN r ELSE IF r.jsc[s] # version[s] THEN c ELSE d
  BY DEF Store!syncSchema
<1> HIDE DEF c, d
<1>4. Announces(r, r, s) \/ (owned /\ version[s] # 0)
  BY DEF Announces
<1>5. version[s] # 0 => Announces(r, c, s) \/ ~owned
  BY <1>1 DEF Announces
<1>6. owned /\ version[s] # 0 /\ r.jsc[s] = version[s] => Announces(r, d, s)
  BY <1>2 DEF Announces
<1> QED
  BY <1>3, <1>4, <1>5, <1>6 DEF c

\* The type metadata is saved once.
LEMMA MetadataSaved ==
  ASSUME owned \in BOOLEAN, NEW r \in DidRecords, NEW s \in Schemas,
         NEW c, c = Store!saveTypeMetadata(r, s)
  PROVE  /\ c \in DidRecords /\ c.jsc = r.jsc /\ c.jscSvc = r.jscSvc /\ c.held = r.held
         /\ c.self = r.self /\ c.tag = r.tag /\ c.vtcSvc = r.vtcSvc
         /\ \A u \in Schemas : r.tm[u] # 0 => c.tm[u] # 0
         /\ owned /\ r.jsc[s] # 0 => c.tm[s] # 0
<1>1. CASE owned /\ r.jsc[s] # 0 /\ r.tm[s] = 0
  <2>1. c = [r EXCEPT !.tm[s] = r.jsc[s]]
    BY <1>1 DEF Store!saveTypeMetadata
  <2>2. /\ c \in DidRecords /\ c.jsc = r.jsc /\ c.jscSvc = r.jscSvc /\ c.held = r.held
        /\ c.self = r.self /\ c.tag = r.tag /\ c.vtcSvc = r.vtcSvc
        /\ c.tm = [r.tm EXCEPT ![s] = r.jsc[s]] /\ r.tm \in [Schemas -> Nat]
    BY <2>1 DEF DidRecords
  <2> QED
    BY <1>1, <2>2
<1>2. CASE ~(owned /\ r.jsc[s] # 0 /\ r.tm[s] = 0)
  BY <1>2 DEF Store!saveTypeMetadata
<1> QED
  BY <1>1, <1>2

\* The services of an ecosystem of another DID go.
LEMMA Detached ==
  ASSUME owned \in BOOLEAN, NEW r \in DidRecords, NEW c, c = Store!detachVtjscPublications(r)
  PROVE  /\ c \in DidRecords /\ c.jsc = r.jsc /\ c.tm = r.tm /\ c.held = r.held
         /\ c.self = r.self /\ c.tag = r.tag /\ c.vtcSvc = r.vtcSvc
         /\ owned => c = r
         /\ ~owned => c.jscSvc = {}
BY DEF DidRecords, Store!detachVtjscPublications

\* The self-issued credential goes with its ISSUER.
LEMMA Withdrawn ==
  ASSUME NEW r \in DidRecords, NEW p \in Nat,
         NEW c, c = Store!withdrawSelfIssuedEcsCredentials(r, p)
  PROVE  /\ c \in DidRecords /\ c.jsc = r.jsc /\ c.tm = r.tm /\ c.held = r.held /\ c.jscSvc = r.jscSvc
         /\ c # r => ~c.self /\ c.tag = 0 /\ c.vtcSvc = r.vtcSvc \ {"self"}
         /\ c = r /\ p # 0 => ~r.self \/ r.tag # p
<1> DEFINE d == [r EXCEPT !.self = FALSE, !.tag = 0, !.vtcSvc = @ \ {"self"}]
<1>1. d \in DidRecords
  BY DEF DidRecords
<1>2. d.jsc = r.jsc /\ d.tm = r.tm /\ d.held = r.held /\ d.jscSvc = r.jscSvc
  BY DEF DidRecords
<1>3. d.self = FALSE /\ d.tag = 0 /\ d.vtcSvc = r.vtcSvc \ {"self"}
  BY DEF DidRecords
<1>4. c = IF r.self /\ (IF p = 0 THEN r.tag \in 1..issuers /\ r.tag # issuer ELSE r.tag = p) THEN d ELSE r
  BY DEF Store!withdrawSelfIssuedEcsCredentials
<1> HIDE DEF d
<1> QED
  BY <1>1, <1>2, <1>3, <1>4

\* The self-issued credential is published, then tagged.
LEMMA Published ==
  ASSUME NEW r \in DidRecords, NEW c, c = Store!publishSelfIssuedEcsPresentation(r)
  PROVE  /\ c \in DidRecords /\ c.jsc = r.jsc /\ c.tm = r.tm /\ c.held = r.held /\ c.jscSvc = r.jscSvc
         /\ c.tag = r.tag
         /\ issuer = 0 => c = r
         /\ issuer # 0 => c.self /\ c.vtcSvc = r.vtcSvc \cup {"self"}
BY DEF DidRecords, Store!publishSelfIssuedEcsPresentation
\* tagIssuer.
LEMMA Tagged ==
  ASSUME NEW r \in DidRecords, NEW p \in Nat, NEW c, c = Store!tagIssuer(r, p)
  PROVE  /\ c \in DidRecords /\ c.jsc = r.jsc /\ c.tm = r.tm /\ c.held = r.held /\ c.jscSvc = r.jscSvc
         /\ c.self = r.self /\ c.vtcSvc = r.vtcSvc
         /\ c.tag = IF r.self /\ p # 0 THEN p ELSE r.tag
BY DEF DidRecords, Store!tagIssuer

\* The credential of the HOLDER, and the endpoints of the administrator.
LEMMA HolderAndEndpoints ==
  ASSUME NEW r \in DidRecords,
         NEW c, \/ c = Store!createVtc(r) \/ c = Store!removeTrustCredential(r)
                \/ \E e \in Endpoints : c = Store!addServiceEndpoint(r, e) \/ c = Store!deleteServiceEndpoint(r, e)
  PROVE  /\ c \in DidRecords /\ c.jsc = r.jsc /\ c.tm = r.tm /\ c.jscSvc = r.jscSvc
         /\ c.self = r.self /\ c.tag = r.tag
         /\ "self" \in c.vtcSvc <=> "self" \in r.vtcSvc
         /\ \/ c.held = r.held /\ ("holder" \in c.vtcSvc <=> "holder" \in r.vtcSvc)
            \/ c.held /\ "holder" \in c.vtcSvc /\ c = Store!createVtc(r)
            \/ ~c.held /\ "holder" \notin c.vtcSvc /\ c = Store!removeTrustCredential(r)
         /\ c = Store!removeTrustCredential(r) => ~c.held
<1>1. CASE c = Store!createVtc(r)
  <2>1. Store!removeTrustCredential(r).held = FALSE
    BY DEF DidRecords, Store!removeTrustCredential
  <2> QED
    BY <1>1, <2>1 DEF DidRecords, Store!createVtc
<1>2. CASE c = Store!removeTrustCredential(r)
  BY <1>2 DEF DidRecords, Store!removeTrustCredential
<1>3. ASSUME NEW e \in Endpoints, c = Store!addServiceEndpoint(r, e) PROVE c.held = r.held /\ c \in DidRecords
      /\ c.jsc = r.jsc /\ c.tm = r.tm /\ c.jscSvc = r.jscSvc
      /\ c.self = r.self /\ c.tag = r.tag /\ c.vtcSvc = r.vtcSvc
  BY <1>3 DEF DidRecords, Store!addServiceEndpoint
<1>4. ASSUME NEW e \in Endpoints, c = Store!deleteServiceEndpoint(r, e) PROVE c.held = r.held /\ c \in DidRecords
      /\ c.jsc = r.jsc /\ c.tm = r.tm /\ c.jscSvc = r.jscSvc
      /\ c.self = r.self /\ c.tag = r.tag /\ c.vtcSvc = r.vtcSvc
  BY <1>4 DEF DidRecords, Store!deleteServiceEndpoint
<1>5. Store!removeTrustCredential(r).held = FALSE
  BY DEF DidRecords, Store!removeTrustCredential
<1> QED
  BY <1>1, <1>2, <1>3, <1>4, <1>5

\* What each operation is.
LEMMA OutcomeIs ==
  ASSUME NEW t, NEW r, NEW o \in StoreOps, NEW c, c = Outcome(t, o, r)
  PROVE  \/ o.k = "sync" /\ o.x \in Schemas /\ c = Store!syncSchema(r, o.x)
         \/ o.k = "jsc" /\ o.x \in Schemas /\ c = IF owned THEN Store!saveJsc(r, o.x) ELSE r
         \/ o.k = "tm" /\ o.x \in Schemas /\ c = Store!saveTypeMetadata(r, o.x)
         \/ o.k = "detach" /\ c = Store!detachVtjscPublications(r)
         \/ o.k = "withdraw" /\ o.x \in Nat /\ c = Store!withdrawSelfIssuedEcsCredentials(r, o.x)
         \/ o.k \in {"rebind", "publish"} /\ c = Store!publishSelfIssuedEcsPresentation(r)
         \/ o.k = "tag" /\ c = Store!tagIssuer(r, bound[t])
         \/ o.k = "vtc" /\ c = Store!createVtc(r)
         \/ o.k = "remove" /\ c = Store!removeTrustCredential(r)
         \/ /\ o.k \in {"add", "delete"} /\ o.x \in Endpoints
            /\ \/ c = Store!addServiceEndpoint(r, o.x)
               \/ c = Store!deleteServiceEndpoint(r, o.x)
         \/ o.k \notin Writes /\ c = r
<1>1. CASE o.k \in {"sync", "jsc", "tm"}
  <2>1. o.x \in Schemas
    BY <1>1 DEF StoreOps
  <2> QED
    BY <1>1, <2>1 DEF Outcome, Store!Apply
<1>2. CASE o.k \in {"add", "delete"}
  <2>1. o.x \in Endpoints
    BY <1>2 DEF StoreOps
  <2> QED
    BY <1>2, <2>1 DEF Outcome, Store!Apply
<1>3. CASE o.k = "withdraw"
  <2>1. o.x \in Nat
    BY <1>3 DEF StoreOps
  <2> QED
    BY <1>3, <2>1 DEF Outcome, Store!Apply
<1>4. CASE o.k \notin {"sync", "jsc", "tm", "add", "delete", "withdraw"}
  BY <1>4 DEF Outcome, Store!Apply, Writes
<1> QED
  BY <1>1, <1>2, <1>3, <1>4

\* It leaves the record served, and what a pass has reconciled.
KeepsServed(o, r, c) ==
    /\ c \in DidRecords /\ Served(c)
    /\ \A L, M \in SUBSET Schemas, d \in BOOLEAN : Reconciled(r, L, M, d) =>
         /\ Reconciled(c, L, M, d)
         /\ o.k = "sync" => Reconciled(c, L \ {o.x}, M, d)
         /\ o.k = "tm" /\ o.x \notin L => Reconciled(c, L, M \ {o.x}, d)
         /\ o.k = "detach" => Reconciled(c, L, M, TRUE)

\* An operation keeps what the record announces and what a pass has done.
LEMMA OutcomeServed ==
  ASSUME StoreTypes, NEW t \in Store!Threads, NEW r \in DidRecords, Served(r), NEW o \in StoreOps,
         o.k = "jsc" => version[o.x] # 0, NEW c, c = Outcome(t, o, r)
  PROVE  KeepsServed(o, r, c)
<1>0. /\ version \in [Schemas -> Nat] /\ owned \in BOOLEAN /\ issuers \in Nat
      /\ issuer \in 0..issuers /\ bound[t] \in 0..issuers
  BY DEF StoreTypes
<1>1. ASSUME NEW s \in Schemas, Announces(r, c, s), o.k \in {"sync", "jsc"}, o.x = s
      PROVE  KeepsServed(o, r, c)
  <2>1. c \in DidRecords
    BY <1>1 DEF Announces
  <2>2. Served(c)
    <3>1. \A u \in c.jscSvc : u \in Schemas /\ c.jsc[u] # 0
      BY <1>1, <2>1 DEF Announces, Served, DidRecords
    <3>2. \A u \in Schemas : c.jsc[u] <= version[u]
      BY <1>0, <1>1, <2>1 DEF Announces, Served, DidRecords
    <3> QED
      BY <1>1, <3>1, <3>2 DEF Announces, Served
  <2>3. ASSUME NEW L \in SUBSET Schemas, NEW M \in SUBSET Schemas, NEW d \in BOOLEAN, Reconciled(r, L, M, d)
        PROVE  Reconciled(c, L \ {s}, M, d) /\ Reconciled(c, L, M, d)
    <3>1. \A u \in Schemas \ (L \ {s}) : owned /\ version[u] # 0 => c.jsc[u] = version[u] /\ u \in c.jscSvc
      BY <1>1, <2>3 DEF Announces, Reconciled
    <3>2. \A u \in Schemas \ M : owned /\ version[u] # 0 => c.tm[u] # 0
      BY <1>1, <2>3 DEF Announces, Reconciled
    <3>3. d => owned \/ c.jscSvc = {}
      BY <1>1, <2>3 DEF Announces, Reconciled
    <3> QED
      BY <3>1, <3>2, <3>3 DEF Reconciled
  <2> QED
    BY <1>1, <2>1, <2>2, <2>3 DEF KeepsServed
<1>2. ASSUME NEW s \in Schemas, o.k = "tm", o.x = s, c = Store!saveTypeMetadata(r, s)
      PROVE  KeepsServed(o, r, c)
  <2>1. /\ c \in DidRecords /\ c.jsc = r.jsc /\ c.jscSvc = r.jscSvc /\ c.held = r.held
        /\ c.self = r.self /\ c.tag = r.tag /\ c.vtcSvc = r.vtcSvc
        /\ \A u \in Schemas : r.tm[u] # 0 => c.tm[u] # 0
        /\ owned /\ r.jsc[s] # 0 => c.tm[s] # 0
    BY <1>0, <1>2, MetadataSaved
  <2>2. Served(c)
    BY <2>1 DEF Served
  <2>3. ASSUME NEW L \in SUBSET Schemas, NEW M \in SUBSET Schemas, NEW d \in BOOLEAN, Reconciled(r, L, M, d)
        PROVE  Reconciled(c, L, M, d) /\ (s \notin L => Reconciled(c, L, M \ {s}, d))
    <3>1. \A u \in Schemas \ M : owned /\ version[u] # 0 => c.tm[u] # 0
      BY <2>1, <2>3 DEF Reconciled
    <3>2. s \notin L /\ owned /\ version[s] # 0 => c.tm[s] # 0
      BY <2>1, <2>3 DEF Reconciled
    <3> QED
      BY <2>1, <2>3, <3>1, <3>2 DEF Reconciled
  <2> QED
    BY <1>2, <2>1, <2>2, <2>3 DEF KeepsServed
<1>3. CASE o.k = "detach" /\ c = Store!detachVtjscPublications(r)
  <2>1. /\ c \in DidRecords /\ c.jsc = r.jsc /\ c.tm = r.tm /\ c.held = r.held
        /\ c.self = r.self /\ c.tag = r.tag /\ c.vtcSvc = r.vtcSvc
        /\ owned => c = r
        /\ ~owned => c.jscSvc = {}
    BY <1>0, <1>3, Detached
  <2>2. Served(c)
    BY <2>1 DEF Served
  <2>3. ASSUME NEW L \in SUBSET Schemas, NEW M \in SUBSET Schemas, NEW d \in BOOLEAN, Reconciled(r, L, M, d)
        PROVE  Reconciled(c, L, M, d) /\ Reconciled(c, L, M, TRUE)
    BY <1>0, <2>1, <2>3 DEF Reconciled
  <2> QED
    BY <1>3, <2>1, <2>2, <2>3 DEF KeepsServed
<1>4. ASSUME o.k \notin {"sync", "tm", "detach"}, c \in DidRecords, c.jsc = r.jsc, c.tm = r.tm,
             c.jscSvc = r.jscSvc, Served(c)
      PROVE  KeepsServed(o, r, c)
  BY <1>4 DEF Reconciled, KeepsServed
<1>5. CASE o.k = "withdraw" /\ o.x \in Nat /\ c = Store!withdrawSelfIssuedEcsCredentials(r, o.x)
  <2>1. /\ c \in DidRecords /\ c.jsc = r.jsc /\ c.tm = r.tm /\ c.held = r.held /\ c.jscSvc = r.jscSvc
        /\ c # r => ~c.self /\ c.tag = 0 /\ c.vtcSvc = r.vtcSvc \ {"self"}
    BY <1>5, Withdrawn
  <2>2. Served(c)
    BY <1>0, <2>1 DEF Served
  <2> QED
    BY <1>4, <1>5, <2>1, <2>2
<1>6. CASE o.k \in {"rebind", "publish"} /\ c = Store!publishSelfIssuedEcsPresentation(r)
  <2>1. /\ c \in DidRecords /\ c.jsc = r.jsc /\ c.tm = r.tm /\ c.held = r.held /\ c.jscSvc = r.jscSvc
        /\ c.tag = r.tag
        /\ issuer = 0 => c = r
        /\ issuer # 0 => c.self /\ c.vtcSvc = r.vtcSvc \cup {"self"}
    BY <1>6, Published
  <2>2. Served(c)
    BY <2>1 DEF Served
  <2> QED
    BY <1>4, <1>6, <2>1, <2>2
<1>7. CASE o.k = "tag" /\ c = Store!tagIssuer(r, bound[t])
  <2>1. /\ c \in DidRecords /\ c.jsc = r.jsc /\ c.tm = r.tm /\ c.held = r.held /\ c.jscSvc = r.jscSvc
        /\ c.self = r.self /\ c.vtcSvc = r.vtcSvc
        /\ c.tag = IF r.self /\ bound[t] # 0 THEN bound[t] ELSE r.tag
    BY <1>0, <1>7, Tagged
  <2>2. Served(c)
    BY <1>0, <2>1 DEF Served
  <2> QED
    BY <1>4, <1>7, <2>1, <2>2
<1>8. CASE /\ o.k \in {"vtc", "remove", "add", "delete"}
           /\ \/ c = Store!createVtc(r) \/ c = Store!removeTrustCredential(r)
              \/ \E e \in Endpoints : c = Store!addServiceEndpoint(r, e) \/ c = Store!deleteServiceEndpoint(r, e)
  <2>1. /\ c \in DidRecords /\ c.jsc = r.jsc /\ c.tm = r.tm /\ c.jscSvc = r.jscSvc
        /\ c.self = r.self /\ c.tag = r.tag
        /\ "self" \in c.vtcSvc <=> "self" \in r.vtcSvc
        /\ \/ c.held = r.held /\ ("holder" \in c.vtcSvc <=> "holder" \in r.vtcSvc)
           \/ c.held /\ "holder" \in c.vtcSvc
           \/ ~c.held /\ "holder" \notin c.vtcSvc
    BY <1>8, HolderAndEndpoints
  <2>2. Served(c)
    BY <2>1 DEF Served
  <2> QED
    BY <1>4, <1>8, <2>1, <2>2
<1>9. CASE o.k \notin Writes /\ c = r
  BY <1>4, <1>9 DEF Writes
<1>10. CASE o.k = "sync" /\ o.x \in Schemas /\ c = Store!syncSchema(r, o.x)
  <2>1. Announces(r, c, o.x)
    BY <1>0, <1>10, SchemaSynced
  <2> QED
    BY <1>1, <1>10, <2>1
<1>11. CASE o.k = "jsc" /\ o.x \in Schemas /\ c = IF owned THEN Store!saveJsc(r, o.x) ELSE r
  <2>1. Announces(r, c, o.x)
    BY <1>0, <1>11, SchemaSynced
  <2> QED
    BY <1>1, <1>11, <2>1
<1>12. CASE /\ o.k \in {"add", "delete"} /\ o.x \in Endpoints
            /\ \/ c = Store!addServiceEndpoint(r, o.x)
               \/ c = Store!deleteServiceEndpoint(r, o.x)
  <2>1. \E e \in Endpoints : c = Store!addServiceEndpoint(r, e) \/ c = Store!deleteServiceEndpoint(r, e)
    BY <1>12
  <2> QED
    BY <1>8, <1>12, <2>1
<1>13. CASE o.k = "tm" /\ o.x \in Schemas /\ c = Store!saveTypeMetadata(r, o.x)
  BY <1>2, <1>13
<1>14. KeepsServed(o, r, c)
  <2>1. \/ o.k = "sync" /\ o.x \in Schemas /\ c = Store!syncSchema(r, o.x)
        \/ o.k = "jsc" /\ o.x \in Schemas /\ c = IF owned THEN Store!saveJsc(r, o.x) ELSE r
        \/ o.k = "tm" /\ o.x \in Schemas /\ c = Store!saveTypeMetadata(r, o.x)
        \/ o.k = "detach" /\ c = Store!detachVtjscPublications(r)
        \/ o.k = "withdraw" /\ o.x \in Nat /\ c = Store!withdrawSelfIssuedEcsCredentials(r, o.x)
        \/ o.k \in {"rebind", "publish"} /\ c = Store!publishSelfIssuedEcsPresentation(r)
        \/ o.k = "tag" /\ c = Store!tagIssuer(r, bound[t])
        \/ o.k = "vtc" /\ c = Store!createVtc(r)
        \/ o.k = "remove" /\ c = Store!removeTrustCredential(r)
        \/ /\ o.k \in {"add", "delete"} /\ o.x \in Endpoints
           /\ \/ c = Store!addServiceEndpoint(r, o.x)
              \/ c = Store!deleteServiceEndpoint(r, o.x)
        \/ o.k \notin Writes /\ c = r
    BY OutcomeIs
  <2> QED
      BY <1>3, <1>5, <1>6, <1>7, <1>8, <1>9, <1>10, <1>11, <1>12, <1>13, <2>1
<1> QED
  BY <1>14

\* What it changes of the two credentials.
KeepsHeld(t, o, r, c) ==
    /\ o.k \notin {"vtc", "remove"} => c.held = r.held
    /\ o.k = "remove" => ~c.held
    /\ o.k \notin {"withdraw", "rebind", "publish", "tag"} => c.self = r.self /\ c.tag = r.tag
    /\ o.k = "withdraw" => /\ c # r => ~c.self /\ c.tag = 0
                           /\ c = r /\ o.x # 0 => ~r.self \/ r.tag # o.x
    /\ o.k \in {"rebind", "publish"} => c.tag = r.tag /\ (c.self # r.self => issuer # 0)
    /\ o.k = "tag" =>
         c.self = r.self /\ c.tag = IF r.self /\ bound[t] # 0 THEN bound[t] ELSE r.tag

\* An operation changes the two credentials only as its kind says.
LEMMA OutcomeKeeps ==
  ASSUME StoreTypes, NEW t \in Store!Threads, NEW r \in DidRecords, NEW o \in StoreOps,
         NEW c, c = Outcome(t, o, r)
  PROVE  KeepsHeld(t, o, r, c)
<1>0. /\ version \in [Schemas -> Nat] /\ owned \in BOOLEAN /\ issuers \in Nat
      /\ issuer \in 0..issuers /\ bound[t] \in 0..issuers
  BY DEF StoreTypes
<1>1. ASSUME o.k \in {"sync", "jsc", "tm", "detach"} \/ o.k \notin Writes,
             c.held = r.held, c.self = r.self, c.tag = r.tag
      PROVE  KeepsHeld(t, o, r, c)
  BY <1>1 DEF Writes, KeepsHeld
<1>2. CASE o.k = "sync" /\ o.x \in Schemas /\ c = Store!syncSchema(r, o.x)
  <2>1. Announces(r, c, o.x)
    BY <1>0, <1>2, SchemaSynced
  <2> QED
    BY <1>1, <1>2, <2>1 DEF Announces
<1>3. CASE o.k = "jsc" /\ o.x \in Schemas /\ c = IF owned THEN Store!saveJsc(r, o.x) ELSE r
  <2>1. c.held = r.held /\ c.self = r.self /\ c.tag = r.tag
    BY <1>3 DEF Store!saveJsc, DidRecords
  <2> QED
    BY <1>1, <1>3, <2>1
<1>4. CASE o.k = "tm" /\ o.x \in Schemas /\ c = Store!saveTypeMetadata(r, o.x)
  BY <1>0, <1>1, <1>4, MetadataSaved
<1>5. CASE o.k = "detach" /\ c = Store!detachVtjscPublications(r)
  BY <1>0, <1>1, <1>5, Detached
<1>6. CASE o.k = "withdraw" /\ o.x \in Nat /\ c = Store!withdrawSelfIssuedEcsCredentials(r, o.x)
  BY <1>6, Withdrawn DEF KeepsHeld
<1>7. CASE o.k \in {"rebind", "publish"} /\ c = Store!publishSelfIssuedEcsPresentation(r)
  BY <1>7, Published DEF KeepsHeld
<1>8. CASE o.k = "tag" /\ c = Store!tagIssuer(r, bound[t])
  BY <1>0, <1>8, Tagged DEF KeepsHeld
<1>9. CASE o.k = "vtc" /\ c = Store!createVtc(r)
  BY <1>9, HolderAndEndpoints DEF KeepsHeld
<1>10. CASE o.k = "remove" /\ c = Store!removeTrustCredential(r)
  BY <1>10, HolderAndEndpoints DEF KeepsHeld
<1>11. CASE /\ o.k \in {"add", "delete"} /\ o.x \in Endpoints
            /\ \/ c = Store!addServiceEndpoint(r, o.x)
               \/ c = Store!deleteServiceEndpoint(r, o.x)
  <2>1. c.held = r.held /\ c.self = r.self /\ c.tag = r.tag
    BY <1>11 DEF Store!addServiceEndpoint, Store!deleteServiceEndpoint, DidRecords
  <2> QED
    BY <1>11, <2>1 DEF KeepsHeld
<1>12. CASE o.k \notin Writes /\ c = r
  BY <1>1, <1>12
<1>13. KeepsHeld(t, o, r, c)
  <2>1. \/ o.k = "sync" /\ o.x \in Schemas /\ c = Store!syncSchema(r, o.x)
        \/ o.k = "jsc" /\ o.x \in Schemas /\ c = IF owned THEN Store!saveJsc(r, o.x) ELSE r
        \/ o.k = "tm" /\ o.x \in Schemas /\ c = Store!saveTypeMetadata(r, o.x)
        \/ o.k = "detach" /\ c = Store!detachVtjscPublications(r)
        \/ o.k = "withdraw" /\ o.x \in Nat /\ c = Store!withdrawSelfIssuedEcsCredentials(r, o.x)
        \/ o.k \in {"rebind", "publish"} /\ c = Store!publishSelfIssuedEcsPresentation(r)
        \/ o.k = "tag" /\ c = Store!tagIssuer(r, bound[t])
        \/ o.k = "vtc" /\ c = Store!createVtc(r)
        \/ o.k = "remove" /\ c = Store!removeTrustCredential(r)
        \/ /\ o.k \in {"add", "delete"} /\ o.x \in Endpoints
           /\ \/ c = Store!addServiceEndpoint(r, o.x)
              \/ c = Store!deleteServiceEndpoint(r, o.x)
        \/ o.k \notin Writes /\ c = r
    BY OutcomeIs
  <2> QED
    BY <1>2, <1>3, <1>4, <1>5, <1>6, <1>7, <1>8, <1>9, <1>10, <1>11, <1>12, <2>1
<1> QED
  BY <1>13

-----------------------------------------------------------------------------
\* The programs that begin.

\* What holds of a program that has not begun.
Fresh(q) ==
    /\ q \in Seq(StoreOps) /\ q # <<>> /\ ProgramFits(q) /\ ~InPass(q)
    /\ Head(q).k \notin {"rebind", "publish", "tag"}

\* A program of one or two operations that run in order.
LEMMA InOrder ==
  ASSUME NEW n \in 1..2, NEW q \in Seq(StoreOps), Len(q) = n, q[1].k # "pass",
         n = 2 => Rank(q[1].k) < Rank(q[2].k),
         \A i \in 1..n : q[i].k \notin {"rebind", "publish", "tag", "each", "passed"}
  PROVE  /\ Fresh(q) /\ \A k : Has(q, k) <=> \E i \in 1..n : q[i].k = k
         /\ \A k, x : HasAt(q, k, x) <=> \E i \in 1..n : q[i].k = k /\ q[i].x = x
<1>1. Head(q) = q[1] /\ q # <<>>
  BY HeadTailProperties, EmptySeq
<1>2. /\ \A k : Has(q, k) <=> \E i \in 1..n : q[i].k = k
      /\ \A k, x : HasAt(q, k, x) <=> \E i \in 1..n : q[i].k = k /\ q[i].x = x
  BY DEF Has, HasAt
<1>3. \A i, j \in 1..n : i < j => i = 1 /\ j = 2 /\ n = 2
  OBVIOUS
<1>4. Sorted(q)
  BY <1>3 DEF Sorted
<1>5. 1 \in 1..n /\ (n = 2 => 2 \in 1..n) /\ \A i \in 1..n : i = 1 \/ (i = 2 /\ n = 2)
  OBVIOUS
<1>6. n = 2 => q[2].k # "pass"
  <2> SUFFICES ASSUME n = 2 PROVE q[2].k # "pass"
    OBVIOUS
  <2>1. q[1] \in StoreOps
    BY <1>5, ElementOfSeq
  <2>2. Rank(q[1].k) \in 0..9 /\ Rank("pass") = 0
    BY <2>1, Ranks
  <2> QED
    BY <2>2
<1>7. /\ ~Has(q, "pass") /\ ~Has(q, "rebind") /\ ~Has(q, "publish") /\ ~Has(q, "tag") /\ ~Has(q, "passed")
      /\ \A x : ~HasAt(q, "each", x)
  BY <1>2, <1>5, <1>6
<1>8. q[1].k \notin {"rebind", "publish", "tag"}
  BY <1>5
<1>9. Fresh(q)
  BY <1>1, <1>4, <1>7, <1>8 DEF Fresh, ProgramFits, InPass
<1> QED
  BY <1>2, <1>9

\* The program of a notification ends when it is handled.
LEMMA HandledAppended ==
  ASSUME NEW w \in Seq(StoreOps), Fresh(w), ~Has(w, "handled")
  PROVE  LET p == Append(w, Store!Op("handled", 0)) IN
         /\ Fresh(p) /\ \A k : Has(p, k) <=> Has(w, k) \/ k = "handled"
         /\ \A k, x : k # "handled" => (HasAt(p, k, x) <=> HasAt(w, k, x))
<1> DEFINE h == Store!Op("handled", 0)
           p == Append(w, h)
           n == Len(w)
<1>1. h \in StoreOps /\ h.k = "handled" /\ Rank(h.k) = 9
  BY OpsAre, Ranks
<1> HIDE DEF h
<1>2. /\ p \in Seq(StoreOps) /\ Len(p) = n + 1 /\ p[n + 1] = h /\ n \in Nat \ {0}
      /\ \A i \in 1..n : p[i] = w[i]
  <2>1. w # <<>>
    BY DEF Fresh
  <2> QED
    BY <1>1, <2>1, AppendProperties, EmptySeq
<1> HIDE DEF p
<1>3. \A i \in 1..Len(p) : (i \in 1..n /\ p[i] = w[i]) \/ (i = n + 1 /\ p[i] = h)
  BY <1>2
<1>4. \A i \in 1..n : i \in 1..Len(p) /\ n + 1 \in 1..Len(p)
  BY <1>2
<1>5. n + 1 \in 1..Len(p) /\ 1 \in 1..n
  BY <1>2
<1>6. \A k : Has(p, k) <=> Has(w, k) \/ k = "handled"
  <2> TAKE k
  <2>1. Has(p, k) => Has(w, k) \/ k = "handled"
    BY <1>1, <1>3 DEF Has
  <2>2. Has(w, k) => Has(p, k)
    BY <1>2, <1>4 DEF Has
  <2>3. k = "handled" => Has(p, k)
    BY <1>1, <1>2, <1>5 DEF Has
  <2> QED
    BY <2>1, <2>2, <2>3
<1>7. \A k, x : k # "handled" => (HasAt(p, k, x) <=> HasAt(w, k, x))
  <2> SUFFICES ASSUME NEW k, NEW x, k # "handled" PROVE HasAt(p, k, x) <=> HasAt(w, k, x)
    OBVIOUS
  <2>1. HasAt(p, k, x) => HasAt(w, k, x)
    BY <1>1, <1>3 DEF HasAt
  <2>2. HasAt(w, k, x) => HasAt(p, k, x)
    BY <1>2, <1>4 DEF HasAt
  <2> QED
    BY <2>1, <2>2
<1>8. Sorted(p)
  <2> SUFFICES ASSUME NEW i \in 1..Len(p), NEW j \in 1..Len(p), i < j
               PROVE  Rank(p[i].k) < Rank(p[j].k)
    BY DEF Sorted
  <2>1. i \in 1..n /\ p[i] = w[i] /\ w[i] \in StoreOps
    BY <1>2, <1>3, ElementOfSeq
  <2>2. CASE j \in 1..n
    BY <1>2, <2>1, <2>2 DEF Fresh, ProgramFits, Sorted
  <2>3. CASE p[j] = h
    <3>1. w[i].k # "handled"
      BY <2>1 DEF Has
    <3>2. Rank(w[i].k) \in 0..8
      BY <2>1, <3>1, LastRank
    <3> QED
      BY <1>1, <2>1, <2>3, <3>2
  <2> QED
    BY <1>3, <2>2, <2>3
<1>9. Head(p) = Head(w) /\ p # <<>>
  <2>1. Head(p) = p[1] /\ p # <<>>
    BY <1>2, HeadTailProperties, EmptySeq
  <2>2. Head(w) = w[1]
    BY HeadTailProperties
  <2> QED
    BY <1>2, <1>5, <2>1, <2>2
<1>10. ProgramFits(p)
  <2>1. Has(p, "pass") => HasAt(p, "each", Schemas) /\ Has(p, "detach")
    BY <1>6, <1>7 DEF Fresh, ProgramFits
  <2>2. /\ Has(p, "rebind") \/ Has(p, "publish") => Has(p, "tag")
        /\ Has(p, "tag") => Has(p, "rebind") \/ Head(p).k \in {"publish", "tag"}
    BY <1>6, <1>9 DEF Fresh, ProgramFits
  <2>3. \A s \in Schemas, left \in SUBSET Schemas :
          HasAt(p, "tm", s) /\ HasAt(p, "each", left) => s \notin left
    BY <1>7 DEF Fresh, ProgramFits
  <2> QED
    BY <1>8, <2>1, <2>2, <2>3 DEF ProgramFits
<1>11. Fresh(p)
  BY <1>2, <1>6, <1>9, <1>10 DEF Fresh, InPass
<1> QED
  BY <1>6, <1>7, <1>11 DEF p, h

\* The reconciliation pass.
LEMMA PassProgram ==
  /\ Fresh(Store!ReconcilePass)
  /\ \A k : Has(Store!ReconcilePass, k) =>
       k \in {"pass", "each", "detach", "withdraw", "rebind", "tag", "passed"}
<1> DEFINE q == Store!ReconcilePass
<1>1. /\ Store!Op("pass", 0) \in StoreOps /\ Store!Op("each", Schemas) \in StoreOps
      /\ Store!Op("detach", 0) \in StoreOps /\ Store!Op("withdraw", 0) \in StoreOps
      /\ Store!Op("rebind", 0) \in StoreOps /\ Store!Op("tag", 0) \in StoreOps
      /\ Store!Op("passed", 0) \in StoreOps
  BY OpsAre
<1>2. /\ q \in Seq(StoreOps) /\ Len(q) = 7
      /\ q[1] = Store!Op("pass", 0) /\ q[2] = Store!Op("each", Schemas) /\ q[3] = Store!Op("detach", 0)
      /\ q[4] = Store!Op("withdraw", 0) /\ q[5] = Store!Op("rebind", 0) /\ q[6] = Store!Op("tag", 0)
      /\ q[7] = Store!Op("passed", 0)
  BY <1>1 DEF Store!ReconcilePass, Store!SelfIssuedPass, Store!RebindEcs
<1> HIDE DEF q
<1>4. /\ q[1].k = "pass" /\ q[2].k = "each" /\ q[2].x = Schemas /\ q[3].k = "detach"
      /\ q[4].k = "withdraw" /\ q[5].k = "rebind" /\ q[6].k = "tag" /\ q[7].k = "passed"
  BY <1>2 DEF Store!Op
<1>6. \A i \in 1..7 : Rank(q[i].k) = IF i = 1 THEN 0 ELSE i + 1
  BY <1>4, Ranks
<1>7. Sorted(q)
  BY <1>2, <1>6 DEF Sorted
<1>8. \A k : Has(q, k) => k \in {"pass", "each", "detach", "withdraw", "rebind", "tag", "passed"}
  BY <1>2, <1>4 DEF Has
<1>9. HasAt(q, "each", Schemas) /\ Has(q, "detach") /\ Has(q, "pass") /\ Has(q, "tag") /\ Has(q, "rebind")
  BY <1>2, <1>4 DEF Has, HasAt
<1>10. \A x : ~HasAt(q, "tm", x)
  BY <1>2, <1>4 DEF HasAt
<1>11. Head(q) = q[1] /\ q # <<>>
  <2> DEFINE n == 7
  <2>1. q \in Seq(StoreOps) /\ Len(q) = n
    BY <1>2
  <2>2. n \in Nat \ {0}
    OBVIOUS
  <2> HIDE DEF n
  <2> QED
    BY <2>1, <2>2, NotEmpty
<1> QED
  BY <1>2, <1>4, <1>7, <1>8, <1>9, <1>10, <1>11 DEF Fresh, ProgramFits, InPass, q

\* What holds of the program of a notification.
HandlerFits(n, p) ==
    /\ Fresh(p) /\ Has(p, "handled") /\ ~Has(p, "vtc")
    /\ \A s : HasAt(p, "jsc", s) => n.k = "CreateNewCredentialSchema" /\ n.x = s
    /\ n.k = "RevokeHolder" => Has(p, "revoked")
    /\ Has(p, "revoked") => Has(p, "remove")
    /\ n.k = "RevokeIssuer" => HasAt(p, "withdraw", n.x) /\ ~Has(p, "tag")

\* The handler of a notification.
LEMMA HandlerProgram ==
  ASSUME NEW n \in StoreNews
  PROVE  HandlerFits(n, Append(Store!Handler(n), Store!Op("handled", 0)))
<1> DEFINE w == Store!Handler(n)
<1>1. ASSUME w \in Seq(StoreOps), Fresh(w), ~Has(w, "handled"), ~Has(w, "vtc"),
             \A s : HasAt(w, "jsc", s) => n.k = "CreateNewCredentialSchema" /\ n.x = s,
             n.k = "RevokeHolder" => Has(w, "revoked"),
             Has(w, "revoked") => Has(w, "remove"),
             n.k = "RevokeIssuer" => HasAt(w, "withdraw", n.x) /\ ~Has(w, "tag")
      PROVE  HandlerFits(n, Append(w, Store!Op("handled", 0)))
  <2> DEFINE p == Append(w, Store!Op("handled", 0))
  <2> HIDE DEF w
  <2>1. /\ Fresh(p) /\ \A k : Has(p, k) <=> Has(w, k) \/ k = "handled"
        /\ \A k, x : k # "handled" => (HasAt(p, k, x) <=> HasAt(w, k, x))
    BY <1>1, HandledAppended
  <2> HIDE DEF p
  <2>2. HandlerFits(n, p)
    BY <1>1, <2>1 DEF HandlerFits
  <2> QED
    BY <2>2 DEF p
<1>2. CASE n.k = "CreateNewCredentialSchema"
  <2> DEFINE a == Store!Op("jsc", n.x)
             b == Store!Op("tm", n.x)
  <2>1. n.x \in Schemas
    BY <1>2 DEF StoreNews
  <2>2. a \in StoreOps /\ b \in StoreOps /\ a.k = "jsc" /\ a.x = n.x /\ b.k = "tm"
    BY <2>1, OpsAre
  <2>3. w = <<a, b>>
    BY <1>2 DEF Store!Handler
  <2> HIDE DEF a, b, w
  <2>4. w \in Seq(StoreOps) /\ Len(w) = 2 /\ w[1] = a /\ w[2] = b
    BY <2>2, <2>3
  <2>5. /\ Fresh(w) /\ \A k : Has(w, k) <=> \E i \in 1..2 : w[i].k = k
        /\ \A k, x : HasAt(w, k, x) <=> \E i \in 1..2 : w[i].k = k /\ w[i].x = x
    <3>1. w[1].k # "pass" /\ Rank(w[1].k) < Rank(w[2].k)
          /\ \A i \in 1..2 : w[i].k \notin {"rebind", "publish", "tag", "each", "passed"}
      BY <2>2, <2>4, Ranks
    <3> QED
      BY <2>4, <3>1, InOrder
  <2>6. /\ ~Has(w, "handled") /\ ~Has(w, "vtc") /\ ~Has(w, "revoked")
        /\ \A s : HasAt(w, "jsc", s) => n.x = s
    BY <2>2, <2>4, <2>5
  <2> QED
    BY <1>1, <1>2, <2>4, <2>5, <2>6 DEF w
<1>3. CASE n.k = "SetParticipantOPToValidated"
  <2>1. w = Store!ReconcilePass
    BY <1>3 DEF Store!Handler
  <2> HIDE DEF w
  <2>2. Fresh(w) /\ w \in Seq(StoreOps)
    BY <2>1, PassProgram DEF Fresh
  <2>3. \A s : HasAt(w, "jsc", s) => Has(w, "jsc")
    BY DEF Has, HasAt
  <2>4. ~Has(w, "handled") /\ ~Has(w, "vtc") /\ ~Has(w, "revoked") /\ ~Has(w, "jsc")
    BY <2>1, PassProgram
  <2> QED
    BY <1>1, <1>3, <2>2, <2>3, <2>4 DEF w
<1>4. CASE n.k = "RevokeIssuer"
  <2> DEFINE a == Store!Op("withdraw", n.x)
  <2>1. n.x \in Nat
    BY <1>4 DEF StoreNews
  <2>2. a \in StoreOps /\ a.k = "withdraw" /\ a.x = n.x
    BY <2>1, OpsAre
  <2>3. w = <<a>>
    BY <1>4 DEF Store!Handler
  <2> HIDE DEF a, w
  <2>4. w \in Seq(StoreOps) /\ Len(w) = 1 /\ w[1] = a
    BY <2>2, <2>3
  <2>5. /\ Fresh(w) /\ \A k : Has(w, k) <=> \E i \in 1..1 : w[i].k = k
        /\ \A k, x : HasAt(w, k, x) <=> \E i \in 1..1 : w[i].k = k /\ w[i].x = x
    <3>1. w[1].k # "pass"
          /\ \A i \in 1..1 : w[i].k \notin {"rebind", "publish", "tag", "each", "passed"}
      BY <2>2, <2>4
    <3> QED
      BY <2>4, <3>1, InOrder
  <2>6. /\ ~Has(w, "handled") /\ ~Has(w, "vtc") /\ ~Has(w, "revoked") /\ ~Has(w, "tag")
        /\ (\A s : ~HasAt(w, "jsc", s)) /\ HasAt(w, "withdraw", n.x)
    BY <2>2, <2>4, <2>5
  <2> QED
    BY <1>1, <1>4, <2>4, <2>5, <2>6 DEF w
<1>5. CASE n.k = "RevokeHolder"
  <2> DEFINE a == Store!Op("remove", 0)
             b == Store!Op("revoked", 0)
  <2>2. a \in StoreOps /\ b \in StoreOps /\ a.k = "remove" /\ b.k = "revoked"
    BY OpsAre
  <2>3. w = <<a, b>>
    BY <1>5 DEF Store!Handler
  <2> HIDE DEF a, b, w
  <2>4. w \in Seq(StoreOps) /\ Len(w) = 2 /\ w[1] = a /\ w[2] = b
    BY <2>2, <2>3
  <2>5. /\ Fresh(w) /\ \A k : Has(w, k) <=> \E i \in 1..2 : w[i].k = k
        /\ \A k, x : HasAt(w, k, x) <=> \E i \in 1..2 : w[i].k = k /\ w[i].x = x
    <3>1. w[1].k # "pass" /\ Rank(w[1].k) < Rank(w[2].k)
          /\ \A i \in 1..2 : w[i].k \notin {"rebind", "publish", "tag", "each", "passed"}
      BY <2>2, <2>4, Ranks
    <3> QED
      BY <2>4, <3>1, InOrder
  <2>6. /\ ~Has(w, "handled") /\ ~Has(w, "vtc") /\ Has(w, "revoked") /\ Has(w, "remove")
        /\ \A s : ~HasAt(w, "jsc", s)
    BY <2>2, <2>4, <2>5
  <2> QED
    BY <1>1, <1>5, <2>4, <2>5, <2>6 DEF w
<1>6. n.k \in {"CreateNewCredentialSchema", "SetParticipantOPToValidated", "RevokeIssuer", "RevokeHolder"}
  BY DEF StoreNews
<1> QED
  BY <1>2, <1>3, <1>4, <1>5, <1>6

\* A program of one operation.
LEMMA OneOperation ==
  ASSUME NEW o \in StoreOps, o.k \in {"vtc", "remove", "add", "delete"}
  PROVE  Fresh(<<o>>) /\ \A k : Has(<<o>>, k) <=> k = o.k
<1> DEFINE q == <<o>>
<1>1. q \in Seq(StoreOps) /\ Len(q) = 1 /\ q[1] = o
  OBVIOUS
<1> HIDE DEF q
<1>2. \A i \in 1..1 : q[i].k \notin {"rebind", "publish", "tag", "each", "passed"}
  BY <1>1
<1>3. Fresh(q) /\ \A k : Has(q, k) <=> \E i \in 1..1 : q[i].k = k
  BY <1>1, <1>2, InOrder
<1>4. \A k : Has(q, k) <=> k = o.k
  BY <1>1, <1>3
<1> QED
  BY <1>3, <1>4 DEF q

-----------------------------------------------------------------------------
\* The invariant.
StInv ==
    /\ StoreTypes
    /\ ProgramsInTurn
    /\ NotificationInHand
    /\ Served(rec)
    /\ CopiesFit
    /\ PassesReconcile
    /\ HolderFollows
    /\ faults = 0 => HolderWithdrawn /\ SelfBacked

\* The other threads rest while one runs.
LEMMA OthersRest ==
  ASSUME StoreTypes, ProgramsInTurn, NEW t \in Store!Threads, todo[t] # <<>>
  PROVE  /\ todo[t] \in Seq(StoreOps) /\ ProgramFits(todo[t])
         /\ \A u \in Store!Threads : u # t => todo[u] = <<>> /\ copy[u] = Store!NoRec
BY DEF StoreTypes, ProgramsInTurn, Store!Running

\* All rest when none runs.
LEMMA AllRest ==
  ASSUME StoreTypes, ProgramsInTurn, \A t \in Store!Threads : todo[t] = <<>>
  PROVE  \A t \in Store!Threads : copy[t] = Store!NoRec
BY DEF ProgramsInTurn, Store!Running

\* A thread goes on to the program p.
Turn(t, p) ==
    /\ todo[t] # <<>> /\ todo' = [todo EXCEPT ![t] = p]
    /\ p \in Seq(StoreOps) /\ ProgramFits(p) /\ ~Has(p, "pass")
    /\ \A k : Has(p, k) => Has(todo[t], k) \/ k \in {"sync", "tm", "publish"}
    /\ \A k, x : HasAt(p, k, x) => HasAt(todo[t], k, x) \/ k \in {"sync", "tm", "each", "publish"}
    /\ \A k : Has(todo[t], k) => Has(p, k) \/ k = Head(todo[t]).k \/ k = "tag"
    /\ \A k, x : HasAt(todo[t], k, x) =>
          \/ HasAt(p, k, x) \/ k \in {"tag", "each"}
          \/ Head(todo[t]).k = k /\ Head(todo[t]).x = x

\* The first operation is done, or given up with what belongs to it.
LEMMA TurnDone ==
  ASSUME StoreTypes, ProgramsInTurn, NEW t \in Store!Threads, todo[t] # <<>>
  PROVE  /\ todo' = [todo EXCEPT ![t] = Tail(@)] => Turn(t, Tail(todo[t]))
         /\ Head(todo[t]).k \in {"rebind", "publish"} /\ todo' = [todo EXCEPT ![t] = Tail(Tail(@))]
              => Turn(t, Tail(Tail(todo[t])))
<1> DEFINE q == todo[t]
<1>1. q \in Seq(StoreOps) /\ ProgramFits(q) /\ q # <<>>
  BY OthersRest
<1> HIDE DEF q
<1>2. /\ Tail(q) \in Seq(StoreOps) /\ ProgramFits(Tail(q)) /\ ~Has(Tail(q), "pass")
      /\ \A k : Has(q, k) <=> Head(q).k = k \/ Has(Tail(q), k)
      /\ \A k, x : HasAt(q, k, x) <=> (Head(q).k = k /\ Head(q).x = x) \/ HasAt(Tail(q), k, x)
  BY <1>1, FirstDone, FirstDoneFits
<1>3. todo' = [todo EXCEPT ![t] = Tail(@)] => Turn(t, Tail(todo[t]))
  BY <1>1, <1>2 DEF Turn, q
<1>4. ASSUME Head(q).k \in {"rebind", "publish"}
      PROVE  /\ Tail(Tail(q)) \in Seq(StoreOps) /\ ProgramFits(Tail(Tail(q)))
             /\ ~Has(Tail(Tail(q)), "pass")
             /\ \A k : Has(Tail(q), k) <=> k = "tag" \/ Has(Tail(Tail(q)), k)
             /\ \A k, x : HasAt(Tail(q), k, x) <=> (k = "tag" /\ x = 0) \/ HasAt(Tail(Tail(q)), k, x)
  <2>1. Tail(q) # <<>> /\ Head(Tail(q)) = Store!Op("tag", 0)
    BY <1>1, <1>4, FirstDoneFits
  <2>2. Store!Op("tag", 0).k = "tag" /\ Store!Op("tag", 0).x = 0
    BY DEF Store!Op
  <2>3. /\ Tail(Tail(q)) \in Seq(StoreOps) /\ ProgramFits(Tail(Tail(q))) /\ ~Has(Tail(Tail(q)), "pass")
    BY <1>2, <2>1, FirstDone, FirstDoneFits
  <2>4. /\ \A k : Has(Tail(q), k) <=> Head(Tail(q)).k = k \/ Has(Tail(Tail(q)), k)
        /\ \A k, x : HasAt(Tail(q), k, x) <=> (Head(Tail(q)).k = k /\ Head(Tail(q)).x = x) \/ HasAt(Tail(Tail(q)), k, x)
    BY <1>2, <2>1, FirstDone
  <2>5. Head(Tail(q)).k = "tag" /\ Head(Tail(q)).x = 0
    BY <2>1, <2>2
  <2> QED
    BY <2>3, <2>4, <2>5
<1>5. ASSUME Head(q).k \in {"rebind", "publish"}, todo' = [todo EXCEPT ![t] = Tail(Tail(@))]
      PROVE  Turn(t, Tail(Tail(q)))
  <2> DEFINE p == Tail(Tail(q))
  <2>1. /\ p \in Seq(StoreOps) /\ ProgramFits(p) /\ ~Has(p, "pass")
        /\ \A k : Has(Tail(q), k) <=> k = "tag" \/ Has(p, k)
        /\ \A k, x : HasAt(Tail(q), k, x) <=> (k = "tag" /\ x = 0) \/ HasAt(p, k, x)
    BY <1>4, <1>5
  <2>2. todo' = [todo EXCEPT ![t] = p]
    BY <1>5 DEF q
  <2> HIDE DEF p
  <2>3. q = todo[t]
    BY DEF q
  <2>4. Turn(t, p)
    BY <1>1, <1>2, <2>1, <2>2, <2>3 DEF Turn
  <2> QED
    BY <2>4 DEF p
<1> QED
  BY <1>3, <1>5 DEF q

\* Programs stay in turn.
LEMMA TurnInTurn ==
  ASSUME StInv, NEW t \in Store!Threads, NEW p, Turn(t, p), copy' \in [Store!Threads -> DidRecords],
         \A u \in Store!Threads : u # t => copy'[u] = copy[u],
         copy'[t] # Store!NoRec => p # <<>> /\ Head(p).k \in Writes
  PROVE  /\ ProgramsInTurn' /\ todo' \in [Store!Threads -> Seq(StoreOps)]
         /\ todo'[t] = p
         /\ \A u \in Store!Threads : u # t => todo'[u] = <<>> /\ copy'[u] = Store!NoRec
<1>1. /\ todo[t] \in Seq(StoreOps)
      /\ \A u \in Store!Threads : u # t => todo[u] = <<>> /\ copy[u] = Store!NoRec
  BY OthersRest DEF StInv, Turn
<1>2. /\ todo' \in [Store!Threads -> Seq(StoreOps)] /\ todo'[t] = p
      /\ \A u \in Store!Threads : u # t => todo'[u] = <<>> /\ copy'[u] = Store!NoRec
  BY <1>1 DEF StInv, StoreTypes, Turn
<1>3. ProgramsInTurn'
  <2>1. \A u, v \in Store!Threads : todo'[u] # <<>> /\ todo'[v] # <<>> => u = v
    BY <1>2
  <2>2. \A u \in Store!Threads : ProgramFits(todo'[u])
    BY <1>2, NothingToDo DEF Turn
  <2>3. \A u \in Store!Threads : copy'[u] # Store!NoRec => todo'[u] # <<>> /\ Head(todo'[u]).k \in Writes
    BY <1>2
  <2> QED
    BY <2>1, <2>2, <2>3 DEF ProgramsInTurn, Store!Running, Store!NoRec, Store!Empty
<1> QED
  BY <1>2, <1>3

\* The notification stays in hand, and the flow of the HOLDER as it is.
LEMMA TurnNotification ==
  ASSUME StInv, NEW t \in Store!Threads, NEW p, Turn(t, p), todo'[t] = p,
         \A u \in Store!Threads : u # t => todo'[u] = <<>>,
         Head(todo[t]).k # "handled", storeNews' = storeNews, version' = version
  PROVE  NotificationInHand'
<1>1. \A u \in Store!Threads : Has(todo'[u], "handled") => u = "notif"
  <2> SUFFICES ASSUME NEW u \in Store!Threads, Has(todo'[u], "handled") PROVE u = "notif"
    OBVIOUS
  <2>1. u = t
    BY NothingToDo
  <2>2. Has(todo[t], "handled")
    BY <2>1 DEF Turn
  <2> QED
    BY <2>1, <2>2 DEF StInv, NotificationInHand
<1>2. Store!Running("notif")' => storeNews # <<>> /\ Has(todo'["notif"], "handled")
  <2> SUFFICES ASSUME todo'["notif"] # <<>> PROVE storeNews # <<>> /\ Has(todo'["notif"], "handled")
    BY DEF Store!Running
  <2>1. t = "notif"
    BY DEF Store!Threads
  <2>2. storeNews # <<>> /\ Has(todo[t], "handled")
    BY <2>1 DEF StInv, NotificationInHand, Store!Running, Turn
  <2> QED
    BY <2>1, <2>2 DEF Turn
<1>3. \A u \in Store!Threads, s \in Schemas : HasAt(todo'[u], "jsc", s) => version[s] # 0
  <2> SUFFICES ASSUME NEW u \in Store!Threads, NEW s \in Schemas, HasAt(todo'[u], "jsc", s)
               PROVE  version[s] # 0
    OBVIOUS
  <2>1. u = t
    BY NothingToDo
  <2>2. HasAt(todo[t], "jsc", s)
    BY <2>1 DEF Turn
  <2> QED
    BY <2>2 DEF StInv, NotificationInHand
<1> QED
  BY <1>1, <1>2, <1>3 DEF StInv, NotificationInHand

\* The flow of the HOLDER stays as it is.
LEMMA TurnHolder ==
  ASSUME StInv, NEW t \in Store!Threads, NEW p, Turn(t, p), todo'[t] = p,
         \A u \in Store!Threads : u # t => todo'[u] = <<>>,
         storeNews' = storeNews, onChain' = onChain,
         holder' = holder, Head(todo[t]).k # "revoked"
  PROVE  HolderFollows'
<1>1. \A u \in Store!Threads : Has(todo'[u], "vtc") => holder = "completed"
  <2> SUFFICES ASSUME NEW u \in Store!Threads, Has(todo'[u], "vtc") PROVE holder = "completed"
    OBVIOUS
  <2>1. u = t
    BY NothingToDo
  <2>2. Has(todo[t], "vtc")
    BY <2>1 DEF Turn
  <2> QED
    BY <2>2 DEF StInv, HolderFollows
<1>2. Store!Running("notif")' /\ Head(storeNews).k = "RevokeHolder" =>
        holder = "revoked" \/ Has(todo'["notif"], "revoked")
  <2> SUFFICES ASSUME todo'["notif"] # <<>>, Head(storeNews).k = "RevokeHolder", holder # "revoked"
               PROVE  Has(todo'["notif"], "revoked")
    BY DEF Store!Running
  <2>1. t = "notif"
    BY DEF Store!Threads
  <2>2. Has(todo[t], "revoked")
    BY <2>1 DEF StInv, HolderFollows, Store!Running, Turn
  <2> QED
    BY <2>1, <2>2 DEF Turn
<1> QED
  BY <1>1, <1>2 DEF StInv, HolderFollows

\* The withdrawals it owes stay owed.
LEMMA TurnWithdrawn ==
  ASSUME StInv, HolderWithdrawn, NEW t \in Store!Threads, NEW p, Turn(t, p), todo'[t] = p,
         \A u \in Store!Threads : u # t => todo'[u] = <<>>,
         holder' = holder, rec'.held = rec.held,
         Head(todo[t]).k = "remove" => ~rec.held
  PROVE  HolderWithdrawn'
<1>1. holder = "revoked" => ~rec.held \/ \E u \in Store!Threads : Has(todo'[u], "remove")
  <2> SUFFICES ASSUME holder = "revoked", rec.held PROVE \E u \in Store!Threads : Has(todo'[u], "remove")
    OBVIOUS
  <2>1. PICK u \in Store!Threads : Has(todo[u], "remove")
    BY DEF HolderWithdrawn
  <2>2. u = t
    BY <2>1, OthersRest, NothingToDo DEF StInv, Turn
  <2> QED
    BY <2>1, <2>2 DEF Turn
<1>2. \A u \in Store!Threads : Has(todo'[u], "revoked") => ~rec.held \/ Has(todo'[u], "remove")
  <2> SUFFICES ASSUME NEW u \in Store!Threads, Has(todo'[u], "revoked"), rec.held
               PROVE  Has(todo'[u], "remove")
    OBVIOUS
  <2>1. u = t
    BY NothingToDo
  <2>2. Has(todo[t], "revoked")
    BY <2>1 DEF Turn
  <2>3. Has(todo[t], "remove")
    BY <2>2 DEF HolderWithdrawn
  <2> QED
    BY <2>1, <2>3 DEF Turn
<1> QED
  BY <1>1, <1>2 DEF HolderWithdrawn

\* The self-issued credential stays backed.
LEMMA TurnBacked ==
  ASSUME StInv, SelfBacked, NEW t \in Store!Threads, NEW p, Turn(t, p), todo'[t] = p,
         \A u \in Store!Threads : u # t => todo'[u] = <<>> /\ bound'[u] = bound[u],
         storeNews' = storeNews, issuer' = issuer,
         rec'.self = rec.self, rec'.tag = rec.tag,
         rec.self => rec.tag # 0,
         Head(todo[t]).k = "withdraw" /\ Head(todo[t]).x # 0 => ~rec.self \/ rec.tag # Head(todo[t]).x,
         p # <<>> /\ (Head(p).k \in {"publish", "tag"} \/ (Head(p).k = "rebind" /\ copy'[t] # Store!NoRec))
           => bound'[t] = 0 \/ Backed(bound'[t])
  PROVE  SelfBacked'
<1>1. \A n : Backed(n)' <=> Backed(n)
  BY DEF Backed
<1>2. Store!Running("notif")' /\ Head(storeNews).k = "RevokeIssuer" =>
         /\ ~Has(todo'["notif"], "tag")
         /\ HasAt(todo'["notif"], "withdraw", Head(storeNews).x) \/ ~rec.self \/ rec.tag # Head(storeNews).x
  <2> SUFFICES ASSUME todo'["notif"] # <<>>, Head(storeNews).k = "RevokeIssuer"
               PROVE  /\ ~Has(todo'["notif"], "tag")
                      /\ \/ HasAt(todo'["notif"], "withdraw", Head(storeNews).x)
                         \/ ~rec.self \/ rec.tag # Head(storeNews).x
    BY DEF Store!Running
  <2>1. t = "notif"
    BY DEF Store!Threads
  <2>2. /\ ~Has(todo[t], "tag") /\ storeNews # <<>>
        /\ HasAt(todo[t], "withdraw", Head(storeNews).x) \/ ~rec.self \/ rec.tag # Head(storeNews).x
    BY <2>1 DEF SelfBacked, StInv, NotificationInHand, Store!Running, Turn
  <2>3. Head(storeNews).x # 0
    <3>1. Head(storeNews) \in StoreNews
      BY <2>2, HeadTailProperties DEF StInv, StoreTypes
    <3> QED
      BY <3>1 DEF StoreNews
  <2> QED
    BY <2>1, <2>2, <2>3 DEF Turn
<1>3. \A u \in Store!Threads :
         /\ todo'[u] # <<>>
         /\ \/ Head(todo'[u]).k \in {"publish", "tag"}
            \/ Head(todo'[u]).k = "rebind" /\ copy'[u] # Store!NoRec
         => bound'[u] = 0 \/ Backed(bound'[u])
  OBVIOUS
<1>4. rec.self /\ rec.tag # 0 => Backed(rec.tag)
  BY DEF SelfBacked
<1> QED
  BY <1>1, <1>2, <1>3, <1>4 DEF SelfBacked, Store!Running, Store!NoRec, Store!Empty

-----------------------------------------------------------------------------
\* The next operation, and what a pass has left to do.

\* Only a rebinding is followed by its tag.
LEMMA TagFollows ==
  ASSUME NEW q \in Seq(StoreOps), q # <<>>, ProgramFits(q)
  PROVE  /\ Tail(q) # <<>> /\ Head(Tail(q)).k \in {"publish", "tag"} => Head(q).k \in {"rebind", "publish"}
         /\ Head(q).k \in {"rebind", "publish"} /\ Tail(Tail(q)) # <<>> =>
              Head(Tail(Tail(q))).k \notin {"rebind", "publish", "tag"}
<1>1. /\ Tail(q) \in Seq(StoreOps) /\ ProgramFits(Tail(q)) /\ Head(q) \in StoreOps
      /\ \A k : Has(q, k) <=> Head(q).k = k \/ Has(Tail(q), k)
      /\ \A k : Has(Tail(q), k) => Rank(k) \in 0..9 /\ Rank(Head(q).k) < Rank(k)
  BY FirstDone, FirstDoneFits
<1>2. Rank("rebind") = 6 /\ Rank("publish") = 6 /\ Rank("tag") = 7 /\ Rank(Head(q).k) \in 0..9
  BY <1>1, Ranks
<1>3. ASSUME Tail(q) # <<>>, Head(Tail(q)).k \in {"publish", "tag"}
      PROVE  Head(q).k \in {"rebind", "publish"}
  <2> DEFINE r == Tail(q)
             h == Head(r).k
  <2>1. /\ Has(r, h) /\ \A k : Has(r, k) <=> h = k \/ Has(Tail(r), k)
        /\ \A k : Has(Tail(r), k) => Rank(k) \in 0..9 /\ Rank(h) < Rank(k)
    BY <1>1, <1>3, FirstDone, FirstDoneFits
  <2> HIDE DEF r, h
  <2>2. h \in {"publish", "tag"} /\ Rank(h) \in 6..7 /\ Rank(Head(q).k) < Rank(h)
    BY <1>1, <1>2, <1>3, <2>1 DEF r, h
  <2>3. ~Has(r, "rebind")
    BY <1>2, <2>1, <2>2
  <2>4. Has(q, "publish") \/ Has(q, "tag")
    BY <1>1, <2>1, <2>2 DEF r
  <2>5. Has(q, "tag")
    BY <2>4 DEF ProgramFits
  <2>6. Head(q).k # "tag"
    BY <1>2, <2>2
  <2>7. Has(q, "rebind") \/ Head(q).k = "publish"
    BY <2>5, <2>6 DEF ProgramFits
  <2> QED
    BY <1>1, <2>3, <2>7 DEF r
<1>4. ASSUME Head(q).k \in {"rebind", "publish"}, Tail(Tail(q)) # <<>>
      PROVE  Head(Tail(Tail(q))).k \notin {"rebind", "publish", "tag"}
  <2> DEFINE r == Tail(q)
             h == Head(Tail(r)).k
  <2>1. r # <<>> /\ Head(r) = Store!Op("tag", 0)
    BY <1>4, FirstDoneFits
  <2>2. Store!Op("tag", 0).k = "tag"
    BY DEF Store!Op
  <2>3. Head(r).k = "tag"
    BY <2>1, <2>2
  <2>4. Tail(r) \in Seq(StoreOps) /\ \A k : Has(Tail(r), k) => Rank(Head(r).k) < Rank(k) /\ Rank(k) \in 0..9
    BY <1>1, <2>1, FirstDone, FirstDoneFits
  <2>5. Has(Tail(r), h)
    <3>1. Tail(r) # <<>>
      BY <1>4
    <3> HIDE DEF r
    <3> QED
      BY <1>1, <2>1, <3>1, FirstDone DEF r
  <2> HIDE DEF r, h
  <2>6. Rank(h) \in 0..9 /\ 7 < Rank(h)
    BY <1>2, <2>3, <2>4, <2>5
  <2>7. h \notin {"rebind", "publish", "tag"}
    BY <1>2, <2>6
  <2> QED
    BY <2>7 DEF h, r
<1> QED
  BY <1>3, <1>4

\* A thread whose digest is anchored goes on to publish.
LEMMA TurnAnchored ==
  ASSUME StoreTypes, ProgramsInTurn, NEW t \in Store!Threads, todo[t] # <<>>, Head(todo[t]).k = "rebind",
         todo' = [todo EXCEPT ![t] = <<Store!Op("publish", 0)>> \o Tail(@)]
  PROVE  LET p == <<Store!Op("publish", 0)>> \o Tail(todo[t]) IN
         /\ Turn(t, p) /\ p # <<>> /\ Head(p) = Store!Op("publish", 0)
         /\ ToSync(p) = ToSync(todo[t]) /\ ToDescribe(p) = ToDescribe(todo[t])
         /\ Has(p, "detach") <=> Has(todo[t], "detach")
<1> DEFINE q == todo[t]
           p == <<Store!Op("publish", 0)>> \o Tail(todo[t])
<1>1. q \in Seq(StoreOps) /\ ProgramFits(q) /\ q # <<>> /\ Head(q).k = "rebind"
  BY OthersRest
<1>2. /\ p \in Seq(StoreOps) /\ p # <<>> /\ ProgramFits(p)
      /\ Head(p) = Store!Op("publish", 0) /\ Tail(p) = Tail(q)
      /\ \A k : k \notin {"rebind", "publish"} => (Has(p, k) <=> Has(q, k))
      /\ \A k, x : k \notin {"rebind", "publish"} => (HasAt(p, k, x) <=> HasAt(q, k, x))
  BY <1>1, AnchoredFits
<1>3. todo' = [todo EXCEPT ![t] = p]
  OBVIOUS
<1>4. todo[t] = q
  OBVIOUS
<1> HIDE DEF p, q
<1>5. /\ \A k : Has(q, k) <=> Head(q).k = k \/ Has(Tail(q), k)
      /\ \A k, x : HasAt(q, k, x) <=> (Head(q).k = k /\ Head(q).x = x) \/ HasAt(Tail(q), k, x)
      /\ ~Has(Tail(q), "pass")
  BY <1>1, FirstDone, FirstDoneFits
<1>6. /\ \A k : Has(p, k) <=> Store!Op("publish", 0).k = k \/ Has(Tail(q), k)
      /\ \A k, x : HasAt(p, k, x) =>
            (Store!Op("publish", 0).k = k /\ Store!Op("publish", 0).x = x) \/ HasAt(Tail(q), k, x)
  BY <1>2, FirstDone
<1>7. Store!Op("publish", 0).k = "publish"
  BY DEF Store!Op
<1>8. Turn(t, p)
  <2>1. ~Has(p, "pass")
    BY <1>5, <1>6, <1>7
  <2>2. \A k : Has(p, k) => Has(q, k) \/ k \in {"sync", "tm", "publish"}
    BY <1>5, <1>6, <1>7
  <2>3. \A k, x : HasAt(p, k, x) => HasAt(q, k, x) \/ k \in {"sync", "tm", "each", "publish"}
    BY <1>5, <1>6, <1>7
  <2>4. \A k : Has(q, k) => Has(p, k) \/ k = Head(q).k \/ k = "tag"
    BY <1>1, <1>5, <1>6
  <2>5. \A k, x : HasAt(q, k, x) =>
          \/ HasAt(p, k, x) \/ k \in {"tag", "each"}
          \/ Head(q).k = k /\ Head(q).x = x
    <3>1. \A k, x : HasAt(Tail(q), k, x) => HasAt(p, k, x)
      BY <1>2, FirstDone
    <3> QED
      BY <1>5, <3>1
  <2> QED
    BY <1>1, <1>2, <1>3, <1>4, <2>1, <2>2, <2>3, <2>4, <2>5 DEF Turn
<1>9. ToSync(p) = ToSync(q) /\ ToDescribe(p) = ToDescribe(q) /\ (Has(p, "detach") <=> Has(q, "detach"))
  BY <1>2 DEF ToSync, ToDescribe, Listed
<1> QED
  BY <1>2, <1>8, <1>9 DEF p, q

\* ... or takes the next schema.
LEMMA TurnSchema ==
  ASSUME StoreTypes, ProgramsInTurn, NEW t \in Store!Threads, todo[t] # <<>>, Head(todo[t]).k = "each",
         NEW s \in Head(todo[t]).x, NEW p,
         p = <<Store!Op("sync", s), Store!Op("tm", s), Store!Op("each", Head(todo[t]).x \ {s})>> \o Tail(todo[t]),
         todo' = [todo EXCEPT ![t] = p]
  PROVE  /\ Turn(t, p) /\ p # <<>> /\ Head(p).k = "sync"
         /\ ToSync(p) = ToSync(todo[t]) /\ ToDescribe(p) = ToDescribe(todo[t])
         /\ Has(p, "detach") <=> Has(todo[t], "detach")
<1> DEFINE q == todo[t]
<1>1. /\ q \in Seq(StoreOps) /\ ProgramFits(q) /\ q # <<>> /\ Head(q).k = "each" /\ s \in Head(q).x
      /\ p = <<Store!Op("sync", s), Store!Op("tm", s), Store!Op("each", Head(q).x \ {s})>> \o Tail(q)
  BY OthersRest
<1> HIDE DEF q
<1>2. /\ p \in Seq(StoreOps) /\ p # <<>> /\ ProgramFits(p) /\ Head(p).k = "sync"
      /\ \A k : k \notin {"sync", "tm"} => (Has(p, k) <=> Has(q, k))
      /\ \A k, x : k \notin {"sync", "tm", "each"} => (HasAt(p, k, x) <=> HasAt(q, k, x))
      /\ ToSync(p) = ToSync(q) /\ ToDescribe(p) = ToDescribe(q)
  BY <1>1, NextSchemaFits
<1>3. /\ \A k : Has(q, k) <=> k = "each" \/ Has(Tail(q), k)
      /\ \A k, x : HasAt(q, k, x) <=> (k = "each" /\ Head(q).x = x) \/ HasAt(Tail(q), k, x)
      /\ ~Has(Tail(q), "pass")
      /\ \A k : Has(Tail(q), k) => Rank(k) \in 0..9 /\ Rank(Head(q).k) < Rank(k)
  BY <1>1, FirstDone, FirstDoneFits
<1>4. ~Has(q, "sync") /\ ~Has(q, "tm") /\ \A x : ~HasAt(q, "sync", x) /\ ~HasAt(q, "tm", x)
  <2>1. Rank("sync") = 1 /\ Rank("tm") = 2 /\ Rank(Head(q).k) = 3
    BY <1>1, Ranks
  <2>2. ~Has(q, "sync") /\ ~Has(q, "tm")
    BY <1>3, <2>1
  <2>3. \A k, x : HasAt(q, k, x) => Has(q, k)
    BY DEF Has, HasAt
  <2> QED
    BY <2>2, <2>3
<1>5. q = todo[t] /\ Head(q).k = "each"
  BY <1>1 DEF q
<1>6. Turn(t, p)
  <2>1. ~Has(p, "pass")
    BY <1>2, <1>3
  <2>2. \A k : Has(p, k) => Has(q, k) \/ k \in {"sync", "tm", "publish"}
    BY <1>2
  <2>3. \A k, x : HasAt(p, k, x) => HasAt(q, k, x) \/ k \in {"sync", "tm", "each", "publish"}
    BY <1>2
  <2>4. \A k : Has(q, k) => Has(p, k) \/ k = Head(q).k \/ k = "tag"
    BY <1>2, <1>4
  <2>5. \A k, x : HasAt(q, k, x) =>
          \/ HasAt(p, k, x) \/ k \in {"tag", "each"}
          \/ Head(q).k = k /\ Head(q).x = x
    BY <1>2, <1>4
  <2> QED
    BY <1>1, <1>2, <1>5, <2>1, <2>2, <2>3, <2>4, <2>5 DEF Turn
<1> QED
  BY <1>2, <1>5, <1>6

\* What is left to a pass when its first operation is done.
LEMMA LeftToDo ==
  ASSUME NEW q \in Seq(StoreOps), q # <<>>, ProgramFits(q),
         Head(q).k = "each" => Head(q).x = {}
  PROVE  LET o == Head(q)  r == Tail(q) IN
         /\ ToSync(q) \subseteq ToSync(r) \cup (IF o.k = "sync" THEN {o.x} ELSE {})
         /\ ToDescribe(q) \subseteq ToDescribe(r) \cup (IF o.k = "tm" THEN {o.x} ELSE {})
         /\ o.k = "tm" => o.x \notin ToSync(q)
         /\ Has(q, "detach") => Has(r, "detach") \/ o.k = "detach"
         /\ Rank(o.k) \in 4..9 => ToSync(r) = {} /\ ToDescribe(r) = {} /\ ~Has(r, "detach")
<1> DEFINE o == Head(q)
           r == Tail(q)
<1>1. /\ r \in Seq(StoreOps) /\ o \in StoreOps
      /\ \A k : Has(q, k) <=> o.k = k \/ Has(r, k)
      /\ \A k, x : HasAt(q, k, x) <=> (o.k = k /\ o.x = x) \/ HasAt(r, k, x)
      /\ \A k : Has(r, k) => Rank(k) \in 0..9 /\ Rank(o.k) < Rank(k)
      /\ o.k = "each" => o.x = {}
  BY FirstDone, FirstDoneFits
<1> HIDE DEF o, r
<1>2. Listed(q) \subseteq Listed(r)
  <2> SUFFICES ASSUME NEW s \in Schemas, NEW left \in SUBSET Schemas, s \in left, HasAt(q, "each", left)
               PROVE  s \in Listed(r)
    BY DEF Listed
  <2>1. HasAt(r, "each", left)
    BY <1>1
  <2> QED
    BY <2>1 DEF Listed
<1>3. ToSync(q) \subseteq ToSync(r) \cup (IF o.k = "sync" THEN {o.x} ELSE {})
  BY <1>1, <1>2 DEF ToSync
<1>4. ToDescribe(q) \subseteq ToDescribe(r) \cup (IF o.k = "tm" THEN {o.x} ELSE {})
  BY <1>1, <1>2 DEF ToDescribe
<1>5. \A k, x : HasAt(r, k, x) => Has(r, k)
  BY DEF Has, HasAt
<1>6. o.k = "tm" => o.x \notin ToSync(q)
  <2> SUFFICES ASSUME o.k = "tm" PROVE o.x \notin ToSync(q)
    OBVIOUS
  <2>1. o.x \in Schemas /\ HasAt(q, "tm", o.x)
    BY <1>1 DEF StoreOps
  <2>2. o.x \notin Listed(q)
    BY <2>1 DEF Listed, ProgramFits
  <2>3. ~Has(r, "sync")
    BY <1>1, Ranks
  <2>4. ~HasAt(q, "sync", o.x)
    BY <1>1, <1>5, <2>3
  <2> QED
    BY <2>2, <2>4 DEF ToSync
<1>7. ASSUME Rank(o.k) \in 4..9 PROVE ToSync(r) = {} /\ ToDescribe(r) = {} /\ ~Has(r, "detach")
  <2>1. Rank("each") = 3 /\ Rank("sync") = 1 /\ Rank("tm") = 2 /\ Rank("detach") = 4
    BY Ranks
  <2>2. ~Has(r, "each") /\ ~Has(r, "sync") /\ ~Has(r, "tm") /\ ~Has(r, "detach")
    BY <1>1, <1>7, <2>1
  <2>3. \A x : ~HasAt(r, "each", x) /\ ~HasAt(r, "sync", x) /\ ~HasAt(r, "tm", x)
    BY <1>5, <2>2
  <2> QED
    BY <2>2, <2>3 DEF ToSync, ToDescribe, Listed
<1> QED
  BY <1>1, <1>3, <1>4, <1>6, <1>7 DEF o, r

\* A pass advances by one operation.
LEMMA PassAdvances ==
  ASSUME StoreTypes, Served(rec), NEW t \in Store!Threads, NEW q \in Seq(StoreOps), q # <<>>, ProgramFits(q),
         Head(q).k = "each" => Head(q).x = {},
         Head(q).k = "jsc" => version[Head(q).x] # 0,
         NEW c, \/ c = Outcome(t, Head(q), rec)
                \/ c = rec /\ Head(q).k \notin {"sync", "tm", "detach"},
         Reconciled(rec, ToSync(q), ToDescribe(q), ~Has(q, "detach"))
  PROVE  Reconciled(c, ToSync(Tail(q)), ToDescribe(Tail(q)), ~Has(Tail(q), "detach"))
<1> DEFINE o == Head(q)
           L == ToSync(q)
           M == ToDescribe(q)
           d == ~Has(q, "detach")
<1>1. /\ L \subseteq ToSync(Tail(q)) \cup (IF o.k = "sync" THEN {o.x} ELSE {})
      /\ M \subseteq ToDescribe(Tail(q)) \cup (IF o.k = "tm" THEN {o.x} ELSE {})
      /\ o.k = "tm" => o.x \notin L
      /\ Has(q, "detach") => Has(Tail(q), "detach") \/ o.k = "detach"
  BY LeftToDo
<1>2. /\ L \in SUBSET Schemas /\ M \in SUBSET Schemas
      /\ d \in BOOLEAN /\ (~Has(Tail(q), "detach")) \in BOOLEAN /\ TRUE \in BOOLEAN
  <2>1. L \in SUBSET Schemas /\ M \in SUBSET Schemas
    BY DEF ToSync, ToDescribe, Listed
  <2>2. d \in BOOLEAN
    OBVIOUS
  <2>3. (~Has(Tail(q), "detach")) \in BOOLEAN
    OBVIOUS
  <2> QED
    BY <2>1, <2>2, <2>3
<1>3. Reconciled(rec, L, M, d) /\ o \in StoreOps
  BY FirstDone
<1>4. o.k = "jsc" => version[o.x] # 0
  OBVIOUS
<1>5. c = Outcome(t, o, rec) \/ (c = rec /\ o.k \notin {"sync", "tm", "detach"})
  OBVIOUS
<1> HIDE DEF o, L, M
<1>6. CASE c = rec /\ o.k \notin {"sync", "tm", "detach"}
  <2>1. L \subseteq ToSync(Tail(q)) /\ M \subseteq ToDescribe(Tail(q)) /\ (~Has(Tail(q), "detach") => d)
    BY <1>1, <1>6
  <2> QED
    BY <1>2, <1>3, <1>6, <2>1 DEF Reconciled
<1>7. CASE c = Outcome(t, o, rec)
  <2>1. rec \in DidRecords
    BY DEF StoreTypes
  <2>2. KeepsServed(o, rec, c)
    BY <1>3, <1>4, <1>7, <2>1, OutcomeServed
  <2>3. /\ Reconciled(c, L, M, d)
        /\ o.k = "sync" => Reconciled(c, L \ {o.x}, M, d)
        /\ o.k = "tm" => Reconciled(c, L, M \ {o.x}, d)
        /\ o.k = "detach" => Reconciled(c, L, M, TRUE)
    BY <1>1, <1>2, <1>3, <2>2 DEF KeepsServed
  <2>4. CASE o.k = "sync"
    <3>1. L \ {o.x} \subseteq ToSync(Tail(q)) /\ M \subseteq ToDescribe(Tail(q)) /\ (~Has(Tail(q), "detach") => d)
      BY <1>1, <2>4
    <3> QED
      BY <1>2, <2>3, <2>4, <3>1 DEF Reconciled
  <2>5. CASE o.k = "tm"
    <3>1. L \subseteq ToSync(Tail(q)) /\ M \ {o.x} \subseteq ToDescribe(Tail(q)) /\ (~Has(Tail(q), "detach") => d)
      BY <1>1, <2>5
    <3> QED
      BY <1>2, <2>3, <2>5, <3>1 DEF Reconciled
  <2>6. CASE o.k = "detach"
    <3>1. L \subseteq ToSync(Tail(q)) /\ M \subseteq ToDescribe(Tail(q))
      BY <1>1, <2>6
    <3> QED
      BY <1>2, <2>3, <2>6, <3>1 DEF Reconciled
  <2>7. CASE o.k \notin {"sync", "tm", "detach"}
    <3>1. L \subseteq ToSync(Tail(q)) /\ M \subseteq ToDescribe(Tail(q)) /\ (~Has(Tail(q), "detach") => d)
      BY <1>1, <2>7
    <3> QED
      BY <1>2, <2>3, <3>1 DEF Reconciled
  <2> QED
    BY <2>4, <2>5, <2>6, <2>7
<1> QED
  BY <1>5, <1>6, <1>7

\* The thread that goes on keeps the passes reconciling.
LEMMA TurnPass ==
  ASSUME StInv, NEW t \in Store!Threads, NEW p, Turn(t, p), todo'[t] = p,
         \A u \in Store!Threads : u # t => todo'[u] = <<>>,
         Head(todo[t]).k # "pass", version' = version, owned' = owned, passed' = passed,
         InPass(todo[t]) /\ ~stale' => Reconciled(rec', ToSync(p), ToDescribe(p), ~Has(p, "detach")),
         passed /\ ~stale' => Reconciled(rec', {}, {}, TRUE)
  PROVE  PassesReconcile'
<1>1. /\ todo[t] \in Seq(StoreOps) /\ ProgramFits(todo[t]) /\ todo[t] # <<>>
  BY OthersRest DEF StInv, Turn
<1>2. ~Has(todo[t], "pass")
  BY <1>1, FirstDone, FirstDoneFits
<1>3. InPass(p) => InPass(todo[t])
  BY <1>2 DEF InPass, Turn
<1>4. InPass(todo[t]) => ~passed
  BY DEF StInv, PassesReconcile
<1>6. ASSUME NEW u \in Store!Threads, InPass(todo'[u])
      PROVE  /\ ~passed
             /\ ~stale' => Reconciled(rec', ToSync(todo'[u]), ToDescribe(todo'[u]), ~Has(todo'[u], "detach"))
  <2>1. u = t
    BY <1>6, NothingToDo
  <2> QED
    BY <1>3, <1>4, <1>6, <2>1
<1> QED
  BY <1>6 DEF PassesReconcile, Reconciled

-----------------------------------------------------------------------------
\* The steps of a thread.

\* What an operation makes of the record depends on the chain and the ISSUER
\* it noted.
LEMMA ResultKept ==
  ASSUME NEW t \in Store!Threads, todo'[t] = todo[t], rec' = rec, version' = version, owned' = owned,
         issuer' = issuer, issuers' = issuers, Head(todo[t]).k = "tag" => bound'[t] = bound[t]
  PROVE  Result(t)' = Result(t)
<1>1. CASE Head(todo[t]).k = "tag"
  BY <1>1 DEF Result, Outcome, Store!Apply, Store!tagIssuer
<1>2. CASE Head(todo[t]).k # "tag"
  BY <1>2 DEF Result, Outcome, Store!Apply, Store!syncSchema, Store!saveJsc, Store!saveTypeMetadata,
     Store!detachVtjscPublications, Store!withdrawSelfIssuedEcsCredentials,
     Store!publishSelfIssuedEcsPresentation, Store!createVtc, Store!removeTrustCredential,
     Store!addServiceEndpoint, Store!deleteServiceEndpoint
<1> QED
  BY <1>1, <1>2

\* While another operation than the tag is first, what is published is tagged.
LEMMA PublishedIsTagged ==
  ASSUME StInv, SelfBacked, NEW t \in Store!Threads, todo[t] # <<>>,
         Head(todo[t]).k # "tag" \/ bound[t] = 0
  PROVE  rec.self => rec.tag # 0
BY OthersRest DEF StInv, SelfBacked, Store!Running

\* An operation that changes nothing.
LEMMA ReadNothing ==
  ASSUME StInv, NEW t \in Store!Threads, Store!readRecord(t), copy' = copy,
         todo' = [todo EXCEPT ![t] = Tail(@)], Head(todo[t]).k # "rebind",
         Store!Apply(t, Head(todo[t]), rec) = rec
  PROVE  StInv'
<1> DEFINE q == todo[t]
           p == Tail(q)
           o == Head(q)
<1>1. /\ q # <<>> /\ copy[t] = Store!NoRec /\ o.k \notin {"pass", "each", "passed", "revoked", "handled"}
      /\ UNCHANGED <<rec, version, owned, issuer, issuers, onChain, holder, storeNews, stale, passed, faults>>
      /\ bound' = bound
  BY DEF Store!readRecord, Store!Running, Store!chain, Store!ghost, Store!count
<1>2. /\ StoreTypes /\ ProgramsInTurn /\ q \in Seq(StoreOps) /\ ProgramFits(q) /\ o \in StoreOps
      /\ \A u \in Store!Threads : copy[u] = Store!NoRec
  BY <1>1, OthersRest, FirstDone DEF StInv
<1>3. Turn(t, p)
  BY <1>1, <1>2, TurnDone
<1>4. /\ ProgramsInTurn' /\ todo' \in [Store!Threads -> Seq(StoreOps)] /\ todo'[t] = p
      /\ \A u \in Store!Threads : u # t => todo'[u] = <<>>
  <2>1. copy' \in [Store!Threads -> DidRecords] /\ copy'[t] = Store!NoRec
    BY <1>1, <1>2 DEF StoreTypes
  <2> HIDE DEF p
  <2> QED
    BY <1>3, <2>1, TurnInTurn
<1>5. \/ rec = Outcome(t, o, rec)
      \/ rec = rec /\ o.k \notin {"sync", "tm", "detach"}
  BY DEF Outcome
<1>6. o.k = "jsc" => version[o.x] # 0
  BY <1>1, <1>2, FirstDone DEF StInv, NotificationInHand, StoreOps
<1>7. o = Head(todo[t]) /\ q = todo[t] /\ p = Tail(q) /\ o = Head(q)
  OBVIOUS
<1> HIDE DEF o, q, p
<1>8. NotificationInHand'
  BY <1>1, <1>3, <1>4, <1>7, TurnNotification
<1>9. CopiesFit'
  BY <1>2 DEF CopiesFit, Store!NoRec, Store!Empty
<1>10. PassesReconcile'
  <2>1. InPass(q) /\ ~stale => Reconciled(rec, ToSync(q), ToDescribe(q), ~Has(q, "detach"))
    BY <1>7 DEF StInv, PassesReconcile
  <2>2. InPass(q) /\ ~stale => Reconciled(rec, ToSync(p), ToDescribe(p), ~Has(p, "detach"))
    BY <1>1, <1>2, <1>5, <1>6, <1>7, <2>1, PassAdvances DEF StInv
  <2>3. passed /\ ~stale => Reconciled(rec, {}, {}, TRUE)
    BY DEF StInv, PassesReconcile
  <2> QED
    BY <1>1, <1>3, <1>4, <1>7, <2>2, <2>3, TurnPass
<1>11. HolderFollows'
  BY <1>1, <1>3, <1>4, <1>7, TurnHolder
<1>12. ASSUME faults = 0 PROVE HolderWithdrawn' /\ SelfBacked'
  <2>1. HolderWithdrawn /\ SelfBacked
    BY <1>12 DEF StInv
  <2>2. rec \in DidRecords
    BY <1>2 DEF StoreTypes
  <2>3. /\ o.k = "remove" => ~rec.held
        /\ o.k = "withdraw" /\ o.x # 0 => ~rec.self \/ rec.tag # o.x
        /\ o.k = "tag" /\ rec.self /\ bound[t] # 0 => rec.tag = bound[t]
    <3>1. CASE o.k = "publish"
      BY <3>1
    <3>2. CASE o.k # "publish"
      <4>1. rec = Outcome(t, o, rec)
        BY <1>7, <3>2 DEF Outcome
      <4>2. KeepsHeld(t, o, rec, rec)
        BY <1>2, <2>2, <4>1, OutcomeKeeps
      <4> QED
        BY <4>2 DEF KeepsHeld
    <3> QED
      BY <3>1, <3>2
  <2>4. HolderWithdrawn'
    BY <1>1, <1>3, <1>4, <1>7, <2>1, <2>3, TurnWithdrawn
  <2>5. rec.self => rec.tag # 0
    BY <1>1, <1>7, <2>1, <2>3, PublishedIsTagged
  <2>6. p # <<>> /\ Head(p).k \in {"publish", "tag"} => bound[t] = 0 \/ Backed(bound[t])
    <3>1. p # <<>> /\ Head(p).k \in {"publish", "tag"} => o.k \in {"publish", "rebind"}
      BY <1>1, <1>2, <1>7, TagFollows
    <3> QED
      BY <1>1, <1>7, <2>1, <3>1 DEF SelfBacked, Store!Running
  <2>7. SelfBacked'
    <3>1. bound'[t] = bound[t] /\ copy'[t] = Store!NoRec
      BY <1>1
    <3> QED
      BY <1>1, <1>2, <1>3, <1>4, <1>7, <2>1, <2>3, <2>5, <2>6, <3>1, TurnBacked
  <2> QED
    BY <2>4, <2>7
<1>13. StoreTypes'
  BY <1>1, <1>2, <1>4 DEF StoreTypes
<1>14. Served(rec)'
  BY <1>1 DEF StInv, Served
<1> QED
  BY <1>1, <1>4, <1>8, <1>9, <1>10, <1>11, <1>12, <1>13, <1>14 DEF StInv

\* An operation that works on its copy.
LEMMA ReadCopy ==
  ASSUME StInv, NEW t \in Store!Threads, Store!readRecord(t), todo' = todo,
         copy' = [copy EXCEPT ![t] = Store!Apply(t, Head(todo[t]), rec)],
         Store!Apply(t, Head(todo[t]), rec) # rec \/ Head(todo[t]).k \in {"jsc", "vtc", "rebind"}
  PROVE  StInv'
<1> DEFINE q == todo[t]
           o == Head(q)
           r == Store!Apply(t, o, rec)
<1>1. /\ q # <<>> /\ copy[t] = Store!NoRec /\ o.k \notin {"pass", "each", "passed", "revoked", "handled"}
      /\ UNCHANGED <<rec, version, owned, issuer, issuers, onChain, holder, storeNews, stale, passed, faults>>
      /\ bound' = IF o.k = "rebind" THEN [bound EXCEPT ![t] = issuer] ELSE bound
  BY DEF Store!readRecord, Store!Running, Store!chain, Store!ghost, Store!count
<1>2. /\ StoreTypes /\ ProgramsInTurn /\ q \in Seq(StoreOps) /\ ProgramFits(q) /\ o \in StoreOps
      /\ \A u \in Store!Threads : copy[u] = Store!NoRec
      /\ \A u \in Store!Threads : u # t => todo[u] = <<>>
  BY <1>1, OthersRest, FirstDone DEF StInv
<1>3. o.k # "publish"
  <2>1. o.k = "publish" => r = rec
    BY DEF Store!Apply
  <2> QED
    BY <2>1
<1>4. o.k \in Writes /\ (r # rec \/ o.k \in {"jsc", "vtc", "rebind"})
  BY <1>1, <1>2 DEF StoreOps, Writes
<1>5. r = Outcome(t, o, rec) /\ r = Result(t)
  BY <1>3 DEF Outcome, Result
<1>6. copy' = [copy EXCEPT ![t] = r]
  OBVIOUS
<1>7. rec \in DidRecords /\ Served(rec)
  BY <1>2 DEF StInv, StoreTypes
<1>8. o.k = "jsc" => version[o.x] # 0
  BY <1>1, <1>2, FirstDone DEF StInv, NotificationInHand, StoreOps
<1>9. q = todo[t] /\ o = Head(todo[t])
  OBVIOUS
<1> HIDE DEF q, o, r
<1>10. r \in DidRecords /\ Served(r) /\ KeepsHeld(t, o, rec, r)
  <2>1. KeepsServed(o, rec, r)
    BY <1>2, <1>5, <1>7, <1>8, OutcomeServed
  <2>2. KeepsHeld(t, o, rec, r)
    BY <1>2, <1>5, <1>7, OutcomeKeeps
  <2> QED
    BY <2>1, <2>2 DEF KeepsServed
<1>11. bound' \in [Store!Threads -> 0..issuers] /\ \A u \in Store!Threads : u # t => bound'[u] = bound[u]
  BY <1>1, <1>2 DEF StoreTypes
<1>12. (o.k # "rebind" => bound'[t] = bound[t]) /\ (o.k = "rebind" => bound'[t] = issuer)
  BY <1>1, <1>2 DEF StoreTypes
<1>13. copy' \in [Store!Threads -> DidRecords] /\ copy'[t] = r
       /\ \A u \in Store!Threads : u # t => copy'[u] = Store!NoRec
  BY <1>2, <1>6, <1>10 DEF StoreTypes
<1>14. StoreTypes'
  BY <1>1, <1>2, <1>11, <1>13 DEF StoreTypes
<1>15. ProgramsInTurn'
  BY <1>1, <1>2, <1>4, <1>9, <1>13 DEF ProgramsInTurn, Store!Running, Store!NoRec, Store!Empty
<1>16. NotificationInHand' /\ PassesReconcile' /\ HolderFollows' /\ Served(rec)'
  BY <1>1 DEF StInv, NotificationInHand, PassesReconcile, Reconciled, HolderFollows, Served, Store!Running
<1>17. CopiesFit'
  <2>1. Served(copy[t])'
    BY <1>1, <1>10, <1>13 DEF Served
  <2>2. copy'[t] = Result(t)'
    BY <1>1, <1>5, <1>9, <1>12, <1>13, ResultKept
  <2>3. CopyKeeps(t)'
    <3>1. o.k = "withdraw" => ~r.self /\ r.tag = 0
      BY <1>4, <1>10 DEF KeepsHeld
    <3>2. o.k \in {"rebind", "publish"} => r.tag = rec.tag /\ (r.self # rec.self => bound'[t] # 0)
      BY <1>3, <1>10, <1>12 DEF KeepsHeld
    <3>3. o.k = "tag" => r.self = rec.self /\ r.tag = IF rec.self /\ bound'[t] # 0 THEN bound'[t] ELSE rec.tag
      <4>1. o.k = "tag" => bound'[t] = bound[t]
        BY <1>12
      <4> QED
        BY <1>10, <4>1 DEF KeepsHeld
    <3>4. /\ o.k \notin {"vtc", "remove"} => r.held = rec.held
          /\ o.k = "remove" => ~r.held
          /\ o.k \notin {"withdraw", "rebind", "publish", "tag"} => r.self = rec.self /\ r.tag = rec.tag
      BY <1>10 DEF KeepsHeld
    <3>5. Head(todo'[t]).k = o.k /\ copy'[t] = r /\ rec' = rec
      BY <1>1, <1>9, <1>13
    <3> QED
      BY <3>1, <3>2, <3>3, <3>4, <3>5 DEF CopyKeeps
  <2>4. Store!NoRec' = Store!NoRec
    BY DEF Store!NoRec, Store!Empty
  <2> QED
    BY <1>13, <2>1, <2>2, <2>3, <2>4 DEF CopiesFit
<1>18. ASSUME faults = 0 PROVE HolderWithdrawn' /\ SelfBacked'
  <2>1. HolderWithdrawn /\ SelfBacked
    BY <1>18 DEF StInv
  <2>2. HolderWithdrawn'
    BY <1>1, <2>1 DEF HolderWithdrawn
  <2>3. \A n : Backed(n)' <=> Backed(n)
    BY <1>1 DEF Backed
  <2>4. ASSUME NEW u \in Store!Threads, todo[u] # <<>>,
               \/ Head(todo[u]).k \in {"publish", "tag"}
               \/ Head(todo[u]).k = "rebind"
        PROVE  bound'[u] = 0 \/ Backed(bound'[u])
    <3>1. u = t
      BY <1>2, <2>4
    <3>2. CASE o.k = "rebind"
      BY <1>12, <3>1, <3>2 DEF Backed
    <3>3. CASE o.k # "rebind"
      BY <1>9, <1>12, <2>1, <2>4, <3>1, <3>3 DEF SelfBacked, Store!Running
    <3> QED
      BY <3>2, <3>3
  <2>5. rec.self /\ rec.tag = 0 =>
          \E u \in Store!Threads : todo[u] # <<>> /\ Head(todo[u]).k = "tag" /\ bound'[u] # 0
    <3> SUFFICES ASSUME rec.self, rec.tag = 0
                 PROVE  \E u \in Store!Threads : todo[u] # <<>> /\ Head(todo[u]).k = "tag" /\ bound'[u] # 0
      OBVIOUS
    <3>1. PICK u \in Store!Threads : todo[u] # <<>> /\ Head(todo[u]).k = "tag" /\ bound[u] # 0
      BY <2>1 DEF SelfBacked, Store!Running
    <3>2. u = t
      BY <1>2, <3>1
    <3> QED
      BY <1>9, <1>12, <3>1, <3>2
  <2>6. SelfBacked'
    <3>1. rec.self /\ rec.tag # 0 => Backed(rec.tag)
      BY <2>1 DEF SelfBacked
    <3>2. todo["notif"] # <<>> /\ Head(storeNews).k = "RevokeIssuer" =>
            /\ ~Has(todo["notif"], "tag")
            /\ HasAt(todo["notif"], "withdraw", Head(storeNews).x) \/ ~rec.self \/ rec.tag # Head(storeNews).x
      BY <2>1 DEF SelfBacked, Store!Running
    <3> QED
      BY <1>1, <2>3, <2>4, <2>5, <3>1, <3>2 DEF SelfBacked, Store!Running
  <2> QED
    BY <2>2, <2>6
<1> QED
  BY <1>1, <1>14, <1>15, <1>16, <1>17, <1>18 DEF StInv

\* getDidRecord: the record is read.
LEMMA RecordRead ==
  ASSUME StInv, NEW t \in Store!Threads, Store!readRecord(t)
  PROVE  StInv'
<1> DEFINE o == Head(todo[t])
           r == Store!Apply(t, o, rec)
<1>1. CASE r = rec /\ o.k \notin {"jsc", "vtc", "rebind"}
  <2>1. copy' = copy /\ todo' = [todo EXCEPT ![t] = Tail(@)]
    BY <1>1 DEF Store!readRecord, Store!Done
  <2> QED
    BY <1>1, <2>1, ReadNothing
<1>2. CASE ~(r = rec /\ o.k \notin {"jsc", "vtc", "rebind"})
  <2>1. copy' = [copy EXCEPT ![t] = r] /\ todo' = todo
    BY <1>2 DEF Store!readRecord
  <2> QED
    BY <1>2, <2>1, ReadCopy
<1> QED
  BY <1>1, <1>2

-----------------------------------------------------------------------------
\* The steps of a thread that leave its copy or write it.

\* anchorCredentialDigest: the presentation is published next.
LEMMA DigestAnchored ==
  ASSUME StInv, NEW t \in Store!Threads, Store!anchorCredentialDigest(t)
  PROVE  StInv'
<1> DEFINE q == todo[t]
           p == <<Store!Op("publish", 0)>> \o Tail(q)
<1>1. /\ copy[t] # Store!NoRec /\ Head(q).k = "rebind" /\ todo' = [todo EXCEPT ![t] = p]
      /\ UNCHANGED <<rec, version, owned, issuer, issuers, onChain, holder, storeNews, stale, passed, faults,
                     copy, bound>>
  BY DEF Store!anchorCredentialDigest, Store!chain, Store!ghost, Store!count
<1>2. /\ StoreTypes /\ ProgramsInTurn /\ q # <<>>
  BY <1>1 DEF StInv, ProgramsInTurn, Store!Running
<1>3. /\ Turn(t, p) /\ p # <<>> /\ Head(p) = Store!Op("publish", 0)
      /\ ToSync(p) = ToSync(q) /\ ToDescribe(p) = ToDescribe(q)
      /\ Has(p, "detach") <=> Has(q, "detach")
  BY <1>1, <1>2, TurnAnchored
<1>4. Head(p).k = "publish"
  <2>1. Store!Op("publish", 0).k = "publish"
    BY DEF Store!Op
  <2> QED
    BY <1>3, <2>1
<1>5. q = todo[t]
  OBVIOUS
<1> HIDE DEF q, p
<1>6. /\ ProgramsInTurn' /\ todo' \in [Store!Threads -> Seq(StoreOps)] /\ todo'[t] = p
      /\ \A u \in Store!Threads : u # t => todo'[u] = <<>> /\ copy'[u] = Store!NoRec
  <2>1. copy' \in [Store!Threads -> DidRecords] /\ Head(p).k \in Writes
    BY <1>1, <1>2, <1>4 DEF StoreTypes, Writes
  <2> QED
    BY <1>1, <1>3, <2>1, TurnInTurn
<1>7. NotificationInHand' /\ HolderFollows'
  BY <1>1, <1>3, <1>5, <1>6, TurnNotification, TurnHolder
<1>8. CopiesFit'
  <2>1. Served(copy[t]) /\ CopyKeeps(t) /\ (~stale => copy[t] = Result(t))
    BY <1>1 DEF StInv, CopiesFit
  <2>2. Served(copy[t])' /\ CopyKeeps(t)'
    BY <1>1, <1>4, <1>5, <1>6, <2>1 DEF Served, CopyKeeps
  <2>3. Result(t)' = Result(t)
    BY <1>1, <1>4, <1>5, <1>6 DEF Result, Outcome, Store!Apply, Store!publishSelfIssuedEcsPresentation
  <2>4. Store!NoRec' = Store!NoRec
    BY DEF Store!NoRec, Store!Empty
  <2> QED
    BY <1>1, <1>6, <2>1, <2>2, <2>3, <2>4 DEF CopiesFit
<1>9. PassesReconcile'
  <2>1. InPass(q) /\ ~stale => Reconciled(rec, ToSync(p), ToDescribe(p), ~Has(p, "detach"))
    BY <1>3, <1>5 DEF StInv, PassesReconcile, Reconciled
  <2>2. passed /\ ~stale => Reconciled(rec, {}, {}, TRUE)
    BY DEF StInv, PassesReconcile
  <2> QED
    BY <1>1, <1>3, <1>5, <1>6, <2>1, <2>2, TurnPass
<1>10. ASSUME faults = 0 PROVE HolderWithdrawn' /\ SelfBacked'
  <2>1. HolderWithdrawn /\ SelfBacked
    BY <1>10 DEF StInv
  <2>2. HolderWithdrawn'
    BY <1>1, <1>3, <1>5, <1>6, <2>1, TurnWithdrawn
  <2>3. rec.self => rec.tag # 0
    BY <1>1, <1>2, <1>5, <2>1, PublishedIsTagged
  <2>4. bound[t] = 0 \/ Backed(bound[t])
    BY <1>1, <1>2, <1>5, <2>1 DEF SelfBacked, Store!Running
  <2>5. SelfBacked'
    BY <1>1, <1>3, <1>5, <1>6, <2>1, <2>3, <2>4, TurnBacked
  <2> QED
    BY <2>2, <2>5
<1>11. StoreTypes'
  BY <1>1, <1>2, <1>6 DEF StoreTypes
<1>12. Served(rec)'
  BY <1>1 DEF StInv, Served
<1> QED
  BY <1>1, <1>6, <1>7, <1>8, <1>9, <1>10, <1>11, <1>12 DEF StInv

\* A thread that takes the next schema.
LEMMA SchemaTaken ==
  ASSUME StInv, NEW t \in Store!Threads, Store!nextSchema(t)
  PROVE  StInv'
<1> DEFINE q == todo[t]
<1>1. /\ q # <<>> /\ Head(q).k = "each"
      /\ UNCHANGED <<rec, version, owned, issuer, issuers, onChain, holder, storeNews, stale, passed, faults,
                     copy, bound>>
      /\ \/ Head(q).x = {} /\ todo' = [todo EXCEPT ![t] = Tail(@)]
         \/ \E s \in Head(q).x :
              todo' = [todo EXCEPT ![t] = <<Store!Op("sync", s), Store!Op("tm", s),
                                            Store!Op("each", Head(q).x \ {s})>> \o Tail(@)]
  BY DEF Store!nextSchema, Store!Running, Store!Done, Store!chain, Store!ghost, Store!count
<1>2. /\ StoreTypes /\ ProgramsInTurn /\ q \in Seq(StoreOps) /\ ProgramFits(q)
      /\ \A u \in Store!Threads : copy[u] = Store!NoRec
  BY <1>1, OthersRest DEF StInv, ProgramsInTurn, Writes
<1>3. q = todo[t]
  OBVIOUS
<1>4. ASSUME NEW p, Turn(t, p), todo' = [todo EXCEPT ![t] = p],
             InPass(q) /\ ~stale => Reconciled(rec, ToSync(p), ToDescribe(p), ~Has(p, "detach")),
             p # <<>> => Head(p).k \notin {"publish", "tag"}
      PROVE  StInv'
  <2> HIDE DEF q
  <2>1. /\ ProgramsInTurn' /\ todo' \in [Store!Threads -> Seq(StoreOps)] /\ todo'[t] = p
        /\ \A u \in Store!Threads : u # t => todo'[u] = <<>> /\ copy'[u] = Store!NoRec
    <3>1. copy' \in [Store!Threads -> DidRecords] /\ copy'[t] = Store!NoRec
      BY <1>1, <1>2 DEF StoreTypes
    <3> QED
      BY <1>1, <1>4, <3>1, TurnInTurn
  <2>2. NotificationInHand' /\ HolderFollows'
    BY <1>1, <1>3, <1>4, <2>1, TurnNotification, TurnHolder
  <2>3. CopiesFit'
    BY <1>1, <1>2 DEF CopiesFit, Store!NoRec, Store!Empty
  <2>4. PassesReconcile'
    <3>1. passed /\ ~stale => Reconciled(rec, {}, {}, TRUE)
      BY DEF StInv, PassesReconcile
    <3> QED
      BY <1>1, <1>3, <1>4, <2>1, <3>1, TurnPass
  <2>5. ASSUME faults = 0 PROVE HolderWithdrawn' /\ SelfBacked'
    <3>1. HolderWithdrawn /\ SelfBacked
      BY <2>5 DEF StInv
    <3>2. HolderWithdrawn'
      BY <1>1, <1>3, <1>4, <2>1, <3>1, TurnWithdrawn
    <3>3. rec.self => rec.tag # 0
      BY <1>1, <1>3, <3>1, PublishedIsTagged
    <3>4. copy'[t] = Store!NoRec
      BY <1>1, <1>2
    <3>5. SelfBacked'
      BY <1>1, <1>3, <1>4, <2>1, <3>1, <3>3, <3>4, TurnBacked
    <3> QED
      BY <3>2, <3>5
  <2>6. StoreTypes'
    BY <1>1, <1>2, <2>1 DEF StoreTypes
  <2>7. Served(rec)'
    BY <1>1 DEF StInv, Served
  <2> QED
    BY <1>1, <2>1, <2>2, <2>3, <2>4, <2>5, <2>6, <2>7 DEF StInv
<1>5. InPass(q) /\ ~stale => Reconciled(rec, ToSync(q), ToDescribe(q), ~Has(q, "detach"))
  BY <1>3 DEF StInv, PassesReconcile
<1>6. CASE Head(q).x = {} /\ todo' = [todo EXCEPT ![t] = Tail(@)]
  <2>1. Turn(t, Tail(q)) /\ todo' = [todo EXCEPT ![t] = Tail(q)]
    BY <1>1, <1>2, <1>6, TurnDone
  <2>2. Tail(q) # <<>> => Head(Tail(q)).k \notin {"publish", "tag"}
    BY <1>1, <1>2, TagFollows
  <2> HIDE DEF q
  <2>3. InPass(q) /\ ~stale => Reconciled(rec, ToSync(Tail(q)), ToDescribe(Tail(q)), ~Has(Tail(q), "detach"))
    <3>1. /\ \/ rec = Outcome(t, Head(q), rec)
             \/ rec = rec /\ Head(q).k \notin {"sync", "tm", "detach"}
          /\ Served(rec)
      BY <1>1 DEF StInv
    <3> QED
      BY <1>1, <1>2, <1>5, <1>6, <3>1, PassAdvances
  <2> QED
    BY <1>4, <2>1, <2>2, <2>3
<1>7. ASSUME NEW s \in Head(q).x,
             todo' = [todo EXCEPT ![t] = <<Store!Op("sync", s), Store!Op("tm", s),
                                           Store!Op("each", Head(q).x \ {s})>> \o Tail(@)]
      PROVE  StInv'
  <2> DEFINE p == <<Store!Op("sync", s), Store!Op("tm", s), Store!Op("each", Head(q).x \ {s})>> \o Tail(q)
  <2>1. todo' = [todo EXCEPT ![t] = p]
    BY <1>7
  <2>2. p = <<Store!Op("sync", s), Store!Op("tm", s), Store!Op("each", Head(todo[t]).x \ {s})>> \o Tail(todo[t])
    BY <1>3
  <2> HIDE DEF p
  <2>3. /\ Turn(t, p) /\ p # <<>> /\ Head(p).k = "sync"
        /\ ToSync(p) = ToSync(q) /\ ToDescribe(p) = ToDescribe(q)
        /\ Has(p, "detach") <=> Has(q, "detach")
    <3>1. /\ StoreTypes /\ ProgramsInTurn /\ todo[t] # <<>> /\ Head(todo[t]).k = "each"
          /\ s \in Head(todo[t]).x
      BY <1>1, <1>2, <1>3, <1>7
    <3>2. /\ Turn(t, p) /\ p # <<>> /\ Head(p).k = "sync"
          /\ ToSync(p) = ToSync(todo[t]) /\ ToDescribe(p) = ToDescribe(todo[t])
          /\ Has(p, "detach") <=> Has(todo[t], "detach")
      BY <2>1, <2>2, <3>1, TurnSchema
    <3> QED
      BY <1>3, <3>2
  <2>4. InPass(q) /\ ~stale => Reconciled(rec, ToSync(p), ToDescribe(p), ~Has(p, "detach"))
    BY <1>5, <2>3 DEF Reconciled
  <2> HIDE DEF q
  <2> QED
    BY <1>4, <2>1, <2>3, <2>4
<1> QED
  BY <1>1, <1>6, <1>7

\* updateDidRecord: what the copy makes of the two credentials.
LEMMA CredentialsWritten ==
  ASSUME StInv, HolderWithdrawn, SelfBacked, NEW t \in Store!Threads, NEW c, NEW p, Turn(t, p), todo'[t] = p,
         c = copy[t], c # Store!NoRec, rec' = c, p = Tail(todo[t]), Head(todo[t]).k # "rebind",
         \A u \in Store!Threads : u # t => todo'[u] = <<>>,
         UNCHANGED <<issuer, holder, storeNews, bound>>, copy'[t] = Store!NoRec
  PROVE  HolderWithdrawn' /\ SelfBacked'
<1> DEFINE q == todo[t]
           k == Head(q).k
<1>1. /\ q # <<>> /\ k \in Writes /\ k # "rebind"
      /\ StoreTypes /\ ProgramsInTurn /\ q \in Seq(StoreOps) /\ ProgramFits(q)
      /\ \A u \in Store!Threads : u # t => todo[u] = <<>>
  BY OthersRest DEF StInv, ProgramsInTurn, Store!Running
<1>2. /\ k \notin {"vtc", "remove"} => c.held = rec.held
      /\ k = "remove" => ~c.held
      /\ k \notin {"withdraw", "rebind", "publish", "tag"} => c.self = rec.self /\ c.tag = rec.tag
      /\ k = "withdraw" => ~c.self /\ c.tag = 0
      /\ k \in {"rebind", "publish"} => c.tag = rec.tag /\ (c.self # rec.self => bound[t] # 0)
      /\ k = "tag" =>
           c.self = rec.self /\ c.tag = IF rec.self /\ bound[t] # 0 THEN bound[t] ELSE rec.tag
  BY DEF StInv, CopiesFit, CopyKeeps
<1>3. /\ \A l : Has(q, l) <=> k = l \/ Has(p, l)
      /\ \A l : Has(p, l) => Rank(k) < Rank(l)
      /\ p # <<>> /\ Head(p).k \in {"publish", "tag"} => k = "publish"
      /\ k = "publish" => p # <<>> /\ Head(p).k = "tag"
  <2>1. /\ \A l : Has(q, l) <=> k = l \/ Has(p, l)
        /\ \A l : Has(p, l) => Rank(k) < Rank(l)
    BY <1>1, FirstDone, FirstDoneFits
  <2>2. p # <<>> /\ Head(p).k \in {"publish", "tag"} => k = "publish"
    BY <1>1, TagFollows
  <2>3. Store!Op("tag", 0).k = "tag"
    BY DEF Store!Op
  <2>4. k = "publish" => p # <<>> /\ Head(p) = Store!Op("tag", 0)
    BY <1>1, FirstDoneFits
  <2>5. k = "publish" => p # <<>> /\ Head(p).k = "tag"
    BY <2>3, <2>4
  <2> QED
    BY <2>1, <2>2, <2>5
<1>4. q = todo[t] /\ k = Head(todo[t]).k
  OBVIOUS
<1> HIDE DEF q, k
<1>5. HolderWithdrawn'
  <2>1. CASE k \notin {"vtc", "remove"}
    BY <1>2, <1>4, <2>1, TurnWithdrawn
  <2>2. CASE k = "remove"
    BY <1>2, <2>2 DEF HolderWithdrawn
  <2>3. CASE k = "vtc"
    <3>1. holder = "completed"
      BY <1>1, <1>3, <1>4, <2>3 DEF StInv, HolderFollows
    <3>2. ASSUME NEW u \in Store!Threads, Has(todo'[u], "revoked") PROVE FALSE
      <4>1. u = t
        BY <3>2, NothingToDo
      <4>2. Rank("vtc") = 1 /\ Rank("revoked") = 1
        BY Ranks
      <4> QED
        BY <1>3, <2>3, <3>2, <4>1, <4>2
    <3> QED
      BY <3>1, <3>2 DEF HolderWithdrawn
  <2> QED
    BY <2>1, <2>2, <2>3
<1>6. SelfBacked'
  <2>1. CASE k \notin {"withdraw", "publish", "tag"}
    <3>1. rec.self => rec.tag # 0
      BY <1>1, <1>4, <2>1, PublishedIsTagged
    <3>2. p # <<>> => Head(p).k \notin {"publish", "tag"}
      BY <1>3, <2>1
    <3>3. c.self = rec.self /\ c.tag = rec.tag
      BY <1>1, <1>2, <2>1
    <3> QED
      BY <1>1, <1>4, <2>1, <3>1, <3>2, <3>3, TurnBacked
  <2>2. CASE k \in {"withdraw", "publish", "tag"}
    <3>1. \A n : Backed(n)' <=> Backed(n)
      BY DEF Backed
    <3>2. c.self /\ c.tag # 0 => Backed(c.tag)
      <4>1. rec.tag # 0 => rec.self
        BY DEF StInv, Served
      <4>2. rec.self /\ rec.tag # 0 => Backed(rec.tag)
        BY DEF SelfBacked
      <4>3. k \in {"publish", "tag"} => bound[t] = 0 \/ Backed(bound[t])
        BY <1>1, <1>4 DEF SelfBacked, Store!Running
      <4>4. CASE k = "withdraw"
        BY <1>2, <4>4
      <4>5. CASE k = "publish"
        BY <1>2, <4>1, <4>2, <4>5
      <4>6. CASE k = "tag"
        BY <1>2, <4>2, <4>3, <4>6
      <4> QED
        BY <2>2, <4>4, <4>5, <4>6
    <3>3. c.self /\ c.tag = 0 => p # <<>> /\ Head(p).k = "tag" /\ bound[t] # 0
      <4>1. CASE k = "withdraw"
        BY <1>2, <4>1
      <4>2. CASE k = "publish"
        <5>1. rec.self => rec.tag # 0
          BY <1>1, <1>4, <4>2, PublishedIsTagged
        <5>2. c.self /\ c.tag = 0 => ~rec.self
          BY <1>2, <4>2, <5>1
        <5>3. c.self \in BOOLEAN /\ rec.self \in BOOLEAN
          BY <1>1 DEF StoreTypes, DidRecords
        <5> QED
          BY <1>2, <1>3, <4>2, <5>2, <5>3
      <4>3. CASE k = "tag"
        <5>1. bound[t] = 0 => (rec.self => rec.tag # 0)
          BY <1>1, <1>4, PublishedIsTagged
        <5> QED
          BY <1>2, <4>3, <5>1
      <4> QED
        BY <2>2, <4>1, <4>2, <4>3
    <3>4. todo'["notif"] # <<>> /\ Head(storeNews).k = "RevokeIssuer" =>
            ~Has(todo'["notif"], "tag") /\ ~c.self
      <4> SUFFICES ASSUME todo'["notif"] # <<>>, Head(storeNews).k = "RevokeIssuer"
                   PROVE  ~Has(todo'["notif"], "tag") /\ ~c.self
        OBVIOUS
      <4>1. t = "notif"
        BY DEF Store!Threads
      <4>2. ~Has(q, "tag")
        BY <1>1, <1>4, <4>1 DEF SelfBacked, Store!Running
      <4>3. Has(q, "publish") => Has(q, "tag")
        BY <1>1 DEF ProgramFits
      <4>4. k = "withdraw"
        BY <1>3, <2>2, <4>2, <4>3
      <4> QED
        BY <1>2, <1>3, <4>1, <4>2, <4>4
    <3>5. ASSUME NEW u \in Store!Threads, todo'[u] # <<>>,
                 \/ Head(todo'[u]).k \in {"publish", "tag"}
                 \/ Head(todo'[u]).k = "rebind" /\ copy'[u] # Store!NoRec
          PROVE  bound[u] = 0 \/ Backed(bound[u])
      <4>1. u = t
        BY <3>5
      <4>2. Head(p).k \in {"publish", "tag"} /\ p # <<>>
        BY <3>5, <4>1
      <4>3. k = "publish"
        BY <1>3, <4>2
      <4> QED
        BY <1>1, <1>4, <4>1, <4>3 DEF SelfBacked, Store!Running
    <3>6. Store!NoRec' = Store!NoRec
      BY DEF Store!NoRec, Store!Empty
    <3>7. c.self /\ c.tag = 0 => \E u \in Store!Threads : todo'[u] # <<>> /\ Head(todo'[u]).k = "tag" /\ bound[u] # 0
      BY <3>3
    <3> QED
      BY <3>1, <3>2, <3>4, <3>5, <3>6, <3>7 DEF SelfBacked, Store!Running
  <2> QED
    BY <2>1, <2>2
<1> QED
  BY <1>5, <1>6

\* ... and of the rest.
LEMMA RecordWritten ==
  ASSUME StInv, NEW t \in Store!Threads, Store!updateDidRecord(t)
  PROVE  StInv'
<1> DEFINE q == todo[t]
           p == Tail(q)
           o == Head(q)
           c == copy[t]
<1>1. /\ c # Store!NoRec /\ o.k # "rebind" /\ rec' = c /\ copy' = [copy EXCEPT ![t] = Store!NoRec]
      /\ todo' = [todo EXCEPT ![t] = Tail(@)]
      /\ UNCHANGED <<version, owned, issuer, issuers, onChain, holder, storeNews, stale, passed, faults, bound>>
  BY DEF Store!updateDidRecord, Store!Done, Store!chain, Store!ghost, Store!count
<1>2. /\ q # <<>> /\ o.k \in Writes
      /\ StoreTypes /\ ProgramsInTurn /\ q \in Seq(StoreOps) /\ ProgramFits(q) /\ o \in StoreOps
      /\ \A u \in Store!Threads : u # t => copy[u] = Store!NoRec
  BY <1>1, OthersRest, FirstDone DEF StInv, ProgramsInTurn, Store!Running
<1>3. Turn(t, p)
  BY <1>1, <1>2, TurnDone
<1>4. Store!NoRec \in DidRecords
  BY DEF Store!NoRec, Store!Empty, DidRecords
<1>5. copy' \in [Store!Threads -> DidRecords] /\ \A u \in Store!Threads : copy'[u] = Store!NoRec
  BY <1>1, <1>2, <1>4 DEF StoreTypes
<1>6. Served(c) /\ (~stale => c = Outcome(t, o, rec)) /\ c \in DidRecords /\ rec \in DidRecords /\ Served(rec)
  BY <1>1, <1>2 DEF StInv, CopiesFit, Result, StoreTypes
<1>7. o.k = "jsc" => version[o.x] # 0
  BY <1>2, FirstDone DEF StInv, NotificationInHand, StoreOps
<1>8. o = Head(todo[t]) /\ q = todo[t] /\ p = Tail(q) /\ o = Head(q) /\ c = copy[t] /\ p = Tail(todo[t])
  OBVIOUS
<1> HIDE DEF o, q, p, c
<1>9. /\ ProgramsInTurn' /\ todo' \in [Store!Threads -> Seq(StoreOps)] /\ todo'[t] = p
      /\ \A u \in Store!Threads : u # t => todo'[u] = <<>>
  <2>1. \A u \in Store!Threads : u # t => copy'[u] = copy[u]
    BY <1>2, <1>5
  <2> QED
    BY <1>3, <1>5, <2>1, TurnInTurn
<1>10. NotificationInHand' /\ HolderFollows'
  BY <1>1, <1>2, <1>3, <1>8, <1>9, TurnNotification, TurnHolder DEF Writes
<1>11. CopiesFit'
  BY <1>5 DEF CopiesFit, Store!NoRec, Store!Empty
<1>12. PassesReconcile'
  <2>1. InPass(q) /\ ~stale => Reconciled(rec, ToSync(q), ToDescribe(q), ~Has(q, "detach"))
    BY <1>8 DEF StInv, PassesReconcile
  <2>2. InPass(q) /\ ~stale => Reconciled(c, ToSync(p), ToDescribe(p), ~Has(p, "detach"))
    <3> SUFFICES ASSUME InPass(q), ~stale PROVE Reconciled(c, ToSync(p), ToDescribe(p), ~Has(p, "detach"))
      OBVIOUS
    <3>1. c = Outcome(t, Head(q), rec)
      BY <1>6, <1>8
    <3>2. Head(q).k # "each" /\ (Head(q).k = "jsc" => version[Head(q).x] # 0)
      BY <1>2, <1>7, <1>8 DEF Writes
    <3>3. \/ c = Outcome(t, Head(q), rec)
          \/ c = rec /\ Head(q).k \notin {"sync", "tm", "detach"}
      BY <3>1
    <3> QED
      BY <1>2, <1>6, <1>8, <2>1, <3>2, <3>3, PassAdvances
  <2>3. passed /\ ~stale => Reconciled(c, {}, {}, TRUE)
    <3> SUFFICES ASSUME passed, ~stale PROVE Reconciled(c, {}, {}, TRUE)
      OBVIOUS
    <3>1. KeepsServed(o, rec, c)
      BY <1>2, <1>6, <1>7, OutcomeServed
    <3>2. Reconciled(rec, {}, {}, TRUE)
      BY DEF StInv, PassesReconcile
    <3>3. {} \in SUBSET Schemas /\ TRUE \in BOOLEAN
      OBVIOUS
    <3> QED
      BY <3>1, <3>2, <3>3 DEF KeepsServed
  <2>4. Head(todo[t]).k # "pass"
    BY <1>2, <1>8 DEF Writes
  <2> QED
    BY <1>1, <1>3, <1>8, <1>9, <2>2, <2>3, <2>4, TurnPass
<1>13. ASSUME faults = 0 PROVE HolderWithdrawn' /\ SelfBacked'
  <2>1. HolderWithdrawn /\ SelfBacked
    BY <1>13 DEF StInv
  <2> QED
    BY <1>1, <1>3, <1>5, <1>8, <1>9, <2>1, CredentialsWritten
<1>14. StoreTypes'
  BY <1>1, <1>2, <1>5, <1>6, <1>9 DEF StoreTypes
<1>15. Served(rec)'
  BY <1>1, <1>6 DEF Served
<1> QED
  BY <1>1, <1>9, <1>10, <1>11, <1>12, <1>13, <1>14, <1>15 DEF StInv

-----------------------------------------------------------------------------
\* The steps of a thread that read and write nothing.

\* An operation that is given up: it fails, or the chain refuses its digest.
LEMMA GivenUp ==
  ASSUME StInv, NEW t \in Store!Threads, Store!giveUp(t),
         (faults' = faults /\ Head(todo[t]).k = "rebind") \/ faults' = faults + 1
  PROVE  StInv'
<1> DEFINE q == todo[t]
           o == Head(q)
           p == IF o.k \in {"rebind", "publish"} THEN Tail(Tail(q)) ELSE Tail(q)
<1>1. /\ copy[t] # Store!NoRec /\ copy' = [copy EXCEPT ![t] = Store!NoRec] /\ stale' = TRUE
      /\ UNCHANGED <<rec, version, owned, issuer, issuers, onChain, holder, storeNews, passed, bound>>
      /\ todo' = [todo EXCEPT ![t] = IF Head(@).k \in {"rebind", "publish"} THEN Tail(Tail(@)) ELSE Tail(@)]
  BY DEF Store!giveUp, Store!chain
<1>2. /\ q # <<>> /\ o.k \in Writes
      /\ StoreTypes /\ ProgramsInTurn /\ q \in Seq(StoreOps) /\ ProgramFits(q)
      /\ \A u \in Store!Threads : u # t => copy[u] = Store!NoRec
  BY <1>1, OthersRest DEF StInv, ProgramsInTurn, Store!Running
<1>3. Turn(t, p)
  <2>1. CASE o.k \in {"rebind", "publish"}
    <3>1. todo' = [todo EXCEPT ![t] = Tail(Tail(@))] /\ p = Tail(Tail(todo[t]))
      BY <1>1, <2>1
    <3> QED
      BY <1>2, <2>1, <3>1, TurnDone
  <2>2. CASE o.k \notin {"rebind", "publish"}
    <3>1. todo' = [todo EXCEPT ![t] = Tail(@)] /\ p = Tail(todo[t])
      BY <1>1, <2>2
    <3> QED
      BY <1>2, <3>1, TurnDone
  <2> QED
    BY <2>1, <2>2
<1>4. Store!NoRec \in DidRecords
  BY DEF Store!NoRec, Store!Empty, DidRecords
<1>5. copy' \in [Store!Threads -> DidRecords] /\ \A u \in Store!Threads : copy'[u] = Store!NoRec
  BY <1>1, <1>2, <1>4 DEF StoreTypes
<1>6. o.k = "rebind" /\ p # <<>> => Head(p).k \notin {"publish", "tag"}
  BY <1>2, TagFollows
<1>7. o = Head(todo[t]) /\ q = todo[t] /\ o = Head(q)
  OBVIOUS
<1> HIDE DEF o, q, p
<1>8. /\ ProgramsInTurn' /\ todo' \in [Store!Threads -> Seq(StoreOps)] /\ todo'[t] = p
      /\ \A u \in Store!Threads : u # t => todo'[u] = <<>>
  <2>1. \A u \in Store!Threads : u # t => copy'[u] = copy[u]
    BY <1>2, <1>5
  <2> QED
    BY <1>3, <1>5, <2>1, TurnInTurn
<1>9. NotificationInHand' /\ HolderFollows'
  BY <1>1, <1>2, <1>3, <1>7, <1>8, TurnNotification, TurnHolder DEF Writes
<1>10. CopiesFit'
  BY <1>5 DEF CopiesFit, Store!NoRec, Store!Empty
<1>11. PassesReconcile'
  <2>1. Head(todo[t]).k # "pass"
    BY <1>2, <1>7 DEF Writes
  <2>2. stale'
    BY <1>1
  <2> QED
    BY <1>1, <1>3, <1>7, <1>8, <2>1, <2>2, TurnPass
<1>12. ASSUME faults' = 0 PROVE HolderWithdrawn' /\ SelfBacked'
  <2>1. faults = 0 /\ o.k = "rebind"
    <3>1. faults \in Nat
      BY <1>2 DEF StoreTypes
    <3> QED
      BY <1>7, <1>12, <3>1
  <2>2. HolderWithdrawn /\ SelfBacked
    BY <2>1 DEF StInv
  <2>3. HolderWithdrawn'
    BY <1>1, <1>3, <1>7, <1>8, <2>1, <2>2, TurnWithdrawn
  <2>4. rec.self => rec.tag # 0
    BY <1>2, <1>7, <2>1, <2>2, PublishedIsTagged
  <2>5. p # <<>> => Head(p).k \notin {"publish", "tag"}
    BY <1>6, <2>1
  <2>6. copy'[t] = Store!NoRec
    BY <1>5
  <2>7. SelfBacked'
    BY <1>1, <1>3, <1>7, <1>8, <2>1, <2>2, <2>4, <2>5, <2>6, TurnBacked
  <2> QED
    BY <2>3, <2>7
<1>13. StoreTypes'
  <2>1. faults' \in Nat /\ stale' \in BOOLEAN
    BY <1>1, <1>2 DEF StoreTypes
  <2> QED
    BY <1>1, <1>2, <1>5, <1>8, <2>1 DEF StoreTypes
<1>14. Served(rec)'
  BY <1>1 DEF StInv, Served
<1> QED
  BY <1>8, <1>9, <1>10, <1>11, <1>12, <1>13, <1>14 DEF StInv

\* The first operation is done without a copy.
LEMMA StepDone ==
  ASSUME StInv, NEW t \in Store!Threads, todo[t] # <<>>, Head(todo[t]).k \in {"pass", "passed", "revoked", "handled"},
         todo' = [todo EXCEPT ![t] = Tail(@)], copy' = copy
  PROVE  LET p == Tail(todo[t]) IN
         /\ Turn(t, p) /\ ProgramsInTurn' /\ todo' \in [Store!Threads -> Seq(StoreOps)] /\ todo'[t] = p
         /\ \A u \in Store!Threads : u # t => todo'[u] = <<>>
         /\ \A u \in Store!Threads : copy[u] = Store!NoRec
         /\ CopiesFit' /\ (p # <<>> => Head(p).k \notin {"publish", "tag"})
<1> DEFINE p == Tail(todo[t])
<1>1. Turn(t, p)
  BY TurnDone DEF StInv
<1>2. /\ \A u \in Store!Threads : copy[u] = Store!NoRec
      /\ copy' \in [Store!Threads -> DidRecords] /\ copy'[t] = Store!NoRec
      /\ \A u \in Store!Threads : u # t => copy'[u] = copy[u]
  BY OthersRest DEF StInv, ProgramsInTurn, Writes, StoreTypes
<1>3. p # <<>> => Head(p).k \notin {"publish", "tag"}
  BY OthersRest, TagFollows DEF StInv
<1> HIDE DEF p
<1>4. /\ ProgramsInTurn' /\ todo' \in [Store!Threads -> Seq(StoreOps)] /\ todo'[t] = p
      /\ \A u \in Store!Threads : u # t => todo'[u] = <<>>
  BY <1>1, <1>2, TurnInTurn
<1>5. CopiesFit'
  BY <1>2 DEF CopiesFit, Store!NoRec, Store!Empty
<1> QED
  BY <1>1, <1>2, <1>3, <1>4, <1>5 DEF p

\* ... and the two credentials are left as they are.
LEMMA StepKeeps ==
  ASSUME StInv, HolderWithdrawn, SelfBacked, NEW t \in Store!Threads, NEW p, Turn(t, p), todo'[t] = p,
         \A u \in Store!Threads : u # t => todo'[u] = <<>>,
         Head(todo[t]).k \in {"pass", "passed", "revoked", "handled"},
         UNCHANGED <<rec, issuer, storeNews, bound, copy>>, copy[t] = Store!NoRec,
         p # <<>> => Head(p).k \notin {"publish", "tag"}
  PROVE  SelfBacked' /\ (holder' = holder => HolderWithdrawn')
<1>1. rec.self => rec.tag # 0
  BY PublishedIsTagged DEF Turn
<1>2. SelfBacked'
  BY <1>1, TurnBacked
<1>3. holder' = holder => HolderWithdrawn'
  BY TurnWithdrawn
<1> QED
  BY <1>2, <1>3

\* A pass begins.
LEMMA PassBegun ==
  ASSUME StInv, NEW t \in Store!Threads, Store!beginPass(t)
  PROVE  StInv'
<1> DEFINE q == todo[t]
           p == Tail(q)
<1>1. /\ q # <<>> /\ Head(q).k = "pass" /\ todo' = [todo EXCEPT ![t] = Tail(@)]
      /\ stale' = FALSE /\ passed' = FALSE
      /\ UNCHANGED <<rec, version, owned, issuer, issuers, onChain, holder, storeNews, faults, copy, bound>>
  BY DEF Store!beginPass, Store!Running, Store!Done, Store!chain, Store!count
<1>2. /\ Turn(t, p) /\ ProgramsInTurn' /\ todo' \in [Store!Threads -> Seq(StoreOps)] /\ todo'[t] = p
      /\ \A u \in Store!Threads : u # t => todo'[u] = <<>>
      /\ \A u \in Store!Threads : copy[u] = Store!NoRec
      /\ CopiesFit' /\ (p # <<>> => Head(p).k \notin {"publish", "tag"})
  BY <1>1, StepDone
<1>3. /\ HasAt(p, "each", Schemas) /\ Has(p, "detach")
  <2>1. q \in Seq(StoreOps) /\ ProgramFits(q)
    BY <1>1, OthersRest DEF StInv
  <2>2. /\ \A k : Has(q, k) <=> Head(q).k = k \/ Has(p, k)
        /\ \A k, x : HasAt(q, k, x) <=> (Head(q).k = k /\ Head(q).x = x) \/ HasAt(p, k, x)
    BY <1>1, <2>1, FirstDone
  <2>3. Has(q, "pass")
    BY <1>1, <2>2
  <2>4. HasAt(q, "each", Schemas) /\ Has(q, "detach")
    BY <2>1, <2>3 DEF ProgramFits
  <2> HIDE DEF p
  <2> QED
    BY <1>1, <2>2, <2>4
<1>4. q = todo[t] /\ Head(todo[t]).k = "pass"
  BY <1>1
<1> HIDE DEF q, p
<1>5. NotificationInHand' /\ HolderFollows'
  BY <1>1, <1>2, <1>4, TurnNotification, TurnHolder
<1>6. PassesReconcile'
  <2>1. ToSync(p) = Schemas /\ ToDescribe(p) = Schemas
    <3>1. Listed(p) = Schemas
      BY <1>3 DEF Listed
    <3> QED
      BY <3>1 DEF ToSync, ToDescribe
  <2>2. ASSUME NEW u \in Store!Threads, InPass(todo'[u])
        PROVE  Reconciled(rec, ToSync(todo'[u]), ToDescribe(todo'[u]), ~Has(todo'[u], "detach"))
    <3>1. u = t
      BY <1>2, <2>2, NothingToDo
    <3> QED
      BY <1>2, <1>3, <2>1, <3>1 DEF Reconciled
  <2> QED
    BY <1>1, <2>2 DEF PassesReconcile, Reconciled
<1>7. ASSUME faults = 0 PROVE HolderWithdrawn' /\ SelfBacked'
  BY <1>1, <1>2, <1>4, <1>7, StepKeeps DEF StInv
<1>8. StoreTypes' /\ Served(rec)'
  BY <1>1, <1>2 DEF StInv, StoreTypes, Served
<1> QED
  BY <1>1, <1>2, <1>5, <1>6, <1>7, <1>8 DEF StInv

\* A pass ends.
LEMMA PassEnded ==
  ASSUME StInv, NEW t \in Store!Threads, Store!endPass(t)
  PROVE  StInv'
<1> DEFINE q == todo[t]
           p == Tail(q)
<1>1. /\ q # <<>> /\ Head(q).k = "passed" /\ todo' = [todo EXCEPT ![t] = Tail(@)] /\ passed' = TRUE
      /\ UNCHANGED <<rec, version, owned, issuer, issuers, onChain, holder, storeNews, stale, faults, copy, bound>>
  BY DEF Store!endPass, Store!Running, Store!Done, Store!chain, Store!count
<1>2. /\ Turn(t, p) /\ ProgramsInTurn' /\ todo' \in [Store!Threads -> Seq(StoreOps)] /\ todo'[t] = p
      /\ \A u \in Store!Threads : u # t => todo'[u] = <<>>
      /\ \A u \in Store!Threads : copy[u] = Store!NoRec
      /\ CopiesFit' /\ (p # <<>> => Head(p).k \notin {"publish", "tag"})
  BY <1>1, StepDone
<1>3. /\ q \in Seq(StoreOps) /\ ProgramFits(q) /\ StoreTypes
  BY <1>1, OthersRest DEF StInv
<1>4. q = todo[t] /\ Head(todo[t]).k = "passed" /\ p = Tail(q)
  BY <1>1
<1> HIDE DEF q, p
<1>5. NotificationInHand' /\ HolderFollows'
  BY <1>1, <1>2, <1>4, TurnNotification, TurnHolder
<1>6. PassesReconcile'
  <2>1. /\ \A k : Has(q, k) <=> k = "passed" \/ Has(p, k)
        /\ \A k : Has(p, k) => Rank(k) \in 0..9 /\ 8 < Rank(k)
        /\ ~Has(p, "pass")
    <3>1. Rank("passed") = 8
      BY Ranks
    <3> QED
      BY <1>1, <1>3, <1>4, <3>1, FirstDone, FirstDoneFits
  <2>2. InPass(q)
    BY <2>1 DEF InPass
  <2>3. ~InPass(p)
    BY <2>1, Ranks DEF InPass
  <2>4. ToSync(p) = {} /\ ToDescribe(p) = {} /\ ~Has(p, "detach")
    <3>1. Rank(Head(q).k) \in 4..9
      BY <1>1, Ranks
    <3> QED
      BY <1>1, <1>3, <1>4, <3>1, LeftToDo
  <2>5. ~stale => Reconciled(rec, {}, {}, TRUE)
    <3> SUFFICES ASSUME ~stale PROVE Reconciled(rec, {}, {}, TRUE)
      OBVIOUS
    <3>1. Reconciled(rec, ToSync(q), ToDescribe(q), ~Has(q, "detach"))
      BY <1>4, <2>2 DEF StInv, PassesReconcile
    <3>2. /\ \/ rec = Outcome(t, Head(q), rec)
             \/ rec = rec /\ Head(q).k \notin {"sync", "tm", "detach"}
          /\ Served(rec) /\ Head(q).k # "each" /\ Head(q).k # "jsc"
      BY <1>1 DEF StInv
    <3>3. Reconciled(rec, ToSync(p), ToDescribe(p), ~Has(p, "detach"))
      BY <1>1, <1>3, <1>4, <3>1, <3>2, PassAdvances
    <3> QED
      BY <2>4, <3>3 DEF Reconciled
  <2>6. \A u \in Store!Threads : ~InPass(todo'[u])
    BY <1>2, <2>3, NothingToDo
  <2> QED
    BY <1>1, <2>5, <2>6 DEF PassesReconcile, Reconciled
<1>7. ASSUME faults = 0 PROVE HolderWithdrawn' /\ SelfBacked'
  BY <1>1, <1>2, <1>4, <1>7, StepKeeps DEF StInv
<1>8. StoreTypes' /\ Served(rec)'
  BY <1>1, <1>2 DEF StInv, StoreTypes, Served
<1> QED
  BY <1>1, <1>2, <1>5, <1>6, <1>7, <1>8 DEF StInv

\* setVtFlowRecordsParticipantRevoked: the flow ends, its credential is gone.
LEMMA FlowRevoked ==
  ASSUME StInv, NEW t \in Store!Threads, Store!flowRevoked(t)
  PROVE  StInv'
<1> DEFINE q == todo[t]
           p == Tail(q)
<1>1. /\ q # <<>> /\ Head(q).k = "revoked" /\ todo' = [todo EXCEPT ![t] = Tail(@)] /\ holder' = "revoked"
      /\ UNCHANGED <<rec, version, owned, issuer, issuers, onChain, storeNews, stale, passed, faults, copy, bound>>
  BY DEF Store!flowRevoked, Store!Running, Store!Done, Store!chain, Store!ghost, Store!count
<1>2. /\ Turn(t, p) /\ ProgramsInTurn' /\ todo' \in [Store!Threads -> Seq(StoreOps)] /\ todo'[t] = p
      /\ \A u \in Store!Threads : u # t => todo'[u] = <<>>
      /\ \A u \in Store!Threads : copy[u] = Store!NoRec
      /\ CopiesFit' /\ (p # <<>> => Head(p).k \notin {"publish", "tag"})
  BY <1>1, StepDone
<1>3. /\ q \in Seq(StoreOps) /\ ProgramFits(q) /\ StoreTypes
  BY <1>1, OthersRest DEF StInv
<1>4. q = todo[t] /\ Head(todo[t]).k = "revoked" /\ p = Tail(q)
  BY <1>1
<1> HIDE DEF q, p
<1>5. /\ \A k : Has(q, k) <=> k = "revoked" \/ Has(p, k)
      /\ ~Has(p, "vtc") /\ ~Has(p, "remove")
  <2>1. Rank("revoked") = 1 /\ Rank("vtc") = 1 /\ Rank("remove") = 0
    BY Ranks
  <2>2. /\ \A k : Has(q, k) <=> k = "revoked" \/ Has(p, k)
        /\ \A k : Has(p, k) => Rank(k) \in 0..9 /\ 1 < Rank(k)
    BY <1>1, <1>3, <1>4, <2>1, FirstDone, FirstDoneFits
  <2> QED
    BY <2>1, <2>2
<1>6. NotificationInHand'
  BY <1>1, <1>2, <1>4, TurnNotification
<1>7. HolderFollows'
  <2>1. \A u \in Store!Threads : ~Has(todo'[u], "vtc")
    BY <1>2, <1>5, NothingToDo
  <2> QED
    BY <1>1, <2>1 DEF HolderFollows
<1>8. PassesReconcile'
  <2>1. InPass(q) /\ ~stale => Reconciled(rec, ToSync(q), ToDescribe(q), ~Has(q, "detach"))
    BY <1>4 DEF StInv, PassesReconcile
  <2>2. /\ \/ rec = Outcome(t, Head(q), rec)
           \/ rec = rec /\ Head(q).k \notin {"sync", "tm", "detach"}
        /\ Served(rec) /\ Head(q).k # "each" /\ Head(q).k # "jsc"
    BY <1>1 DEF StInv
  <2>3. InPass(q) /\ ~stale => Reconciled(rec, ToSync(p), ToDescribe(p), ~Has(p, "detach"))
    BY <1>1, <1>3, <1>4, <2>1, <2>2, PassAdvances
  <2>4. passed /\ ~stale => Reconciled(rec, {}, {}, TRUE)
    BY DEF StInv, PassesReconcile
  <2> QED
    BY <1>1, <1>2, <1>4, <2>3, <2>4, TurnPass
<1>9. ASSUME faults = 0 PROVE HolderWithdrawn' /\ SelfBacked'
  <2>1. HolderWithdrawn /\ SelfBacked
    BY <1>9 DEF StInv
  <2>2. ~rec.held
    BY <1>4, <1>5, <2>1 DEF HolderWithdrawn
  <2>3. SelfBacked'
    BY <1>1, <1>2, <1>4, <2>1, StepKeeps
  <2> QED
    BY <1>1, <2>2, <2>3 DEF HolderWithdrawn
<1>10. StoreTypes' /\ Served(rec)'
  BY <1>1, <1>2, <1>3 DEF StInv, StoreTypes, Served
<1> QED
  BY <1>1, <1>2, <1>6, <1>7, <1>8, <1>9, <1>10 DEF StInv

\* The handler of a notification returns.
LEMMA NotificationHandled ==
  ASSUME StInv, NEW t \in Store!Threads, Store!notificationHandled(t)
  PROVE  StInv'
<1> DEFINE q == todo[t]
           p == Tail(q)
<1>1. /\ q # <<>> /\ Head(q).k = "handled" /\ todo' = [todo EXCEPT ![t] = Tail(@)]
      /\ storeNews' = Tail(storeNews)
      /\ UNCHANGED <<rec, version, owned, issuer, issuers, onChain, holder, stale, passed, faults, copy, bound>>
  BY DEF Store!notificationHandled, Store!Running, Store!Done, Store!chain, Store!ghost, Store!count
<1>2. /\ Turn(t, p) /\ ProgramsInTurn' /\ todo' \in [Store!Threads -> Seq(StoreOps)] /\ todo'[t] = p
      /\ \A u \in Store!Threads : u # t => todo'[u] = <<>>
      /\ \A u \in Store!Threads : copy[u] = Store!NoRec
      /\ CopiesFit'
  BY <1>1, StepDone
<1>3. /\ q \in Seq(StoreOps) /\ ProgramFits(q) /\ StoreTypes
  BY <1>1, OthersRest DEF StInv
<1>4. q = todo[t] /\ Head(todo[t]).k = "handled" /\ p = Tail(q)
  BY <1>1
<1> HIDE DEF q, p
<1>5. p = <<>> /\ \A k : Has(q, k) => k = "handled"
  <2>1. /\ p # <<>> => Has(p, Head(p).k)
        /\ \A k : Has(q, k) <=> k = "handled" \/ Has(p, k)
        /\ \A k : Has(p, k) => Rank(k) \in 0..9 /\ 9 < Rank(k)
    <3>1. Rank("handled") = 9
      BY Ranks
    <3> QED
      BY <1>1, <1>3, <1>4, <3>1, FirstDone, FirstDoneFits
  <2>2. \A k : ~Has(p, k)
    BY <2>1
  <2> QED
    BY <2>1, <2>2
<1>6. /\ \A u \in Store!Threads : todo'[u] = <<>>
      /\ t = "notif"
  <2>1. Has(q, "handled")
    BY <1>1, <1>3, FirstDone
  <2> QED
    BY <1>2, <1>4, <1>5, <2>1 DEF StInv, NotificationInHand
<1> DEFINE n == storeNews
<1>7. /\ n \in Seq(StoreNews) /\ n # <<>> /\ Head(n) = n[1] /\ Tail(n) \in Seq(StoreNews)
      /\ \A i \in 1..Len(Tail(n)) : i + 1 \in 1..Len(n) /\ Tail(n)[i] = n[i + 1]
      /\ \A i \in 1..Len(n) : i = 1 \/ (i - 1 \in 1..Len(Tail(n)) /\ n[i] = Tail(n)[i - 1])
  <2>1. n \in Seq(StoreNews) /\ n # <<>>
    BY <1>1, <1>3, <1>4, <1>6 DEF StInv, NotificationInHand, StoreTypes, Store!Running
  <2>2. /\ Head(n) = n[1] /\ Tail(n) \in Seq(StoreNews) /\ Len(n) \in Nat /\ Len(Tail(n)) = Len(n) - 1
        /\ \A i \in 1..Len(Tail(n)) : Tail(n)[i] = n[i + 1]
    BY <2>1, HeadTailProperties, LenProperties
  <2> HIDE DEF n
  <2> QED
    BY <2>1, <2>2
<1>8. n = storeNews
  OBVIOUS
<1> HIDE DEF n
<1>9. NotificationInHand'
  <2>1. \A i \in 1..Len(Tail(n)) : Tail(n)[i].k = "CreateNewCredentialSchema" => version[Tail(n)[i].x] # 0
    BY <1>7, <1>8 DEF StInv, NotificationInHand
  <2> QED
    BY <1>1, <1>6, <1>8, <2>1, NothingToDo DEF NotificationInHand, Store!Running
<1>10. HolderFollows'
  <2>1. ~onChain => holder = "revoked" \/ \E i \in 1..Len(Tail(n)) : Tail(n)[i].k = "RevokeHolder"
    <3> SUFFICES ASSUME ~onChain, holder # "revoked" PROVE \E i \in 1..Len(Tail(n)) : Tail(n)[i].k = "RevokeHolder"
      OBVIOUS
    <3>1. PICK i \in 1..Len(n) : n[i].k = "RevokeHolder"
      BY <1>8 DEF StInv, HolderFollows
    <3>2. i # 1
      <4>1. Head(n).k # "RevokeHolder"
        BY <1>1, <1>4, <1>5, <1>6, <1>8 DEF StInv, HolderFollows, Store!Running
      <4> QED
        BY <1>7, <3>1, <4>1
    <3> QED
      BY <1>7, <3>1, <3>2
  <2> QED
    BY <1>1, <1>6, <1>8, <2>1, NothingToDo DEF HolderFollows, Store!Running
<1>11. PassesReconcile'
  <2>1. passed /\ ~stale => Reconciled(rec, {}, {}, TRUE)
    BY DEF StInv, PassesReconcile
  <2> QED
    BY <1>1, <1>6, <2>1, NothingToDo DEF PassesReconcile, Reconciled
<1>12. ASSUME faults = 0 PROVE HolderWithdrawn' /\ SelfBacked'
  <2>1. HolderWithdrawn /\ SelfBacked
    BY <1>12 DEF StInv
  <2>2. HolderWithdrawn'
    BY <1>1, <1>2, <1>4, <2>1, TurnWithdrawn
  <2>3. rec.self => rec.tag # 0
    BY <1>1, <1>4, <2>1, PublishedIsTagged
  <2>4. ASSUME rec.self PROVE Backed(rec.tag)'
    <3>1. Backed(rec.tag)
      BY <2>1, <2>3, <2>4 DEF SelfBacked
    <3>2. ASSUME NEW i \in 1..Len(n), n[i] = [k |-> "RevokeIssuer", x |-> rec.tag]
          PROVE  \E j \in 1..Len(Tail(n)) : Tail(n)[j] = [k |-> "RevokeIssuer", x |-> rec.tag]
      <4>1. i # 1
        <5>1. \A x : ~HasAt(q, "withdraw", x)
          <6>1. \A k, x : HasAt(q, k, x) => Has(q, k)
            BY DEF Has, HasAt
          <6> QED
            BY <1>5, <6>1
        <5>2. Head(n).k = "RevokeIssuer" => rec.tag # Head(n).x
          BY <1>1, <1>4, <1>6, <1>8, <2>1, <2>4, <5>1 DEF SelfBacked, Store!Running
        <5> QED
          BY <1>7, <3>2, <5>2
      <4> QED
        BY <1>7, <3>2, <4>1
    <3> QED
      BY <1>1, <1>8, <3>1, <3>2 DEF Backed
  <2>5. SelfBacked'
    BY <1>1, <1>6, <2>3, <2>4 DEF SelfBacked, Store!Running
  <2> QED
    BY <2>2, <2>5
<1>13. StoreTypes' /\ Served(rec)'
  BY <1>1, <1>2, <1>3, <1>7, <1>8 DEF StInv, StoreTypes, Served
<1> QED
  BY <1>1, <1>2, <1>9, <1>10, <1>11, <1>12, <1>13 DEF StInv

-----------------------------------------------------------------------------
\* The programs that begin.

\* A program begins when no other runs.
LEMMA Begun ==
  ASSUME StInv, NEW t \in Store!Threads, NEW p, Fresh(p), Store!Start(t, p),
         UNCHANGED <<rec, version, owned, issuer, issuers, onChain, storeNews, copy, bound, stale, passed, faults>>
  PROVE  /\ \A u \in Store!Threads : todo[u] = <<>> /\ copy[u] = Store!NoRec
         /\ todo' \in [Store!Threads -> Seq(StoreOps)] /\ todo'[t] = p
         /\ \A u \in Store!Threads : u # t => todo'[u] = <<>>
         /\ ProgramsInTurn' /\ Served(rec)' /\ CopiesFit' /\ PassesReconcile'
         /\ holder' \in {"offered", "completed", "revoked"} => StoreTypes'
<1>1. /\ \A u \in Store!Threads : todo[u] = <<>>
      /\ todo' = [todo EXCEPT ![t] = p]
  BY DEF Store!Start, Store!MayStart, Store!Running
<1>2. \A u \in Store!Threads : copy[u] = Store!NoRec
  BY <1>1, AllRest DEF StInv
<1>3. /\ todo' \in [Store!Threads -> Seq(StoreOps)] /\ todo'[t] = p
      /\ \A u \in Store!Threads : u # t => todo'[u] = <<>>
  BY <1>1 DEF StInv, StoreTypes, Fresh
<1>4. ProgramsInTurn'
  <2>1. \A u \in Store!Threads : ProgramFits(todo'[u])
    BY <1>3, NothingToDo DEF Fresh
  <2> QED
    BY <1>2, <1>3, <2>1 DEF ProgramsInTurn, Store!Running, Store!NoRec, Store!Empty
<1>5. CopiesFit'
  BY <1>2 DEF CopiesFit, Store!NoRec, Store!Empty
<1>6. PassesReconcile'
  <2>1. \A u \in Store!Threads : ~InPass(todo'[u])
    BY <1>3, NothingToDo DEF Fresh
  <2>2. passed /\ ~stale => Reconciled(rec, {}, {}, TRUE)
    BY DEF StInv, PassesReconcile
  <2> QED
    BY <2>1, <2>2 DEF PassesReconcile, Reconciled
<1>7. Served(rec)'
  BY DEF StInv, Served
<1>8. holder' \in {"offered", "completed", "revoked"} => StoreTypes'
  BY <1>3 DEF StInv, StoreTypes
<1> QED
  BY <1>1, <1>2, <1>3, <1>4, <1>5, <1>6, <1>7, <1>8

\* It leaves the self-issued credential backed.
LEMMA BegunBacked ==
  ASSUME StInv, SelfBacked, NEW t \in Store!Threads, NEW p, Fresh(p), todo'[t] = p,
         \A u \in Store!Threads : todo[u] = <<>>,
         \A u \in Store!Threads : u # t => todo'[u] = <<>>,
         UNCHANGED <<rec, issuer, storeNews>>,
         t = "notif" /\ Head(storeNews).k = "RevokeIssuer" =>
           HasAt(p, "withdraw", Head(storeNews).x) /\ ~Has(p, "tag")
  PROVE  SelfBacked'
<1>1. \A n : Backed(n)' <=> Backed(n)
  BY DEF Backed
<1>2. rec.self => rec.tag # 0 /\ Backed(rec.tag)
  BY DEF SelfBacked, Store!Running
<1>3. \A u \in Store!Threads : todo'[u] # <<>> => u = t
  OBVIOUS
<1>4. todo'["notif"] # <<>> => t = "notif"
  BY DEF Store!Threads
<1>5. Head(p).k \notin {"rebind", "publish", "tag"}
  BY DEF Fresh
<1> QED
  BY <1>1, <1>2, <1>3, <1>4, <1>5 DEF SelfBacked, Store!Running

\* dispatch: the handler of a notification.
LEMMA NotificationDispatched ==
  ASSUME StInv, Store!dispatch
  PROVE  StInv'
<1> DEFINE n == Head(storeNews)
           p == Append(Store!Handler(n), Store!Op("handled", 0))
<1>1. /\ storeNews # <<>> /\ Store!Start("notif", p)
      /\ UNCHANGED <<rec, version, owned, issuer, issuers, onChain, holder, storeNews, copy, bound, stale, passed,
                     faults>>
  BY DEF Store!dispatch, Store!chain, Store!ghost, Store!count
<1>2. n \in StoreNews /\ n = storeNews[1] /\ 1 \in 1..Len(storeNews)
  <2>1. storeNews \in Seq(StoreNews)
    BY DEF StInv, StoreTypes
  <2>2. Len(storeNews) \in Nat \ {0} /\ n = storeNews[1]
    BY <1>1, <2>1, HeadTailProperties, LenProperties, EmptySeq
  <2> QED
    BY <2>1, <2>2, ElementOfSeq
<1>3. HandlerFits(n, p)
  BY <1>2, HandlerProgram
<1>4. n = Head(storeNews)
  OBVIOUS
<1> HIDE DEF n, p
<1>5. Fresh(p) /\ "notif" \in Store!Threads
  BY <1>3 DEF HandlerFits, Store!Threads
<1>6. /\ \A u \in Store!Threads : todo[u] = <<>> /\ copy[u] = Store!NoRec
      /\ todo' \in [Store!Threads -> Seq(StoreOps)] /\ todo'["notif"] = p
      /\ \A u \in Store!Threads : u # "notif" => todo'[u] = <<>>
      /\ ProgramsInTurn' /\ Served(rec)' /\ CopiesFit' /\ PassesReconcile' /\ StoreTypes'
  <2>1. holder' \in {"offered", "completed", "revoked"}
    BY <1>1 DEF StInv, StoreTypes
  <2> QED
    BY <1>1, <1>5, <2>1, Begun
<1>7. NotificationInHand'
  <2>1. \A u \in Store!Threads, s \in Schemas : HasAt(todo'[u], "jsc", s) => version[s] # 0
    <3> SUFFICES ASSUME NEW u \in Store!Threads, NEW s \in Schemas, HasAt(todo'[u], "jsc", s)
                 PROVE  version[s] # 0
      OBVIOUS
    <3>1. u = "notif"
      BY <1>6, NothingToDo
    <3>2. n.k = "CreateNewCredentialSchema" /\ n.x = s
      BY <1>3, <1>6, <3>1 DEF HandlerFits
    <3> QED
      BY <1>2, <3>2 DEF StInv, NotificationInHand
  <2>2. \A u \in Store!Threads : Has(todo'[u], "handled") => u = "notif"
    BY <1>6, NothingToDo
  <2>3. Has(p, "handled")
    BY <1>3 DEF HandlerFits
  <2>4. \A i \in 1..Len(storeNews) :
         storeNews[i].k = "CreateNewCredentialSchema" => version[storeNews[i].x] # 0
    BY DEF StInv, NotificationInHand
  <2> QED
    BY <1>1, <1>6, <2>1, <2>2, <2>3, <2>4 DEF NotificationInHand
<1>8. HolderFollows'
  <2>1. \A u \in Store!Threads : ~Has(todo'[u], "vtc")
    BY <1>3, <1>6, NothingToDo DEF HandlerFits
  <2>2. n.k = "RevokeHolder" => Has(p, "revoked")
    BY <1>3 DEF HandlerFits
  <2>3. ~onChain => holder = "revoked" \/ \E i \in 1..Len(storeNews) : storeNews[i].k = "RevokeHolder"
    BY DEF StInv, HolderFollows
  <2> QED
    BY <1>1, <1>4, <1>6, <2>1, <2>2, <2>3 DEF HolderFollows
<1>9. ASSUME faults = 0 PROVE HolderWithdrawn' /\ SelfBacked'
  <2>1. HolderWithdrawn /\ SelfBacked
    BY <1>9 DEF StInv
  <2>2. HolderWithdrawn'
    <3>1. holder = "revoked" => ~rec.held
      BY <1>6, <2>1, NothingToDo DEF HolderWithdrawn
    <3>2. \A u \in Store!Threads : Has(todo'[u], "revoked") => Has(todo'[u], "remove")
      BY <1>3, <1>6, NothingToDo DEF HandlerFits
    <3> QED
      BY <1>1, <3>1, <3>2 DEF HolderWithdrawn
  <2>3. n.k = "RevokeIssuer" => HasAt(p, "withdraw", n.x) /\ ~Has(p, "tag")
    BY <1>3 DEF HandlerFits
  <2>4. SelfBacked'
    BY <1>1, <1>4, <1>5, <1>6, <2>1, <2>3, BegunBacked
  <2> QED
    BY <2>2, <2>4
<1> QED
  BY <1>1, <1>6, <1>7, <1>8, <1>9 DEF StInv

\* A program of one operation, by a flow or the administrator.
LEMMA OneBegun ==
  ASSUME StInv, NEW t \in Store!Threads, t # "notif", NEW o \in StoreOps, o.k \in {"vtc", "remove", "add", "delete"},
         Store!Start(t, <<o>>),
         UNCHANGED <<rec, version, owned, issuer, issuers, onChain, storeNews, copy, bound, stale, passed, faults>>,
         \/ o.k = "vtc" /\ holder = "offered" /\ holder' = "completed"
         \/ o.k = "remove" /\ holder = "completed" /\ holder' = "revoked"
         \/ o.k \in {"add", "delete"} /\ holder' = holder
  PROVE  StInv'
<1> DEFINE p == <<o>>
<1>1. Fresh(p) /\ \A k : Has(p, k) <=> k = o.k
  BY OneOperation
<1>2. Store!Start(t, p)
  OBVIOUS
<1> HIDE DEF p
<1>3. /\ \A u \in Store!Threads : todo[u] = <<>> /\ copy[u] = Store!NoRec
      /\ todo' \in [Store!Threads -> Seq(StoreOps)] /\ todo'[t] = p
      /\ \A u \in Store!Threads : u # t => todo'[u] = <<>>
      /\ ProgramsInTurn' /\ Served(rec)' /\ CopiesFit' /\ PassesReconcile' /\ StoreTypes'
  <2>1. holder' \in {"offered", "completed", "revoked"}
    BY DEF StInv, StoreTypes
  <2> QED
    BY <1>1, <1>2, <2>1, Begun
<1>4. /\ ~Has(p, "handled") /\ ~Has(p, "revoked") /\ ~Has(p, "jsc")
      /\ Has(p, "vtc") => o.k = "vtc"
      /\ o.k = "remove" => Has(p, "remove")
      /\ \A x : ~HasAt(p, "jsc", x)
  <2>1. \A q, k, x : HasAt(q, k, x) => Has(q, k)
    BY DEF Has, HasAt
  <2> QED
    BY <1>1, <2>1
<1>5. todo'["notif"] = <<>>
  BY <1>3 DEF Store!Threads
<1>6. NotificationInHand' /\ HolderFollows'
  <2>1. \A u \in Store!Threads : ~Has(todo'[u], "handled") /\ \A s \in Schemas : ~HasAt(todo'[u], "jsc", s)
    BY <1>3, <1>4, NothingToDo
  <2>2. \A i \in 1..Len(storeNews) :
         storeNews[i].k = "CreateNewCredentialSchema" => version[storeNews[i].x] # 0
    BY DEF StInv, NotificationInHand
  <2>3. \A u \in Store!Threads : Has(todo'[u], "vtc") => holder' = "completed"
    BY <1>3, <1>4, NothingToDo
  <2>4. ~onChain => holder = "revoked" \/ \E i \in 1..Len(storeNews) : storeNews[i].k = "RevokeHolder"
    BY DEF StInv, HolderFollows
  <2>5. NotificationInHand'
    BY <1>5, <2>1, <2>2 DEF NotificationInHand, Store!Running
  <2>6. HolderFollows'
    BY <1>5, <2>3, <2>4 DEF HolderFollows, Store!Running
  <2> QED
    BY <2>5, <2>6
<1>7. ASSUME faults = 0 PROVE HolderWithdrawn' /\ SelfBacked'
  <2>1. HolderWithdrawn /\ SelfBacked
    BY <1>7 DEF StInv
  <2>2. HolderWithdrawn'
    <3>1. holder = "revoked" => ~rec.held
      BY <1>3, <2>1, NothingToDo DEF HolderWithdrawn
    <3>2. \A u \in Store!Threads : ~Has(todo'[u], "revoked")
      BY <1>3, <1>4, NothingToDo
    <3>3. o.k = "remove" => Has(todo'[t], "remove")
      BY <1>3, <1>4
    <3> QED
      BY <3>1, <3>2, <3>3 DEF HolderWithdrawn
  <2>3. SelfBacked'
    BY <1>1, <1>3, <2>1, BegunBacked
  <2> QED
    BY <2>2, <2>3
<1> QED
  BY <1>3, <1>6, <1>7 DEF StInv

\* onCredentialCompleted, onCredentialRevoked and the Admin API.
LEMMA FlowOrAdminBegun ==
  ASSUME StInv,
         \/ Store!onCredentialCompleted \/ Store!onCredentialRevoked
         \/ \E e \in Endpoints : Store!editServiceEndpoints(e)
  PROVE  StInv'
<1>1. CASE Store!onCredentialCompleted
  <2> DEFINE o == Store!Op("vtc", 0)
  <2>1. /\ holder = "offered" /\ holder' = "completed" /\ Store!Start("flow", <<o>>)
        /\ UNCHANGED <<rec, version, owned, issuer, issuers, onChain, storeNews, copy, bound, stale, passed, faults>>
    BY <1>1 DEF Store!onCredentialCompleted, Store!chain, Store!ghost, Store!count
  <2>2. o \in StoreOps /\ o.k = "vtc" /\ "flow" \in Store!Threads
    BY OpsAre DEF Store!Threads
  <2> HIDE DEF o
  <2> QED
    BY <2>1, <2>2, OneBegun
<1>2. CASE Store!onCredentialRevoked
  <2> DEFINE o == Store!Op("remove", 0)
  <2>1. /\ holder = "completed" /\ holder' = "revoked" /\ Store!Start("flow", <<o>>)
        /\ UNCHANGED <<rec, version, owned, issuer, issuers, onChain, storeNews, copy, bound, stale, passed, faults>>
    BY <1>2 DEF Store!onCredentialRevoked, Store!chain, Store!ghost, Store!count
  <2>2. o \in StoreOps /\ o.k = "remove" /\ "flow" \in Store!Threads
    BY OpsAre DEF Store!Threads
  <2> HIDE DEF o
  <2> QED
    BY <2>1, <2>2, OneBegun
<1>3. ASSUME NEW e \in Endpoints, Store!editServiceEndpoints(e)
      PROVE  StInv'
  <2> DEFINE o == Store!Op(IF e \in rec.custom THEN "delete" ELSE "add", e)
  <2>1. /\ holder' = holder /\ Store!Start("admin", <<o>>)
        /\ UNCHANGED <<rec, version, owned, issuer, issuers, onChain, storeNews, copy, bound, stale, passed, faults>>
    BY <1>3 DEF Store!editServiceEndpoints, Store!chain, Store!ghost
  <2>2. o \in StoreOps /\ o.k \in {"add", "delete"} /\ "admin" \in Store!Threads
    BY OpsAre DEF Store!Threads
  <2> HIDE DEF o
  <2> QED
    BY <2>1, <2>2, OneBegun
<1> QED
  BY <1>1, <1>2, <1>3

-----------------------------------------------------------------------------
\* The chain, and a stop.

\* The chain moves on, and tells of it.
LEMMA ChainMoved ==
  ASSUME StInv, UNCHANGED <<rec, holder, todo, copy, bound, passed, faults>>, stale' = TRUE,
         version' \in [Schemas -> Nat], \A s \in Schemas : version[s] <= version'[s],
         owned' \in BOOLEAN, onChain' \in BOOLEAN,
         issuers' \in Nat, issuers <= issuers', issuer' \in 0..issuers',
         NEW m, storeNews' = m, m \in Seq(StoreNews),
         storeNews # <<>> => m # <<>> /\ Head(m) = Head(storeNews),
         \A i \in 1..Len(storeNews) : i \in 1..Len(m) /\ m[i] = storeNews[i],
         \A i \in 1..Len(m) : m[i].k = "CreateNewCredentialSchema" => version'[m[i].x] # 0,
         issuer # 0 => issuer' = issuer \/ \E i \in 1..Len(m) : m[i] = [k |-> "RevokeIssuer", x |-> issuer],
         ~onChain' => ~onChain \/ \E i \in 1..Len(m) : m[i].k = "RevokeHolder"
  PROVE  StInv'
<1>1. StoreTypes /\ ProgramsInTurn
  BY DEF StInv
<1>2. StoreTypes'
  <2>1. bound' \in [Store!Threads -> 0..issuers']
    BY <1>1 DEF StoreTypes
  <2> QED
    BY <1>1, <2>1 DEF StoreTypes
<1>3. ProgramsInTurn'
  BY <1>1 DEF ProgramsInTurn, Store!Running, Store!NoRec, Store!Empty
<1>4. NotificationInHand'
  <2>1. \A s \in Schemas : version[s] # 0 => version'[s] # 0
    BY <1>1 DEF StoreTypes
  <2>2. /\ \A t \in Store!Threads : Has(todo[t], "handled") => t = "notif"
        /\ todo["notif"] # <<>> => storeNews # <<>> /\ Has(todo["notif"], "handled")
        /\ \A t \in Store!Threads, s \in Schemas : HasAt(todo[t], "jsc", s) => version[s] # 0
    BY DEF StInv, NotificationInHand, Store!Running
  <2> QED
    BY <2>1, <2>2 DEF NotificationInHand, Store!Running
<1>5. ASSUME NEW r \in DidRecords, Served(r) PROVE Served(r)'
  <2>1. /\ \A s \in r.jscSvc : r.jsc[s] # 0
        /\ \A s \in Schemas : r.jsc[s] <= version[s] /\ r.jsc[s] \in Nat
        /\ r.tag \in 0..issuers
        /\ "holder" \in r.vtcSvc => r.held
        /\ "self" \in r.vtcSvc => r.self
        /\ r.tag # 0 => r.self
    BY <1>5 DEF Served, DidRecords
  <2>2. \A s \in Schemas : r.jsc[s] <= version'[s]
    BY <1>1, <2>1 DEF StoreTypes
  <2>3. r.tag \in 0..issuers'
    BY <1>1, <2>1 DEF StoreTypes
  <2> QED
    BY <2>1, <2>2, <2>3 DEF Served
<1>6. Served(rec)'
  <2>1. rec \in DidRecords /\ Served(rec)
    BY <1>1 DEF StInv, StoreTypes
  <2>2. \A r \in DidRecords : Served(r) =>
          /\ \A s \in r.jscSvc : r.jsc[s] # 0
          /\ \A s \in Schemas : r.jsc[s] <= version'[s]
          /\ r.tag \in 0..issuers'
          /\ "holder" \in r.vtcSvc => r.held
          /\ "self" \in r.vtcSvc => r.self
          /\ r.tag # 0 => r.self
    BY <1>5 DEF Served
  <2> QED
    BY <2>1, <2>2 DEF Served
<1>7. CopiesFit'
  <2> SUFFICES ASSUME NEW t \in Store!Threads, copy[t] # Store!NoRec
               PROVE  Served(copy[t])' /\ CopyKeeps(t)'
    BY DEF CopiesFit, Store!NoRec, Store!Empty
  <2>1. Served(copy[t]) /\ CopyKeeps(t) /\ copy[t] \in DidRecords
    BY <1>1 DEF StInv, CopiesFit, StoreTypes
  <2>2. \A r \in DidRecords : Served(r) =>
          /\ \A s \in r.jscSvc : r.jsc[s] # 0
          /\ \A s \in Schemas : r.jsc[s] <= version'[s]
          /\ r.tag \in 0..issuers'
          /\ "holder" \in r.vtcSvc => r.held
          /\ "self" \in r.vtcSvc => r.self
          /\ r.tag # 0 => r.self
    BY <1>5 DEF Served
  <2>3. Served(copy[t])'
    BY <2>1, <2>2 DEF Served
  <2>4. CopyKeeps(t)'
    BY <2>1 DEF CopyKeeps
  <2> QED
    BY <2>3, <2>4
<1>8. PassesReconcile'
  BY DEF StInv, PassesReconcile
<1>9. HolderFollows'
  <2>1. \A t \in Store!Threads : Has(todo[t], "vtc") => holder = "completed"
    BY DEF StInv, HolderFollows
  <2>2. ~onChain' => holder = "revoked" \/ \E i \in 1..Len(m) : m[i].k = "RevokeHolder"
    <3>1. ~onChain => holder = "revoked" \/ \E i \in 1..Len(storeNews) : storeNews[i].k = "RevokeHolder"
      BY DEF StInv, HolderFollows
    <3> QED
      BY <3>1
  <2>3. todo["notif"] # <<>> /\ Head(m).k = "RevokeHolder" => holder = "revoked" \/ Has(todo["notif"], "revoked")
    BY DEF StInv, HolderFollows, NotificationInHand, Store!Running
  <2> QED
    BY <2>1, <2>2, <2>3 DEF HolderFollows, Store!Running
<1>10. ASSUME faults = 0 PROVE HolderWithdrawn' /\ SelfBacked'
  <2>1. HolderWithdrawn /\ SelfBacked
    BY <1>10 DEF StInv
  <2>2. HolderWithdrawn'
    BY <2>1 DEF HolderWithdrawn
  <2>3. ASSUME NEW n, Backed(n)
        PROVE  n # 0 /\ (n = issuer' \/ \E i \in 1..Len(m) : m[i] = [k |-> "RevokeIssuer", x |-> n])
    BY <2>3 DEF Backed
  <2>4. todo["notif"] # <<>> /\ Head(m).k = "RevokeIssuer" =>
          /\ ~Has(todo["notif"], "tag")
          /\ HasAt(todo["notif"], "withdraw", Head(m).x) \/ ~rec.self \/ rec.tag # Head(m).x
    BY <2>1 DEF SelfBacked, StInv, NotificationInHand, Store!Running
  <2>5. /\ rec.self /\ rec.tag # 0 => Backed(rec.tag)
        /\ rec.self /\ rec.tag = 0 =>
             \E t \in Store!Threads : todo[t] # <<>> /\ Head(todo[t]).k = "tag" /\ bound[t] # 0
        /\ \A t \in Store!Threads :
             /\ todo[t] # <<>>
             /\ \/ Head(todo[t]).k \in {"publish", "tag"}
                \/ Head(todo[t]).k = "rebind" /\ copy[t] # Store!NoRec
             => bound[t] = 0 \/ Backed(bound[t])
    BY <2>1 DEF SelfBacked, Store!Running
  <2>6. Store!NoRec' = Store!NoRec
    BY DEF Store!NoRec, Store!Empty
  <2>7. (rec.self /\ rec.tag # 0 => Backed(rec.tag))'
    BY <2>3, <2>5 DEF Backed
  <2>8. ASSUME NEW t \in Store!Threads, todo[t] # <<>>,
               \/ Head(todo[t]).k \in {"publish", "tag"}
               \/ Head(todo[t]).k = "rebind" /\ copy[t] # Store!NoRec
        PROVE  bound[t] = 0 \/ Backed(bound[t])'
    BY <2>3, <2>5, <2>8 DEF Backed
  <2>9. SelfBacked'
    BY <2>4, <2>5, <2>6, <2>7, <2>8 DEF SelfBacked, Store!Running
  <2> QED
    BY <2>2, <2>9
<1> QED
  BY <1>2, <1>3, <1>4, <1>6, <1>7, <1>8, <1>9, <1>10 DEF StInv

\* One more notification.
LEMMA OneNotified ==
  ASSUME NEW n \in StoreNews, storeNews \in Seq(StoreNews)
  PROVE  LET m == Append(storeNews, n) IN
         /\ m \in Seq(StoreNews) /\ m # <<>>
         /\ storeNews # <<>> => Head(m) = Head(storeNews)
         /\ \A i \in 1..Len(storeNews) : i \in 1..Len(m) /\ m[i] = storeNews[i]
         /\ \A i \in 1..Len(m) : m[i] = n \/ (i \in 1..Len(storeNews) /\ m[i] = storeNews[i])
         /\ \E i \in 1..Len(m) : m[i] = n
<1> DEFINE m == Append(storeNews, n)
<1>1. /\ m \in Seq(StoreNews) /\ Len(m) = Len(storeNews) + 1 /\ Len(storeNews) \in Nat
      /\ m[Len(storeNews) + 1] = n
      /\ \A i \in 1..Len(storeNews) : m[i] = storeNews[i]
  BY AppendProperties, LenProperties
<1> HIDE DEF m
<1>2. m # <<>> /\ Head(m) = m[1]
  BY <1>1, HeadTailProperties, EmptySeq
<1>3. storeNews # <<>> => Head(m) = Head(storeNews)
  <2> SUFFICES ASSUME storeNews # <<>> PROVE Head(m) = Head(storeNews)
    OBVIOUS
  <2>1. Head(storeNews) = storeNews[1] /\ Len(storeNews) \in Nat \ {0}
    BY HeadTailProperties, EmptySeq, LenProperties
  <2>2. 1 \in 1..Len(storeNews)
    BY <2>1
  <2> QED
    BY <1>1, <1>2, <2>1, <2>2
<1>4. \A i \in 1..Len(storeNews) : i \in 1..Len(m) /\ m[i] = storeNews[i]
  BY <1>1
<1>5. \A i \in 1..Len(m) : m[i] = n \/ (i \in 1..Len(storeNews) /\ m[i] = storeNews[i])
  BY <1>1
<1>6. \E i \in 1..Len(m) : m[i] = n
  <2>1. Len(storeNews) + 1 \in 1..Len(m)
    BY <1>1
  <2> QED
    BY <1>1, <2>1
<1> QED
  BY <1>1, <1>2, <1>3, <1>4, <1>5, <1>6 DEF m

\* A change without a notification, or with one.
LEMMA ChainChanged ==
  ASSUME StInv, NEW k, NEW x, Store!Change(k, x), k # "none" => Store!Op(k, x) \in StoreNews,
         version' \in [Schemas -> Nat], \A s \in Schemas : version[s] <= version'[s],
         owned' \in BOOLEAN, onChain' \in BOOLEAN,
         issuers' \in Nat, issuers <= issuers', issuer' \in 0..issuers',
         k = "CreateNewCredentialSchema" => version'[x] # 0,
         issuer # 0 => issuer' = issuer \/ (k = "RevokeIssuer" /\ x = issuer),
         ~onChain' => ~onChain \/ k = "RevokeHolder"
  PROVE  StInv'
<1>1. /\ UNCHANGED <<rec, holder, todo, copy, bound, passed, faults>> /\ stale' = TRUE
      /\ storeNews' = IF k = "none" THEN storeNews ELSE Append(storeNews, Store!Op(k, x))
  BY DEF Store!Change
<1>2. /\ storeNews \in Seq(StoreNews) /\ version \in [Schemas -> Nat]
      /\ \A i \in 1..Len(storeNews) :
           storeNews[i].k = "CreateNewCredentialSchema" => version[storeNews[i].x] # 0 /\ storeNews[i].x \in Schemas
  <2>1. storeNews \in Seq(StoreNews) /\ version \in [Schemas -> Nat]
    BY DEF StInv, StoreTypes
  <2>2. \A i \in 1..Len(storeNews) : storeNews[i] \in StoreNews
    BY <2>1, ElementOfSeq
  <2>3. \A n \in StoreNews : n.k = "CreateNewCredentialSchema" => n.x \in Schemas
    BY DEF StoreNews
  <2> QED
    BY <2>1, <2>2, <2>3 DEF StInv, NotificationInHand
<1>3. \A i \in 1..Len(storeNews) : storeNews[i].k = "CreateNewCredentialSchema" => version'[storeNews[i].x] # 0
  <2>1. \A s \in Schemas : version[s] # 0 => version'[s] # 0
    BY <1>2
  <2> QED
    BY <1>2, <2>1
<1>4. CASE k = "none"
  <2> DEFINE m == storeNews
  <2>1. /\ storeNews' = m /\ m \in Seq(StoreNews)
        /\ storeNews # <<>> => m # <<>> /\ Head(m) = Head(storeNews)
        /\ \A i \in 1..Len(storeNews) : i \in 1..Len(m) /\ m[i] = storeNews[i]
        /\ \A i \in 1..Len(m) : m[i].k = "CreateNewCredentialSchema" => version'[m[i].x] # 0
        /\ issuer # 0 => issuer' = issuer
        /\ ~onChain' => ~onChain
    BY <1>1, <1>2, <1>3, <1>4
  <2> HIDE DEF m
  <2> QED
    BY <1>1, <2>1, ChainMoved
<1>5. CASE k # "none"
  <2> DEFINE n == Store!Op(k, x)
             m == Append(storeNews, n)
  <2>1. n = [k |-> k, x |-> x] /\ n \in StoreNews /\ n.k = k /\ n.x = x
    BY <1>5 DEF Store!Op
  <2>2. storeNews' = m
    BY <1>1, <1>5
  <2> HIDE DEF n
  <2>3. /\ m \in Seq(StoreNews) /\ m # <<>>
        /\ storeNews # <<>> => Head(m) = Head(storeNews)
        /\ \A i \in 1..Len(storeNews) : i \in 1..Len(m) /\ m[i] = storeNews[i]
        /\ \A i \in 1..Len(m) : m[i] = n \/ (i \in 1..Len(storeNews) /\ m[i] = storeNews[i])
        /\ \E i \in 1..Len(m) : m[i] = n
    BY <1>2, <2>1, OneNotified
  <2> HIDE DEF m
  <2>4. \A i \in 1..Len(m) : m[i].k = "CreateNewCredentialSchema" => version'[m[i].x] # 0
    BY <1>3, <2>1, <2>3
  <2>5. issuer # 0 => issuer' = issuer \/ \E i \in 1..Len(m) : m[i] = [k |-> "RevokeIssuer", x |-> issuer]
    BY <2>1, <2>3
  <2>6. ~onChain' => ~onChain \/ \E i \in 1..Len(m) : m[i].k = "RevokeHolder"
    BY <2>1, <2>3
  <2> QED
    BY <1>1, <2>2, <2>3, <2>4, <2>5, <2>6, ChainMoved
<1> QED
  BY <1>4, <1>5

\* The changes on the chain.
LEMMA StoreChainStep ==
  ASSUME StInv,
         \/ \E s \in Schemas : Store!createSchema(s) \/ Store!updateSchema(s)
         \/ Store!transferEcosystem \/ Store!validateIssuer \/ Store!revokeIssuer \/ Store!revokeHolder
  PROVE  StInv'
<1>0. /\ version \in [Schemas -> Nat] /\ owned \in BOOLEAN /\ onChain \in BOOLEAN
      /\ issuers \in Nat /\ issuer \in 0..issuers
  BY DEF StInv, StoreTypes
<1>1. \A s \in Schemas : version[s] <= version[s]
  BY <1>0
<1>2. ASSUME NEW s \in Schemas, Store!createSchema(s) PROVE StInv'
  <2>1. /\ Store!Change("CreateNewCredentialSchema", s) /\ version' = [version EXCEPT ![s] = 1]
        /\ UNCHANGED <<owned, issuer, issuers, onChain>> /\ version[s] = 0
    BY <1>2 DEF Store!createSchema
  <2>2. Store!Op("CreateNewCredentialSchema", s) \in StoreNews
    BY DEF Store!Op, StoreNews
  <2>3. /\ version' \in [Schemas -> Nat] /\ version'[s] # 0 /\ \A u \in Schemas : version[u] <= version'[u]
    BY <1>0, <2>1
  <2> QED
    BY <1>0, <2>1, <2>2, <2>3, ChainChanged
<1>3. ASSUME NEW s \in Schemas, Store!updateSchema(s) PROVE StInv'
  <2>1. /\ Store!Change("none", 0) /\ version' = [version EXCEPT ![s] = @ + 1]
        /\ UNCHANGED <<owned, issuer, issuers, onChain>>
    BY <1>3 DEF Store!updateSchema
  <2>2. /\ version' \in [Schemas -> Nat] /\ \A u \in Schemas : version[u] <= version'[u]
    BY <1>0, <2>1
  <2> QED
    BY <1>0, <2>1, <2>2, ChainChanged
<1>4. CASE Store!transferEcosystem
  <2>1. /\ Store!Change("none", 0) /\ owned' = ~owned /\ UNCHANGED <<version, issuer, issuers, onChain>>
    BY <1>4 DEF Store!transferEcosystem
  <2>2. owned' \in BOOLEAN
    BY <2>1
  <2> QED
    BY <1>0, <1>1, <2>1, <2>2, ChainChanged
<1>5. CASE Store!validateIssuer
  <2>1. /\ Store!Change("SetParticipantOPToValidated", 0) /\ issuer = 0 /\ issuers' = issuers + 1
        /\ issuer' = issuers + 1 /\ UNCHANGED <<version, owned, onChain>>
    BY <1>5 DEF Store!validateIssuer
  <2>2. Store!Op("SetParticipantOPToValidated", 0) \in StoreNews
    BY DEF Store!Op, StoreNews
  <2>3. issuers' \in Nat /\ issuers <= issuers' /\ issuer' \in 0..issuers'
    BY <1>0, <2>1
  <2> QED
    BY <1>0, <1>1, <2>1, <2>2, <2>3, ChainChanged
<1>6. CASE Store!revokeIssuer
  <2>1. /\ Store!Change("RevokeIssuer", issuer) /\ issuer # 0 /\ issuer' = 0
        /\ UNCHANGED <<version, owned, issuers, onChain>>
    BY <1>6 DEF Store!revokeIssuer
  <2>2. Store!Op("RevokeIssuer", issuer) \in StoreNews
    BY <1>0, <2>1 DEF Store!Op, StoreNews
  <2>3. issuer' \in 0..issuers' /\ issuers' \in Nat /\ issuers <= issuers'
    BY <1>0, <2>1
  <2> QED
    BY <1>0, <1>1, <2>1, <2>2, <2>3, ChainChanged
<1>7. CASE Store!revokeHolder
  <2>1. /\ Store!Change("RevokeHolder", 0) /\ onChain' = FALSE /\ UNCHANGED <<version, owned, issuer, issuers>>
    BY <1>7 DEF Store!revokeHolder
  <2>2. Store!Op("RevokeHolder", 0) \in StoreNews
    BY DEF Store!Op, StoreNews
  <2>3. onChain' \in BOOLEAN
    BY <2>1
  <2> QED
    BY <1>0, <1>1, <2>1, <2>2, <2>3, ChainChanged
<1> QED
  BY <1>2, <1>3, <1>4, <1>5, <1>6, <1>7

\* A crash loses the programs; the next start reconciles.
LEMMA StoreCrash ==
  ASSUME StInv, Store!crash
  PROVE  StInv'
<1>1. /\ copy' = [t \in Store!Threads |-> Store!NoRec] /\ bound' = [t \in Store!Threads |-> 0]
      /\ todo' = [t \in Store!Threads |-> IF t = "startup" THEN Store!ReconcilePass ELSE <<>>]
      /\ stale' = TRUE /\ passed' = FALSE /\ faults' = faults + 1
      /\ UNCHANGED <<rec, version, owned, issuer, issuers, onChain, holder, storeNews>>
  BY DEF Store!crash, Store!chain
<1>2. /\ Fresh(Store!ReconcilePass)
      /\ \A k : Has(Store!ReconcilePass, k) =>
           k \in {"pass", "each", "detach", "withdraw", "rebind", "tag", "passed"}
  BY PassProgram
<1> DEFINE p == Store!ReconcilePass
<1>3. /\ \A t \in Store!Threads : (todo'[t] = p /\ t = "startup") \/ todo'[t] = <<>>
      /\ todo'["notif"] = <<>>
      /\ \A t \in Store!Threads : copy'[t] = Store!NoRec
  BY <1>1 DEF Store!Threads
<1> HIDE DEF p
<1>4. /\ ~Has(p, "handled") /\ ~Has(p, "vtc") /\ ~Has(p, "jsc")
      /\ \A x : ~HasAt(p, "jsc", x)
  <2>1. \A q, k, x : HasAt(q, k, x) => Has(q, k)
    BY DEF Has, HasAt
  <2> QED
    BY <1>2, <2>1 DEF p
<1>5. StoreTypes'
  <2>1. Store!NoRec \in DidRecords
    BY DEF Store!NoRec, Store!Empty, DidRecords
  <2>2. todo' \in [Store!Threads -> Seq(StoreOps)]
    BY <1>1, <1>2 DEF Fresh
  <2>3. faults' \in Nat /\ stale' \in BOOLEAN /\ passed' \in BOOLEAN
    <3>1. faults' \in Nat
      BY <1>1 DEF StInv, StoreTypes
    <3>2. stale' \in BOOLEAN /\ passed' \in BOOLEAN
      BY <1>1
    <3> QED
      BY <3>1, <3>2
  <2>4. copy' \in [Store!Threads -> DidRecords] /\ bound' \in [Store!Threads -> 0..issuers]
    BY <1>1, <2>1 DEF StInv, StoreTypes
  <2> QED
    BY <1>1, <2>2, <2>3, <2>4 DEF StInv, StoreTypes
<1>6. ProgramsInTurn'
  <2>1. \A t \in Store!Threads : ProgramFits(todo'[t])
    BY <1>2, <1>3, NothingToDo DEF Fresh, p
  <2> QED
    BY <1>3, <2>1 DEF ProgramsInTurn, Store!Running, Store!NoRec, Store!Empty
<1>7. NotificationInHand'
  <2>1. \A t \in Store!Threads : ~Has(todo'[t], "handled") /\ \A s \in Schemas : ~HasAt(todo'[t], "jsc", s)
    BY <1>3, <1>4, NothingToDo
  <2>2. \A i \in 1..Len(storeNews) :
         storeNews[i].k = "CreateNewCredentialSchema" => version[storeNews[i].x] # 0
    BY DEF StInv, NotificationInHand
  <2> QED
    BY <1>1, <1>3, <2>1, <2>2 DEF NotificationInHand, Store!Running
<1>8. HolderFollows'
  <2>1. \A t \in Store!Threads : ~Has(todo'[t], "vtc")
    BY <1>3, <1>4, NothingToDo
  <2>2. ~onChain => holder = "revoked" \/ \E i \in 1..Len(storeNews) : storeNews[i].k = "RevokeHolder"
    BY DEF StInv, HolderFollows
  <2> QED
    BY <1>1, <1>3, <2>1, <2>2 DEF HolderFollows, Store!Running
<1>9. CopiesFit'
  BY <1>3 DEF CopiesFit, Store!NoRec, Store!Empty
<1>10. PassesReconcile' /\ Served(rec)'
  BY <1>1 DEF StInv, PassesReconcile, Served
<1>11. faults' # 0
  BY <1>1 DEF StInv, StoreTypes
<1> QED
  BY <1>5, <1>6, <1>7, <1>8, <1>9, <1>10, <1>11 DEF StInv

\* An agent that starts for the first time.
LEMMA StoreBegins ==
  ASSUME Store!Init
  PROVE  StInv
<1>1. /\ rec = Store!Empty /\ copy = [t \in Store!Threads |-> Store!NoRec]
      /\ bound = [t \in Store!Threads |-> 0]
      /\ version \in [Schemas -> {0, 1}] /\ owned \in BOOLEAN /\ issuer \in {0, 1} /\ issuers = issuer
      /\ holder = "offered" /\ onChain = TRUE /\ storeNews = <<>>
      /\ todo = [t \in Store!Threads |-> IF t = "startup" THEN Store!ReconcilePass ELSE <<>>]
      /\ stale = FALSE /\ passed = FALSE /\ faults = 0
  BY DEF Store!Init
<1>2. /\ Fresh(Store!ReconcilePass)
      /\ \A k : Has(Store!ReconcilePass, k) =>
           k \in {"pass", "each", "detach", "withdraw", "rebind", "tag", "passed"}
  BY PassProgram
<1>3. /\ Store!Empty \in DidRecords /\ Store!NoRec \in DidRecords
      /\ Store!Empty.jsc = [s \in Schemas |-> 0] /\ Store!Empty.jscSvc = {} /\ Store!Empty.vtcSvc = {}
      /\ Store!Empty.tag = 0 /\ Store!Empty.held = FALSE /\ Store!Empty.self = FALSE
  BY DEF Store!NoRec, Store!Empty, DidRecords
<1> DEFINE p == Store!ReconcilePass
<1>4. /\ \A t \in Store!Threads : (todo[t] = p /\ t = "startup") \/ todo[t] = <<>>
      /\ todo["notif"] = <<>>
      /\ \A t \in Store!Threads : copy[t] = Store!NoRec
  BY <1>1 DEF Store!Threads
<1> HIDE DEF p
<1>5. /\ ~Has(p, "handled") /\ ~Has(p, "vtc") /\ ~Has(p, "jsc") /\ ~Has(p, "revoked") /\ ~InPass(p)
      /\ \A x : ~HasAt(p, "jsc", x)
  <2>1. \A q, k, x : HasAt(q, k, x) => Has(q, k)
    BY DEF Has, HasAt
  <2>2. ~InPass(p)
    BY <1>2 DEF Fresh, p
  <2> QED
    BY <1>2, <2>1, <2>2 DEF p
<1>6. StoreTypes
  <2>1. todo \in [Store!Threads -> Seq(StoreOps)]
    BY <1>1, <1>2 DEF Fresh
  <2>2. copy \in [Store!Threads -> DidRecords] /\ bound \in [Store!Threads -> 0..issuers] /\ rec \in DidRecords
    BY <1>1, <1>3
  <2>3. version \in [Schemas -> Nat] /\ issuers \in Nat /\ issuer \in 0..issuers /\ faults \in Nat
    BY <1>1
  <2>4. storeNews \in Seq(StoreNews)
    BY <1>1
  <2>5. owned \in BOOLEAN /\ onChain \in BOOLEAN /\ stale \in BOOLEAN /\ passed \in BOOLEAN
    BY <1>1
  <2> QED
    BY <1>1, <2>1, <2>2, <2>3, <2>4, <2>5 DEF StoreTypes
<1>7. ProgramsInTurn
  <2>1. \A t \in Store!Threads : ProgramFits(todo[t])
    BY <1>2, <1>4, NothingToDo DEF Fresh, p
  <2> QED
    BY <1>4, <2>1 DEF ProgramsInTurn, Store!Running
<1>8. \A t \in Store!Threads :
        /\ ~Has(todo[t], "handled") /\ ~Has(todo[t], "vtc") /\ ~Has(todo[t], "revoked") /\ ~InPass(todo[t])
        /\ \A s \in Schemas : ~HasAt(todo[t], "jsc", s)
  BY <1>4, <1>5, NothingToDo
<1>9. NotificationInHand
  <2>1. \A i \in 1..Len(storeNews) : FALSE
    BY <1>1
  <2> QED
    BY <1>4, <1>8, <2>1 DEF NotificationInHand, Store!Running
<1>10. HolderFollows
  BY <1>1, <1>4, <1>8 DEF HolderFollows, Store!Running
<1>11. CopiesFit /\ PassesReconcile
  BY <1>1, <1>4, <1>8 DEF CopiesFit, PassesReconcile
<1>12. Served(rec)
  BY <1>1, <1>3 DEF Served
<1>13. HolderWithdrawn /\ SelfBacked
  <2>1. HolderWithdrawn
    BY <1>1, <1>8 DEF HolderWithdrawn
  <2>2. \A t \in Store!Threads : todo[t] # <<>> => Head(todo[t]).k \notin {"publish", "tag", "rebind"}
    BY <1>2, <1>4 DEF Fresh, p
  <2>3. SelfBacked
    BY <1>1, <1>3, <1>4, <2>2 DEF SelfBacked, Store!Running
  <2> QED
    BY <2>1, <2>3
<1> QED
  BY <1>6, <1>7, <1>9, <1>10, <1>11, <1>12, <1>13 DEF StInv

\* A step that leaves what StInv is about.
LEMMA StoreQuiet ==
  ASSUME StInv,
         UNCHANGED <<rec, version, owned, issuer, issuers, onChain, holder, storeNews, todo, copy, bound,
                     stale, passed, faults>>
  PROVE  StInv'
<1>1. StoreTypes' /\ Served(rec)'
  BY DEF StInv, StoreTypes, Served
<1>2. ProgramsInTurn' /\ NotificationInHand' /\ HolderFollows' /\ PassesReconcile'
  <2>1. ProgramsInTurn' /\ NotificationInHand'
    BY DEF StInv, ProgramsInTurn, NotificationInHand, Store!Running
  <2>2. HolderFollows'
    BY DEF StInv, HolderFollows, Store!Running
  <2>3. PassesReconcile'
    BY DEF StInv, PassesReconcile, Reconciled
  <2> QED
    BY <2>1, <2>2, <2>3
<1>3. CopiesFit'
  <2>1. \A t \in Store!Threads : Result(t)' = Result(t)
    BY DEF Result, Outcome, Store!Apply, Store!publishSelfIssuedEcsPresentation, Store!syncSchema,
           Store!saveJsc, Store!saveTypeMetadata, Store!detachVtjscPublications,
           Store!withdrawSelfIssuedEcsCredentials, Store!tagIssuer
  <2>2. \A t \in Store!Threads : copy[t] # Store!NoRec => Served(copy[t])' /\ CopyKeeps(t)'
    BY DEF StInv, CopiesFit, Served, CopyKeeps
  <2> QED
    BY <2>1, <2>2 DEF StInv, CopiesFit
<1>4. faults' = 0 => HolderWithdrawn' /\ SelfBacked'
  BY DEF StInv, HolderWithdrawn, SelfBacked, Backed, Store!Running
<1> QED
  BY <1>1, <1>2, <1>3, <1>4 DEF StInv

\* A step of the agent, of the chain or of the administrator keeps StInv.
LEMMA StoreNext == StInv /\ [Store!Next]_(Store!vars) => StInv'
<1> SUFFICES ASSUME StInv, [Store!Next]_(Store!vars) PROVE StInv'
  OBVIOUS
<1>1. ASSUME NEW t \in Store!Threads, Store!ThreadStep(t) PROVE StInv'
  <2>1. CASE Store!operationFails(t)
    BY <2>1, GivenUp DEF Store!operationFails
  <2>2. CASE Store!anchorRefused(t)
    BY <2>2, GivenUp DEF Store!anchorRefused
  <2>3. CASE Store!readRecord(t) \/ Store!anchorCredentialDigest(t) \/ Store!updateDidRecord(t)
    BY <2>3, RecordRead, DigestAnchored, RecordWritten
  <2>4. CASE \/ Store!beginPass(t) \/ Store!nextSchema(t) \/ Store!endPass(t)
             \/ Store!flowRevoked(t) \/ Store!notificationHandled(t)
    BY <2>4, PassBegun, SchemaTaken, PassEnded, FlowRevoked, NotificationHandled
  <2> QED
    BY <1>1, <2>1, <2>2, <2>3, <2>4 DEF Store!ThreadStep
<1>2. CASE Store!sendTrigger
  <2>1. UNCHANGED <<rec, version, owned, issuer, issuers, onChain, holder, storeNews, todo, copy, bound,
                    stale, passed, faults>>
    BY <1>2 DEF Store!sendTrigger, Store!chain, Store!ghost, Store!count
  <2> QED
    BY <2>1, StoreQuiet
<1>3. CASE Store!dispatch
  BY <1>3, NotificationDispatched
<1>4. CASE \/ Store!onCredentialCompleted \/ Store!onCredentialRevoked
           \/ \E e \in Endpoints : Store!editServiceEndpoints(e)
  BY <1>4, FlowOrAdminBegun
<1>5. CASE \/ \E s \in Schemas : Store!createSchema(s) \/ Store!updateSchema(s)
           \/ Store!transferEcosystem \/ Store!validateIssuer \/ Store!revokeIssuer \/ Store!revokeHolder
  BY <1>5, StoreChainStep
<1>6. CASE Store!crash
  BY <1>6, StoreCrash
<1>7. CASE UNCHANGED Store!vars
  <2>1. UNCHANGED <<rec, version, owned, issuer, issuers, onChain, holder, storeNews, todo, copy, bound,
                    stale, passed, faults>>
    BY <1>7 DEF Store!vars, Store!chain, Store!ghost, Store!count
  <2> QED
    BY <2>1, StoreQuiet
<1> QED
  BY <1>1, <1>2, <1>3, <1>4, <1>5, <1>6, <1>7 DEF Store!Next

\* What StInv says of the published material.
LEMMA StInvSound == StInv => PublishedIsBacked
<1> SUFFICES ASSUME StInv PROVE PublishedIsBacked
  OBVIOUS
<1>1. Store!TypeOK
  BY DEF StInv, StoreTypes, DidRecords, Served, Store!TypeOK
<1>2. Store!AnnouncedIsServed
  BY DEF StInv, Served, Store!AnnouncedIsServed
<1>3. Store!PassPublishes
  <2> SUFFICES ASSUME passed, ~stale
               PROVE  /\ rec.jscSvc = IF owned THEN {s \in Schemas : version[s] # 0} ELSE {}
                      /\ \A s \in rec.jscSvc : rec.jsc[s] = version[s] /\ rec.tm[s] # 0
    BY DEF Store!PassPublishes
  <2>1. /\ \A s \in Schemas : owned /\ version[s] # 0 =>
             rec.jsc[s] = version[s] /\ s \in rec.jscSvc /\ rec.tm[s] # 0
        /\ owned \/ rec.jscSvc = {}
    BY DEF StInv, PassesReconcile, Reconciled
  <2>2. /\ rec.jscSvc \subseteq Schemas /\ version \in [Schemas -> Nat] /\ rec.jsc \in [Schemas -> Nat]
        /\ \A s \in rec.jscSvc : rec.jsc[s] # 0
        /\ \A s \in Schemas : rec.jsc[s] <= version[s]
    BY DEF StInv, StoreTypes, DidRecords, Served
  <2>3. \A s \in rec.jscSvc : version[s] # 0
    BY <2>2
  <2> QED
    BY <2>1, <2>2, <2>3
<1>4. ASSUME Store!Quiet, faults = 0 PROVE Store!RevokedHolderWithdrawn /\ Store!SelfIssuedIsBacked
  <2>1. /\ \A t \in Store!Threads : todo[t] = <<>> /\ \A k : ~Has(todo[t], k)
        /\ \A i \in 1..Len(storeNews) : FALSE
    BY <1>4, NothingToDo DEF Store!Quiet, Store!Running
  <2>2. ~onChain => ~rec.held
    BY <1>4, <2>1 DEF StInv, HolderFollows, HolderWithdrawn
  <2>3. rec.self => issuer # 0 /\ rec.tag = issuer
    BY <1>4, <2>1 DEF StInv, SelfBacked, Backed, Store!Running
  <2> QED
    BY <2>2, <2>3 DEF Store!RevokedHolderWithdrawn, Store!SelfIssuedIsBacked
<1> QED
  BY <1>1, <1>2, <1>3, <1>4
     DEF PublishedIsBacked, Store!RevokedHolderWithdrawn, Store!SelfIssuedIsBacked

\* trustCredentialStore and reconcileVtjscPublications: while the writers of
\* the DID record run one at a time, the document announces only what is
\* served, and a pass that nothing disturbed leaves it as the chain says; until
\* the process stops or an operation fails, the credential of a revoked HOLDER
\* is gone, and the self-issued one is backed by the active ISSUER, whenever
\* the agent has handled all there is.
THEOREM PublishedIsSound == Store!Spec => []PublishedIsBacked
  BY StoreBegins, StoreNext, StInvSound, PTL DEF Store!Spec
=============================================================================
