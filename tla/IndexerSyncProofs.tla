------------------------- MODULE IndexerSyncProofs -------------------------
(***************************************************************************)
(* Proofs about IndexerSync, for every chain, page limit and buffer size.  *)
(***************************************************************************)
EXTENDS IndexerSync, SequenceTheorems, FiniteSetTheorems, WellFoundedInduction, TLAPS

\* A nonempty set of heights has a greatest member (the reduce of
\* nextRestCursor).
LEMMA GreatestHeight ==
    ASSUME NEW S \in SUBSET (0..MaxBlock), S # {}
    PROVE  \E b \in S : \A c \in S : c <= b
<1> DEFINE U == 0..MaxBlock
           Above(b) == {k \in U : k > b}
           F == {Above(b) : b \in S}
           R == StrictSubsetOrdering(U)
<1>1. MaxBlock \in Nat
  BY ConstantsAssumption
<1>2. IsFiniteSet(U)
  BY <1>1, FS_Interval
<1>3. \A T \in SUBSET U : IsFiniteSet(T)
  BY <1>2, FS_Subset
<1>4. F \subseteq FiniteSubsetsOf(U)
  BY <1>3 DEF FiniteSubsetsOf
<1>5. F # {}
  OBVIOUS
<1>6. IsWellFoundedOn(R, FiniteSubsetsOf(U))
  BY FS_StrictSubsetOrderingWellFounded
<1> HIDE DEF F, R
<1>7. \E x \in F : \A y \in F : ~(<<y, x>> \in R)
  BY <1>4, <1>5, <1>6, WFMin
<1> USE DEF F
<1>8. PICK b \in S : \A y \in F : ~(<<y, Above(b)>> \in R)
  BY <1>7
<1>9. ASSUME NEW c \in S, c > b PROVE FALSE
  <2>1. Above(c) \subseteq Above(b) /\ c \in Above(b) /\ c \notin Above(c)
    BY <1>1, <1>9
  <2>2. <<Above(c), Above(b)>> \in R
    BY <2>1 DEF R, StrictSubsetOrdering
  <2> QED
    BY <2>2, <1>8
<1> QED
  BY <1>1, <1>9

\* What the assumptions say of events and bounds; sets of events are finite.
LEMMA EventFacts ==
    /\ Processable \subseteq Events
    /\ \A e \in Events : e.block_height \in 1..MaxBlock /\ e.index \in Nat
    /\ MaxBlock \in Nat /\ PageLimit \in Nat \ {0} /\ MaxSyncBuffer \in Nat
    /\ MaxFaults \in Nat
    /\ \A S : S \subseteq Events => IsFiniteSet(S) /\ Cardinality(S) \in Nat
<1>1. \A S : S \subseteq Events => IsFiniteSet(S) /\ Cardinality(S) \in Nat
  BY EventsAssumption, FS_Subset, FS_CardinalityType
<1> QED
  BY <1>1, EventsAssumption, ConstantsAssumption DEF Processable

\* The heights of the events the agent processes are naturals up to MaxBlock.
LEMMA Heights ==
    \A e \in Processable : e.block_height \in 1..MaxBlock /\ e.block_height \in Nat
BY EventFacts

\* What nextRestCursor returns for a page read after the cursor.
LEMMA NextCursor ==
    ASSUME NEW P \in SUBSET Events, NEW c \in 0..MaxBlock,
           \A e \in P : c < e.block_height
    PROVE  LET n == nextRestCursor(P, c) IN
           /\ n \in [done : BOOLEAN, cursor : 0..MaxBlock]
           /\ n.done <=> Cardinality(P) < PageLimit
           /\ ~n.done => \E e \in P :
                /\ \A f \in P : f.block_height <= e.block_height
                /\ n.cursor = IF e.block_height - 1 > c
                              THEN e.block_height - 1 ELSE e.block_height
<1> DEFINE H == {c} \cup {e.block_height : e \in P}
           Top(b) == \A e \in P : e.block_height <= b /\ c <= b
           m == CHOOSE b \in H : Top(b)
<1>1. H \in SUBSET (0..MaxBlock) /\ H # {}
  BY EventFacts
<1>2. \E b \in H : \A d \in H : d <= b
  BY <1>1, GreatestHeight
<1>3. \E b \in H : Top(b)
  BY <1>2
<1>4. m \in H /\ Top(m)
  BY <1>3
<1>5. m \in 0..MaxBlock
  BY <1>4, <1>1
<1>6. Cardinality(P) \in Nat
  BY EventFacts
<1>7. nextRestCursor(P, c) =
        IF Cardinality(P) < PageLimit THEN [done |-> TRUE, cursor |-> c]
        ELSE IF m - 1 > c THEN [done |-> FALSE, cursor |-> m - 1]
             ELSE [done |-> FALSE, cursor |-> m]
  BY DEF nextRestCursor
<1> HIDE DEF m
<1>8. CASE Cardinality(P) < PageLimit
  BY <1>7, <1>8
<1>9. CASE ~(Cardinality(P) < PageLimit)
  <2>1. P # {}
    BY <1>9, FS_EmptySet, EventFacts
  <2>2. PICK e \in P : e.block_height = m
    BY <2>1, <1>4, EventFacts
  <2>3. m \in 1..MaxBlock
    BY <2>2, EventFacts
  <2> HIDE DEF H
  <2>4. \A f \in P : f.block_height <= e.block_height
    BY <2>2, <1>4
  <2>5. nextRestCursor(P, c) = [done |-> FALSE, cursor |-> IF m - 1 > c THEN m - 1 ELSE m]
    BY <1>7, <1>9
  <2> QED
    BY <2>2, <2>3, <2>4, <2>5, <1>9, EventFacts
<1> QED
  BY <1>8, <1>9

\* An order of some events is a sequence of exactly those events.
LEMMA OrderSeq ==
    ASSUME NEW S \in SUBSET Processable, NEW s \in Orders(S)
    PROVE  /\ s \in Seq(Processable) /\ Len(s) = Cardinality(S)
           /\ \A i \in 1..Len(s) : s[i] \in S
           /\ \A e \in S : \E i \in 1..Len(s) : s[i] = e
<1>1. Cardinality(S) \in Nat
  BY EventFacts
<1>2. s \in [1..Cardinality(S) -> S]
  BY DEF Orders
<1>3. s \in Seq(Processable) /\ Len(s) = Cardinality(S)
  BY <1>1, <1>2
<1> QED
  BY <1>1, <1>2, <1>3 DEF Orders

\* sortEventsByPosition returns a sequence of exactly the events it is given.
LEMMA SortedSeq ==
    ASSUME NEW S \in SUBSET Processable, NEW s \in sortEventsByPosition(S)
    PROVE  /\ s \in Seq(Processable)
           /\ \A i \in 1..Len(s) : s[i] \in S
           /\ \A e \in S : \E i \in 1..Len(s) : s[i] = e
           /\ \A i, j \in 1..Len(s) : i < j => Before(s[i], s[j])
<1>1. /\ s \in Orders(S)
      /\ \A i, j \in 1..Cardinality(S) : i < j => Before(s[i], s[j])
  BY DEF sortEventsByPosition
<1> QED
  BY <1>1, OrderSeq
-----------------------------------------------------------------------------
Waiting == [Idle EXCEPT !.at = "waiting"]

\* The initial record, call and items have their types (emptyState, Idle).
LEMMA InitialValues ==
    /\ Idle \in Syncs
    /\ Waiting \in Syncs
    /\ emptyState \in SyncStates
    /\ <<>> \in Seq(Processable)
    /\ <<>> \in Seq(Items)
    /\ NoEvent \notin Calls
<1>1. NoEvent \notin Calls
  BY DEF NoEvent, Calls
<1>2. Idle \in Syncs
  BY ConstantsAssumption DEF Idle, NoNext, Syncs
<1>3. Waiting \in Syncs
  BY <1>2 DEF Syncs, Waiting
<1>4. emptyState \in SyncStates
  BY ConstantsAssumption DEF emptyState, SyncStates
<1>5. <<>> \in Seq(Processable) /\ <<>> \in Seq(Items)
  BY EmptySeq
<1> QED
  BY <1>1, <1>2, <1>3, <1>4, <1>5

\* The service starts with every variable in its type.
LEMMA TypeInit == Init => TypeOK
<1> SUFFICES ASSUME Init PROVE TypeOK
  OBVIOUS
<1>1. /\ timer \in BOOLEAN /\ stopped \in BOOLEAN /\ syncing \in BOOLEAN
      /\ everSynced \in BOOLEAN /\ accepting \in BOOLEAN
  BY Zenon DEF Init
<1> QED
  BY <1>1, InitialValues, ConstantsAssumption DEF Init, TypeOK

\* The items that a block message queues are well formed (enqueueLive).
LEMMA LiveItemsType ==
    ASSUME NEW s \in Seq(Processable), generation \in Nat
    PROVE  /\ LiveItems(s) \in Seq(Items)
           /\ Len(LiveItems(s)) = Len(s)
           /\ \A i \in 1..Len(s) :
                LiveItems(s)[i].ev = s[i] /\ LiveItems(s)[i].gen = generation
<1>1. LiveItems(s) \in Seq(Items) /\ Len(LiveItems(s)) = Len(s)
  BY DEF LiveItems, Item, Items
<1>2. ASSUME NEW i \in 1..Len(s)
      PROVE  LiveItems(s)[i].ev = s[i] /\ LiveItems(s)[i].gen = generation
  <2>1. LiveItems(s)[i] = [ev |-> s[i], gen |-> generation, rest |-> FALSE]
    BY DEF LiveItems, Item
  <2> QED
    BY <2>1
<1> QED
  BY <1>1, <1>2

\* forceReconnect keeps every variable in its type.
LEMMA ReconnectType ==
    ASSUME TypeOK, forceReconnect
    PROVE  /\ phase' \in {"connecting", "catching-up", "synced"}
           /\ generation' \in Nat
           /\ ws' \in {"null", "open", "closed"}
           /\ timer' \in BOOLEAN
           /\ link' \in {"none", "ready", "subscribe", "active", "live"}
           /\ sync' \in Syncs
<1>1. timer' \in BOOLEAN
  BY Zenon DEF TypeOK, forceReconnect
<1> QED
  BY <1>1, InitialValues DEF TypeOK, forceReconnect

\* The updates that connect makes to its own progress keep its type.
LEMMA SyncUpdates ==
    ASSUME NEW y \in Syncs
    PROVE  /\ \A a \in {"idle", "waiting", "load", "page", "loop", "await"} :
                [y EXCEPT !.at = a] \in Syncs
           /\ \A c \in 0..MaxBlock : [y EXCEPT !.at = "page", !.cursor = c] \in Syncs
           /\ \A P \in SUBSET Processable :
                \A n \in [done : BOOLEAN, cursor : 0..MaxBlock] :
                   [y EXCEPT !.at = "loop", !.todo = P, !.next = n] \in Syncs
           /\ \A e : [y EXCEPT !.at = "await", !.todo = @ \ {e}] \in Syncs
           /\ [y EXCEPT !.at = "page", !.cursor = y.next.cursor, !.next = NoNext] \in Syncs
           /\ y.cursor \in 0..MaxBlock /\ y.todo \subseteq Processable
           /\ y.next.cursor \in 0..MaxBlock /\ y.next.done \in BOOLEAN
<1> USE ConstantsAssumption DEF Syncs, NoNext
<1>1. \A a \in {"idle", "waiting", "load", "page", "loop", "await"} :
        [y EXCEPT !.at = a] \in Syncs
  OBVIOUS
<1>2. \A c \in 0..MaxBlock : [y EXCEPT !.at = "page", !.cursor = c] \in Syncs
  OBVIOUS
<1>3. \A P \in SUBSET Processable :
        \A n \in [done : BOOLEAN, cursor : 0..MaxBlock] :
            [y EXCEPT !.at = "loop", !.todo = P, !.next = n] \in Syncs
  OBVIOUS
<1>4. \A e : [y EXCEPT !.at = "await", !.todo = @ \ {e}] \in Syncs
  OBVIOUS
<1>5. y.cursor \in 0..MaxBlock /\ y.todo \subseteq Processable
  OBVIOUS
<1>6. y.next.cursor \in 0..MaxBlock /\ y.next.done \in BOOLEAN
  OBVIOUS
<1>7. [done |-> FALSE, cursor |-> 0] \in [done : BOOLEAN, cursor : 0..MaxBlock]
  OBVIOUS
<1>8. [y EXCEPT !.at = "page", !.cursor = y.next.cursor, !.next = NoNext] \in Syncs
  BY <1>6, <1>7
<1> QED
  BY <1>1, <1>2, <1>3, <1>4, <1>5, <1>6, <1>8

\* What the progress of connect holds.
LEMMA SyncFields ==
    ASSUME TypeOK
    PROVE  /\ sync.cursor \in 0..MaxBlock /\ sync.cursor \in Nat
           /\ sync.todo \subseteq Processable
           /\ sync.next.cursor \in 0..MaxBlock /\ sync.next.cursor \in Nat
           /\ sync.next.done \in BOOLEAN
<1>1. sync \in Syncs
  BY DEF TypeOK
<1>2. /\ sync.cursor \in 0..MaxBlock /\ sync.todo \subseteq Processable
      /\ sync.next.cursor \in 0..MaxBlock /\ sync.next.done \in BOOLEAN
  BY <1>1, SyncUpdates
<1> QED
  BY <1>2, ConstantsAssumption

\* What the running call of applyEvent holds.
LEMMA CallFacts ==
    ASSUME TypeOK
    PROVE  /\ cur.step \in {"fetch", "handle", "save"} => cur \in Calls
           /\ cur # NoEvent => cur \in Calls
           /\ cur \in Calls => /\ cur # NoEvent
                              /\ cur.step \in {"fetch", "handle", "save"}
                              /\ cur.item \in Items /\ cur.item.ev \in Processable
                              /\ cur.item.gen \in Nat
                              /\ cur.item.ev.block_height \in 1..MaxBlock
                              /\ [cur EXCEPT !.step = "handle"] \in Calls
                              /\ [cur EXCEPT !.step = "save"] \in Calls
           /\ Unrecorded \subseteq Processable
BY EventFacts DEF TypeOK, Calls, NoEvent, Items, Unrecorded

\* The buffered events are events of the chain.
LEMMA BufferSet ==
    ASSUME TypeOK
    PROVE  {buffer[i] : i \in 1..Len(buffer)} \in SUBSET Processable
BY DEF TypeOK

\* The events of a block message are ones the agent processes (handleBlock).
LEMMA SortedBlock ==
    ASSUME NEW b
    PROVE  AtBlock(b) \cap Processable \in SUBSET Processable
OBVIOUS

\* Every step keeps every variable in its type.
LEMMA TypeNext == TypeOK /\ [Next]_vars => TypeOK'
<1> SUFFICES ASSUME TypeOK, [Next]_vars PROVE TypeOK'
  OBVIOUS
<1> USE ConstantsAssumption
<1>1. CASE Land
  BY <1>1 DEF TypeOK, Land, linkVars, history
<1>2. CASE connect
  <2>1. sync' \in Syncs
    BY <1>2, InitialValues DEF connect, Waiting
  <2>2. /\ timer' \in BOOLEAN /\ stopped' \in BOOLEAN /\ syncing' \in BOOLEAN
        /\ everSynced' \in BOOLEAN /\ accepting' \in BOOLEAN
    BY <1>2, Zenon DEF TypeOK, connect
  <2>3. /\ generation' \in Nat /\ phase' = "connecting" /\ buffer' = <<>>
        /\ ws' = "open" /\ link' = "ready"
    BY <1>2 DEF TypeOK, connect
  <2>4. UNCHANGED <<head, from, nextBlock, queue, cur, store, handled, redone,
                    interrupted, faults>>
    BY <1>2 DEF connect, history
  <2> QED
    BY <2>1, <2>2, <2>3, <2>4, InitialValues DEF TypeOK
<1>3. CASE Activate
  BY <1>3 DEF TypeOK, Activate, history
<1>4. CASE subscribeTimeout
  <2>1. sync' \in Syncs /\ phase' = "catching-up"
    BY <1>4, SyncUpdates DEF TypeOK, subscribeTimeout, startCatchUp
  <2> QED
    BY <1>4, <2>1 DEF TypeOK, subscribeTimeout, linkVars, history
<1>5. CASE acceptDidComm
  BY <1>5 DEF TypeOK, acceptDidComm, linkVars, history
<1>6. CASE handleReady
  BY <1>6 DEF TypeOK, handleReady, history
<1>7. CASE handleSubscribed
  BY <1>7, SyncUpdates DEF TypeOK, handleSubscribed, startCatchUp, history
<1>8. CASE handleBlock
  <2>1. PICK s \in Orders(AtBlock(nextBlock) \cap Processable) :
        \/ /\ ~syncing
           /\ queue' = queue \o LiveItems(s)
           /\ UNCHANGED <<phase, generation, ws, timer, link, sync, buffer>>
        \/ /\ syncing
           /\ Len(buffer) + Len(s) <= MaxSyncBuffer
           /\ buffer' = buffer \o s
           /\ UNCHANGED <<phase, generation, ws, timer, link, sync, queue>>
        \/ /\ syncing
           /\ Len(buffer) + Len(s) > MaxSyncBuffer
           /\ buffer' = buffer \o SubSeq(s, 1, MaxSyncBuffer - Len(buffer))
           /\ forceReconnect
           /\ UNCHANGED queue
    BY <1>8 DEF handleBlock
  <2>2. s \in Seq(Processable)
    BY OrderSeq
  <2>3. nextBlock' \in 1..(MaxBlock + 1)
    BY <1>8 DEF handleBlock, TypeOK
  <2>4. UNCHANGED <<head, from, stopped, syncing, everSynced, cur, store,
                    accepting, history, faults>>
    BY <1>8 DEF handleBlock
  <2>5. CASE ~syncing /\ queue' = queue \o LiveItems(s)
             /\ UNCHANGED <<phase, generation, ws, timer, link, sync, buffer>>
    <3>1. queue' \in Seq(Items)
      BY <2>2, <2>5, LiveItemsType, ConcatProperties DEF TypeOK
    <3> QED
      BY <2>3, <2>4, <2>5, <3>1 DEF TypeOK, history
  <2>6. CASE buffer' = buffer \o s
             /\ UNCHANGED <<phase, generation, ws, timer, link, sync, queue>>
    <3>1. buffer' \in Seq(Processable)
      BY <2>2, <2>6, ConcatProperties DEF TypeOK
    <3> QED
      BY <2>3, <2>4, <2>6, <3>1 DEF TypeOK, history
  <2>7. CASE /\ Len(buffer) + Len(s) > MaxSyncBuffer
             /\ buffer' = buffer \o SubSeq(s, 1, MaxSyncBuffer - Len(buffer))
             /\ forceReconnect
             /\ UNCHANGED queue
    <3>1. Len(buffer) \in Nat /\ Len(s) \in Nat
      BY <2>2 DEF TypeOK
    <3>2. \A i \in 1..(MaxSyncBuffer - Len(buffer)) : s[i] \in Processable
      BY <2>2, <2>7, <3>1
    <3>3. SubSeq(s, 1, MaxSyncBuffer - Len(buffer)) \in Seq(Processable)
      BY <3>1, <3>2, SubSeqProperties
    <3>4. buffer' \in Seq(Processable)
      BY <2>7, <3>3, ConcatProperties DEF TypeOK
    <3> QED
      BY <2>3, <2>4, <2>7, <3>4, ReconnectType DEF TypeOK, history
  <2> QED
    BY <2>1, <2>5, <2>6, <2>7
<1>9. CASE loadCursor
  <2>1. sync' \in Syncs
    BY <1>9, SyncUpdates DEF TypeOK, loadCursor, SyncStates
  <2> QED
    BY <1>9, <2>1 DEF TypeOK, loadCursor, linkVars, history
<1>10. CASE getEvents
  <2>1. PICK P \in Pages(sync.cursor) :
          sync' = [sync EXCEPT !.at = "loop",
                               !.todo = P \cap Processable,
                               !.next = nextRestCursor(P, sync.cursor)]
    BY <1>10 DEF getEvents
  <2>2. P \in SUBSET Events /\ \A e \in P : sync.cursor < e.block_height
    BY DEF Pages
  <2>3. sync.cursor \in 0..MaxBlock
    BY SyncUpdates DEF TypeOK
  <2>4. nextRestCursor(P, sync.cursor) \in [done : BOOLEAN, cursor : 0..MaxBlock]
    BY <2>2, <2>3, NextCursor
  <2>5. sync' \in Syncs
    BY <2>1, <2>4, SyncUpdates DEF TypeOK
  <2> QED
    BY <1>10, <2>5 DEF TypeOK, getEvents, linkVars, history
<1>11. CASE queueNext
  <2>1. PICK e \in sync.todo :
        /\ queue' = Append(queue, Item(e, TRUE))
        /\ sync' = [sync EXCEPT !.at = "await", !.todo = @ \ {e}]
    BY <1>11 DEF queueNext
  <2>2. Item(e, TRUE) \in Items
    BY SyncUpdates DEF Item, Items, TypeOK
  <2>3. queue' \in Seq(Items)
    BY <2>1, <2>2, AppendProperties DEF TypeOK
  <2>4. sync' \in Syncs
    BY <2>1, SyncUpdates DEF TypeOK
  <2>5. UNCHANGED <<head, link, from, nextBlock, ws, timer, stopped, syncing, phase, everSynced,
                    generation, buffer, cur, store, accepting, handled, redone, interrupted, faults>>
    BY <1>11 DEF queueNext, linkVars, history
  <2> QED
    BY <2>3, <2>4, <2>5 DEF TypeOK
<1>12. CASE nextPage
  <2>1. sync' \in Syncs
    BY <1>12, SyncUpdates DEF TypeOK, nextPage
  <2> QED
    BY <1>12, <2>1 DEF TypeOK, nextPage, linkVars, history
<1>13. CASE goLive
  <2>1. PICK s \in sortEventsByPosition({buffer[i] : i \in 1..Len(buffer)}) :
          queue' = queue \o LiveItems(s)
    BY <1>13 DEF goLive
  <2>2. s \in Seq(Processable)
    BY BufferSet, SortedSeq
  <2>3. queue' \in Seq(Items)
    BY <2>1, <2>2, LiveItemsType, ConcatProperties DEF TypeOK
  <2> QED
    BY <1>13, <2>3, InitialValues DEF TypeOK, goLive, linkVars, history
<1>14. CASE takeEvent
  <2>1. Head(queue) \in Items /\ Tail(queue) \in Seq(Items)
    BY <1>14, HeadTailProperties DEF takeEvent, TypeOK
  <2>2. sync' \in Syncs
    BY <1>14, SyncUpdates DEF takeEvent, Resume, TypeOK
  <2>3. cur' \in {NoEvent} \cup Calls
    BY <1>14, <2>1 DEF takeEvent, Calls
  <2> QED
    BY <1>14, <2>1, <2>2, <2>3 DEF TypeOK, takeEvent, linkVars, history
<1>15. CASE fetchActivity
  <2>1. sync' \in Syncs
    BY <1>15, SyncUpdates DEF fetchActivity, Resume, TypeOK
  <2>2. cur' \in {NoEvent} \cup Calls
    BY <1>15, CallFacts DEF fetchActivity
  <2> QED
    BY <1>15, <2>1, <2>2 DEF TypeOK, fetchActivity, linkVars, history
<1>16. CASE applyChanges
  <2>1. cur' \in Calls /\ cur.item.ev \in Processable
    BY <1>16, CallFacts DEF applyChanges
  <2> QED
    BY <1>16, <2>1 DEF TypeOK, applyChanges, linkVars, history
<1>17. CASE saveSyncState
  <2>1. cur.item.ev \in Processable
    BY <1>17, CallFacts DEF saveSyncState
  <2>2. store' \in SyncStates
    <3>1. store' = Recorded(store, cur.item.ev) /\ store \in SyncStates
      BY <1>17 DEF saveSyncState, TypeOK
    <3>2. cur.item.ev.block_height \in 1..MaxBlock
      BY <2>1, Heights
    <3> QED
      BY <2>1, <3>1, <3>2 DEF Recorded, SyncStates
  <2>3. sync' \in Syncs
    BY <1>17, SyncUpdates DEF saveSyncState, Resume, TypeOK
  <2> QED
    BY <1>17, <2>2, <2>3 DEF TypeOK, saveSyncState, linkVars, history
<1>18. CASE socketClose
  BY <1>18, InitialValues DEF TypeOK, socketClose, Fault, history
<1>19. CASE watchdogFires
  BY <1>19, ReconnectType DEF TypeOK, watchdogFires, Fault, history
<1>20. CASE catchUpFails
  BY <1>20, ReconnectType DEF TypeOK, catchUpFails, Fault, history
<1>21. CASE applyFails
  <2>1. Unrecorded \subseteq Processable
    BY CallFacts
  <2>2. CASE cur.item.gen = generation
    BY <1>21, <2>1, <2>2, ReconnectType DEF TypeOK, applyFails, Fault
  <2>3. CASE cur.item.gen # generation
    BY <1>21, <2>1, <2>3 DEF TypeOK, applyFails, Fault
  <2> QED
    BY <2>2, <2>3
<1>22. CASE stop
  <2>1. /\ timer' \in BOOLEAN /\ stopped' \in BOOLEAN /\ syncing' \in BOOLEAN
        /\ everSynced' \in BOOLEAN /\ accepting' \in BOOLEAN
    BY <1>22, Zenon DEF TypeOK, stop
  <2> QED
    BY <1>22, <2>1, InitialValues DEF TypeOK, stop, Fault, history
<1>23. CASE crashAndRestart
  <2>1. Unrecorded \subseteq Processable
    BY CallFacts
  <2>2. /\ timer' \in BOOLEAN /\ stopped' \in BOOLEAN /\ syncing' \in BOOLEAN
        /\ everSynced' \in BOOLEAN /\ accepting' \in BOOLEAN
    BY <1>23, Zenon DEF crashAndRestart
  <2> QED
    BY <1>23, <2>1, <2>2, InitialValues DEF TypeOK, crashAndRestart, Fault
<1>24. CASE UNCHANGED vars
  BY <1>24 DEF TypeOK, vars, linkVars, history
<1> QED
  BY <1>1, <1>2, <1>3, <1>4, <1>5, <1>6, <1>7, <1>8, <1>9, <1>10, <1>11, <1>12,
     <1>13, <1>14, <1>15, <1>16, <1>17, <1>18, <1>19, <1>20, <1>21, <1>22, <1>23,
     <1>24 DEF Next, SocketStep, SyncStep, ApplyStep, FaultStep

\* Type correctness of the whole service: cursors, heights, queue entries and
\* the persisted record stay in their domains in every reachable state.
THEOREM TypeCorrect == Spec => []TypeOK
BY TypeInit, TypeNext, PTL DEF Spec

-----------------------------------------------------------------------------
\* No event is lost.  First the facts about the queue and the store.

\* What the head and the tail of the queue hold (runExclusive).
LEMMA QueueFacts ==
    ASSUME TypeOK
    PROVE  /\ Len(queue) \in Nat
           /\ \A i \in 1..Len(queue) :
                /\ queue[i] \in Items /\ queue[i].ev \in Processable
                /\ queue[i].gen \in Nat
                /\ queue[i].ev.block_height \in 1..MaxBlock
<1>1. queue \in Seq(Items)
  BY DEF TypeOK
<1>2. Len(queue) \in Nat /\ \A i \in 1..Len(queue) : queue[i] \in Items
  BY <1>1, ElementOfSeq, LenProperties
<1>3. \A x \in Items : x.ev \in Processable /\ x.gen \in Nat
  BY DEF Items
<1> QED
  BY <1>2, <1>3, Heights

\* An event that applyEvent skips as already applied has been handled.
LEMMA AppliedIsHandled ==
    ASSUME InvStore, NEW e \in Processable, AlreadyApplied(e)
    PROVE  e \in handled
BY DEF InvStore, NoEventLost, AlreadyApplied

\* A step that changes neither the queue nor what applies it.
Quiet == UNCHANGED <<stopped, generation, queue, cur, store, handled>>

\* A step that leaves queue, call and store alone keeps what they say.
LEMMA QuietKeeps ==
    ASSUME Quiet
    PROVE  /\ \A f : Pending(f)' <=> Pending(f)
           /\ InvStore => InvStore'
<1>1. \A f : Pending(f)' <=> Pending(f)
  BY DEF Quiet, Pending, Queued, Applying
<1>2. InvStore => InvStore'
  BY DEF Quiet, InvStore, NoEventLost
<1> QED
  BY <1>1, <1>2

\* Such a step keeps the invariants of the queue.
LEMMA QuietQueue ==
    ASSUME TypeOK, IndInv, Quiet, head' \in Nat, head <= head'
    PROVE  InvStore' /\ InvCur' /\ InvQueue'
<1>1. InvStore'
  BY QuietKeeps DEF IndInv
<1>2. InvCur'
  <2>1. head \in Nat /\ InvCur
    BY EventFacts DEF TypeOK, IndInv
  <2>2. \A e : Safe(e)' <=> Safe(e)
    BY DEF Quiet, Safe
  <2>3. \A x : Stale(x)' <=> Stale(x)
    BY DEF Quiet, Stale
  <2>4. cur # NoEvent => cur.item.ev.block_height \in Nat
    BY CallFacts, EventFacts
  <2>5. cur # NoEvent => cur.item.ev.block_height <= head'
    BY <2>1, <2>4 DEF InvCur
  <2> QED
    BY <2>1, <2>2, <2>3, <2>5 DEF InvCur, Quiet
<1>3. InvQueue'
  <2> SUFFICES ASSUME NEW i \in 1..Len(queue)
               PROVE  /\ queue[i].gen <= generation
                      /\ queue[i].ev.block_height <= head'
                      /\ ~Stale(queue[i]) =>
                          \A f \in Processable : f.block_height < queue[i].ev.block_height =>
                              \/ f \in handled
                              \/ Applying(f)
                              \/ \E j \in 1..(i - 1) : queue[j].gen = generation /\ queue[j].ev = f
    BY DEF InvQueue, Quiet, Stale, Applying
  <2>1. queue[i].ev.block_height <= head /\ queue[i].ev.block_height \in Nat
    BY QueueFacts DEF IndInv, InvQueue
  <2>2. queue[i].ev.block_height <= head'
    <3>1. head \in Nat
      BY EventFacts DEF TypeOK
    <3> QED
      BY <2>1, <3>1
  <2> QED
    BY <2>2 DEF IndInv, InvQueue
<1> QED
  BY <1>1, <1>2, <1>3

\* forceReconnect makes everything queued stale, so nothing can be recorded
\* past an event that failed.
LEMMA ReconnectKeeps ==
    ASSUME TypeOK, IndInv, ~stopped, forceReconnect,
           UNCHANGED <<head, from, stopped, queue, store, handled>>,
           nextBlock' \in Nat, nextBlock <= nextBlock',
           cur' = cur \/ cur' = NoEvent
    PROVE  IndInv'
<1>1. /\ generation' = generation + 1 /\ ws' = "null" /\ link' = "none"
      /\ sync' = Idle /\ sync'.at = "idle" /\ ~stopped'
  BY DEF forceReconnect, Idle
<1>2. InvStore'
  BY DEF IndInv, InvStore, NoEventLost
<1>3. InvCur'
  <2> SUFFICES ASSUME cur' # NoEvent, cur' = cur
               PROVE  /\ cur.item.gen <= generation'
                      /\ cur.item.ev.block_height <= head
                      /\ cur.step # "fetch" \/ ~Stale(cur.item)' => Safe(cur.item.ev)
                      /\ cur.step = "save" => cur.item.ev \in handled
    BY DEF InvCur, Safe
  <2>1. cur.item.gen \in Nat /\ cur.item.gen <= generation /\ generation \in Nat
    BY CallFacts DEF IndInv, InvCur, TypeOK
  <2>2. Stale(cur.item)'
    BY <1>1, <2>1 DEF Stale
  <2> QED
    BY <1>1, <2>1, <2>2 DEF IndInv, InvCur
<1>4. InvQueue'
  <2> SUFFICES ASSUME NEW i \in 1..Len(queue)
               PROVE  /\ queue[i].gen <= generation'
                      /\ queue[i].ev.block_height <= head
                      /\ Stale(queue[i])'
    BY DEF InvQueue, Stale
  <2>1. queue[i].gen \in Nat /\ queue[i].gen <= generation /\ generation \in Nat
    BY QueueFacts DEF IndInv, InvQueue, TypeOK
  <2> QED
    BY <1>1, <2>1 DEF Stale, IndInv, InvQueue
<1>5. InvRest' /\ InvBuffer' /\ LiveCoversDelivered'
  BY <1>1 DEF InvRest, InvBuffer, LiveCoversDelivered, InSync
<1>6. InvLink'
  BY <1>1 DEF InvLink, InSync, IndInv, TypeOK
<1> QED
  BY <1>2, <1>3, <1>4, <1>5, <1>6 DEF IndInv

\* The inductive invariant holds when the process starts.
LEMMA InvInit == Init => IndInv
<1> SUFFICES ASSUME Init PROVE IndInv
  OBVIOUS
<1>1. sync.at = "idle" /\ cur = NoEvent /\ queue = <<>> /\ Len(queue) = 0
  BY EmptySeq DEF Init, Idle
<1>2. InvStore
  BY EventFacts DEF Init, InvStore, NoEventLost, emptyState
<1>3. InvCur /\ InvQueue /\ InvRest /\ InvBuffer /\ LiveCoversDelivered
  BY <1>1 DEF Init, InvCur, InvQueue, InvRest, InvBuffer, LiveCoversDelivered, InSync
<1>4. InvLink
  BY <1>1 DEF Init, InvLink, InSync
<1> QED
  BY <1>2, <1>3, <1>4 DEF IndInv

\* The steps that leave the queue alone.
LEMMA QuietSteps ==
    ASSUME TypeOK, TypeOK', IndInv, ~SubscribeMayTimeOut,
           \/ Land \/ Activate \/ handleReady \/ handleSubscribed
           \/ loadCursor \/ socketClose \/ acceptDidComm \/ subscribeTimeout
           \/ nextPage
    PROVE  IndInv'
<1>1. Quiet /\ head' \in Nat /\ head \in Nat /\ head <= head'
  <2>1. head \in Nat
    BY EventFacts DEF TypeOK
  <2>2. CASE Land
    BY <2>1, <2>2 DEF Land, Quiet, history
  <2>3. CASE ~Land
    BY <2>1, <2>3 DEF Quiet, Activate, handleReady, handleSubscribed,
       loadCursor, socketClose, acceptDidComm, subscribeTimeout, nextPage, history
  <2> QED
    BY <2>2, <2>3
<1>2. InvStore' /\ InvCur' /\ InvQueue'
  BY <1>1, QuietQueue
<1>3. \A f : Pending(f)' <=> Pending(f)
  BY <1>1, QuietKeeps
<1>4. /\ handled' = handled /\ store' = store /\ stopped' = stopped
      /\ buffer' = buffer /\ syncing' = syncing
  BY <1>1 DEF Quiet, Land, Activate, handleReady, handleSubscribed,
     loadCursor, socketClose, acceptDidComm, subscribeTimeout, nextPage
<1>5. IndInv => InvRest /\ InvLink /\ InvBuffer /\ LiveCoversDelivered /\ InvStore
  BY DEF IndInv
<1>6. LiveCoversDelivered <=>
        ((~stopped /\ ~syncing /\ ws = "open" /\ link = "live") =>
            \A f \in Processable : f.block_height < nextBlock => Pending(f))
  BY DEF LiveCoversDelivered, Pending
<1>7. LiveCoversDelivered' <=>
        ((~stopped' /\ ~syncing' /\ ws' = "open" /\ link' = "live") =>
            \A f \in Processable : f.block_height < nextBlock' => Pending(f)')
  BY DEF LiveCoversDelivered, Pending
<1>8. CASE Land
  <2>1. UNCHANGED <<link, from, nextBlock, ws, sync>> /\ head' = head + 1
    BY <1>8 DEF Land, linkVars
  <2>2. InvRest'
    <3>1. \A e \in sync.todo : e.block_height \in Nat
      BY Heights, SyncFields
    <3> QED
      BY <1>1, <1>3, <1>5, <2>1, <3>1 DEF InvRest
  <2>3. InvLink'
    BY <1>1, <1>4, <1>5, <2>1 DEF InvLink, InSync, TypeOK
  <2>4. InvBuffer'
    BY <1>4, <1>5, <2>1 DEF InvBuffer, InSync
  <2>5. LiveCoversDelivered'
    BY <1>3, <1>4, <1>5, <1>6, <1>7, <2>1
  <2> QED
    BY <1>2, <2>2, <2>3, <2>4, <2>5 DEF IndInv
<1>9. CASE Activate
  <2>1. /\ link = "subscribe" /\ link' = "active" /\ from' = head + 1
        /\ nextBlock' = head + 1 /\ UNCHANGED <<head, ws, sync>>
    BY <1>9 DEF Activate
  <2>2. sync.at = "waiting" /\ buffer = <<>>
    BY <1>5, <2>1 DEF InvLink, InvBuffer
  <2>3. InvRest'
    BY <2>1, <2>2 DEF InvRest
  <2>4. InvLink'
    BY <1>1, <1>4, <1>5, <2>1, <2>2 DEF InvLink, InSync
  <2>5. InvBuffer'
    <3>1. Len(buffer') = 0
      BY <1>4, <2>2, EmptySeq
    <3>2. \A f \in Processable : ~(from' <= f.block_height /\ f.block_height < nextBlock')
      BY <1>1, <2>1, EventFacts
    <3>3. sync'.at = "waiting"
      BY <2>1, <2>2
    <3> QED
      BY <2>1, <3>1, <3>2, <3>3 DEF InvBuffer, InSync
  <2>6. LiveCoversDelivered'
    BY <1>7, <2>1
  <2> QED
    BY <1>2, <2>3, <2>4, <2>5, <2>6 DEF IndInv
<1>10. CASE handleReady
  <2>1. /\ link = "ready" /\ link' = "subscribe" /\ UNCHANGED <<head, from, nextBlock, ws, sync>>
    BY <1>10 DEF handleReady
  <2>2. sync.at = "waiting" /\ buffer = <<>>
    BY <1>5, <2>1 DEF InvLink, InvBuffer
  <2>3. InvRest'
    BY <2>1, <2>2 DEF InvRest
  <2>4. InvLink' /\ InvBuffer'
    BY <1>4, <1>5, <2>1, <2>2 DEF InvLink, InvBuffer, InSync
  <2>5. LiveCoversDelivered'
    BY <1>7, <2>1
  <2> QED
    BY <1>2, <2>3, <2>4, <2>5 DEF IndInv
<1>11. CASE handleSubscribed
  <2>1. /\ link = "active" /\ link' = "live" /\ UNCHANGED <<head, from, nextBlock, ws>>
        /\ sync' = IF sync.at = "waiting" THEN [sync EXCEPT !.at = "load"] ELSE sync
    BY <1>11 DEF handleSubscribed, startCatchUp
  <2>2. sync.at = "waiting" /\ syncing /\ ~stopped
    BY <1>5, <2>1 DEF InvLink
  <2>3. sync'.at = "load"
    BY <2>1, <2>2 DEF TypeOK, Syncs
  <2>4. InvRest'
    BY <2>3 DEF InvRest
  <2>5. InvLink'
    BY <1>4, <1>5, <2>1, <2>2, <2>3 DEF InvLink, InSync
  <2>6. InvBuffer'
    BY <1>4, <1>5, <2>1, <2>2, <2>3 DEF InvBuffer, InSync
  <2>7. LiveCoversDelivered'
    BY <1>4, <1>7, <2>2
  <2> QED
    BY <1>2, <2>4, <2>5, <2>6, <2>7 DEF IndInv
<1>12. CASE loadCursor
  <2>1. /\ sync.at = "load" /\ UNCHANGED <<link, head, from, nextBlock, ws>>
        /\ sync' = [sync EXCEPT !.at = "page", !.cursor = store.lastBlockHeight]
    BY <1>12 DEF loadCursor, linkVars
  <2>2. sync'.at = "page" /\ sync'.cursor = store.lastBlockHeight
    BY <2>1 DEF TypeOK, Syncs
  <2>3. \A f \in Processable : f.block_height <= store.lastBlockHeight => Pending(f)
    BY <1>5 DEF InvStore, NoEventLost, Pending
  <2>4. InvRest'
    BY <1>3, <2>2, <2>3 DEF InvRest
  <2>5. InvLink' /\ InvBuffer'
    BY <1>4, <1>5, <2>1, <2>2 DEF InvLink, InvBuffer, InSync
  <2>6. LiveCoversDelivered'
    BY <1>3, <1>4, <1>5, <1>6, <1>7, <2>1
  <2> QED
    BY <1>2, <2>4, <2>5, <2>6 DEF IndInv
<1>13. CASE socketClose
  <2>1. /\ link' = "none" /\ ws' = "closed" /\ UNCHANGED <<head, from, nextBlock>>
        /\ sync' = IF sync.at = "waiting" THEN Idle ELSE sync
    BY <1>13 DEF socketClose
  <2>2. (sync' = sync /\ sync.at # "waiting") \/ sync'.at = "idle"
    BY <2>1 DEF Idle
  <2>3. InvRest'
    BY <1>3, <1>5, <2>1, <2>2 DEF InvRest
  <2>4. InvLink'
    <3>1. link # "none"
      BY <1>13, <1>5 DEF socketClose, InvLink
    <3> QED
      BY <1>4, <1>5, <2>1, <2>2, <3>1 DEF InvLink, InSync
  <2>5. InvBuffer'
    BY <1>4, <1>5, <2>1, <2>2 DEF InvBuffer, InSync
  <2>6. LiveCoversDelivered'
    BY <1>7, <2>1
  <2> QED
    BY <1>2, <2>3, <2>4, <2>5, <2>6 DEF IndInv
<1>14. CASE acceptDidComm
  <2>1. UNCHANGED <<link, from, nextBlock, ws, sync, head>>
    BY <1>14 DEF acceptDidComm, linkVars
  <2>2. InvRest'
    BY <1>3, <1>5, <2>1 DEF InvRest
  <2>3. InvLink' /\ InvBuffer'
    BY <1>4, <1>5, <2>1 DEF InvLink, InvBuffer, InSync
  <2>4. LiveCoversDelivered'
    BY <1>3, <1>4, <1>5, <1>6, <1>7, <2>1
  <2> QED
    BY <1>2, <2>2, <2>3, <2>4 DEF IndInv
<1>15. CASE nextPage
  <2>1. /\ sync.at = "loop" /\ sync.todo = {} /\ ~sync.next.done
        /\ UNCHANGED <<link, head, from, nextBlock, ws>>
        /\ sync' = [sync EXCEPT !.at = "page", !.cursor = sync.next.cursor, !.next = NoNext]
    BY <1>15 DEF nextPage, linkVars
  <2>2. sync'.at = "page" /\ sync'.cursor = sync.next.cursor
    BY <2>1 DEF TypeOK, Syncs
  <2>3. sync.next.cursor \in Nat
    BY SyncFields
  <2>4. \A f \in Processable : f.block_height <= sync.next.cursor => Pending(f)
    BY <1>5, <2>1, <2>3, EventFacts DEF InvRest
  <2>5. InvRest'
    BY <1>3, <2>2, <2>4 DEF InvRest
  <2>6. InvLink' /\ InvBuffer'
    BY <1>4, <1>5, <2>1, <2>2 DEF InvLink, InvBuffer, InSync
  <2>7. LiveCoversDelivered'
    BY <1>3, <1>4, <1>5, <1>6, <1>7, <2>1
  <2> QED
    BY <1>2, <2>5, <2>6, <2>7 DEF IndInv
<1> QED
  BY <1>8, <1>9, <1>10, <1>11, <1>12, <1>13, <1>14, <1>15 DEF subscribeTimeout

\* The steps that start a new generation or end the process.
LEMMA ResetSteps ==
    ASSUME TypeOK, IndInv, connect \/ stop \/ crashAndRestart
    PROVE  IndInv'
<1>1. IndInv => InvStore /\ InvCur /\ InvQueue /\ InvLink
  BY DEF IndInv
<1>2. InvStore'
  BY <1>1 DEF InvStore, NoEventLost, connect, stop, crashAndRestart, history
<1>3. CASE connect
  <2>1. /\ generation' = generation + 1 /\ ~stopped' /\ syncing' /\ ws' = "open"
        /\ link' = "ready" /\ buffer' = <<>> /\ sync'.at = "waiting"
        /\ UNCHANGED <<head, from, nextBlock, queue, cur, handled>>
    BY <1>3 DEF connect, Idle, history
  <2>2. InvCur'
    <3> SUFFICES ASSUME cur # NoEvent
                 PROVE  /\ cur.item.gen <= generation'
                        /\ cur.item.ev.block_height <= head
                        /\ cur.step # "fetch" \/ ~Stale(cur.item)' => Safe(cur.item.ev)
                        /\ cur.step = "save" => cur.item.ev \in handled
      BY <2>1 DEF InvCur, Safe
    <3>1. cur.item.gen \in Nat /\ cur.item.gen <= generation /\ generation \in Nat
      BY CallFacts, <1>1 DEF InvCur, TypeOK
    <3>2. Stale(cur.item)'
      BY <2>1, <3>1 DEF Stale
    <3> QED
      BY <1>1, <2>1, <3>1, <3>2 DEF InvCur
  <2>3. InvQueue'
    <3> SUFFICES ASSUME NEW i \in 1..Len(queue)
                 PROVE  /\ queue[i].gen <= generation'
                        /\ queue[i].ev.block_height <= head
                        /\ Stale(queue[i])'
      BY <2>1 DEF InvQueue, Stale
    <3>1. queue[i].gen \in Nat /\ queue[i].gen <= generation /\ generation \in Nat
      BY QueueFacts, <1>1 DEF InvQueue, TypeOK
    <3> QED
      BY <1>1, <2>1, <3>1 DEF Stale, InvQueue
  <2>4. InvRest' /\ InvBuffer' /\ LiveCoversDelivered'
    BY <2>1 DEF InvRest, InvBuffer, LiveCoversDelivered, InSync
  <2>5. InvLink'
    BY <1>1, <2>1 DEF InvLink, InSync
  <2> QED
    BY <1>2, <2>2, <2>3, <2>4, <2>5 DEF IndInv
<1>4. CASE stop
  <2>1. /\ stopped' /\ ws' = "null" /\ link' = "none" /\ sync'.at = "idle"
        /\ UNCHANGED <<head, from, nextBlock, generation, queue, cur, handled>>
    BY <1>4 DEF stop, Idle, history
  <2>2. InvCur'
    BY <1>1, <2>1 DEF InvCur, Stale, Safe
  <2>3. InvQueue'
    BY <1>1, <2>1 DEF InvQueue, Stale
  <2>4. InvRest' /\ InvBuffer' /\ LiveCoversDelivered'
    BY <2>1 DEF InvRest, InvBuffer, LiveCoversDelivered, InSync
  <2>5. InvLink'
    BY <1>1, <2>1 DEF InvLink, InSync
  <2> QED
    BY <1>2, <2>2, <2>3, <2>4, <2>5 DEF IndInv
<1>5. CASE crashAndRestart
  <2>1. /\ ws' = "null" /\ link' = "none" /\ sync'.at = "idle" /\ cur' = NoEvent
        /\ queue' = <<>> /\ from' = 1 /\ nextBlock' = 1 /\ ~stopped' /\ head' = head
    BY <1>5 DEF crashAndRestart, Idle
  <2>2. Len(queue') = 0
    BY <2>1, EmptySeq
  <2>3. InvCur' /\ InvQueue' /\ InvRest' /\ InvBuffer' /\ LiveCoversDelivered'
    BY <2>1, <2>2 DEF InvCur, InvQueue, InvRest, InvBuffer, LiveCoversDelivered, InSync
  <2>4. InvLink'
    BY <2>1 DEF InvLink, InSync
  <2> QED
    BY <1>2, <2>3, <2>4 DEF IndInv
<1> QED
  BY <1>3, <1>4, <1>5

\* One page of the catch-up: whatever the page leaves out lies at or above
\* its highest block, and a page that is one block holds all of it.
LEMMA PageCovers ==
    ASSUME NEW c \in 0..MaxBlock, NEW P \in Pages(c), NEW f \in Processable,
           head \in 0..MaxBlock, c < f.block_height
    PROVE  LET n == nextRestCursor(P, c) IN
           /\ \A e \in P : f.block_height < e.block_height => f \in P
           /\ n.done => (f.block_height <= head => f \in P)
           /\ ~n.done => (f.block_height <= n.cursor => f \in P)
<1> DEFINE n == nextRestCursor(P, c)
           avail == {e \in Events : c < e.block_height /\ e.block_height <= head}
<1>1. /\ P \in SUBSET avail
      /\ Cardinality(P) < PageLimit => P = avail
      /\ \A e \in P : \A g \in avail \ P : e.block_height <= g.block_height
  BY DEF Pages
<1>2. f \in Events /\ f.block_height \in Nat
  BY EventFacts, Heights
<1>3. P \in SUBSET Events /\ \A e \in P : c < e.block_height
  BY <1>1
<1>4. /\ n.done <=> Cardinality(P) < PageLimit
      /\ ~n.done => \E e \in P :
            /\ \A g \in P : g.block_height <= e.block_height
            /\ n.cursor = IF e.block_height - 1 > c
                          THEN e.block_height - 1 ELSE e.block_height
  BY <1>3, NextCursor
<1> HIDE DEF n
<1>5. \A e \in P : e.block_height \in 1..MaxBlock /\ e.block_height <= head
  BY <1>1, EventFacts
<1>6. \A e \in P : f.block_height < e.block_height => f \in P
  <2> SUFFICES ASSUME NEW e \in P, f.block_height < e.block_height, f \notin P
               PROVE  FALSE
    OBVIOUS
  <2>1. f \in avail \ P
    BY <1>2, <1>5, ConstantsAssumption
  <2>2. e.block_height <= f.block_height
    BY <1>1, <2>1
  <2> QED
    BY <1>2, <1>5, <2>2
<1>7. n.done => (f.block_height <= head => f \in P)
  BY <1>1, <1>2, <1>4
<1>8. ASSUME ~n.done, f.block_height <= n.cursor PROVE f \in P
  <2>1. PICK e \in P :
            /\ \A g \in P : g.block_height <= e.block_height
            /\ n.cursor = IF e.block_height - 1 > c
                          THEN e.block_height - 1 ELSE e.block_height
    BY <1>4, <1>8
  <2>2. CASE e.block_height - 1 > c
    BY <1>2, <1>5, <1>6, <1>8, <2>1, <2>2
  <2>3. CASE ~(e.block_height - 1 > c)
    <3>1. e.block_height = c + 1 /\ f.block_height = c + 1
      BY <1>2, <1>3, <1>5, <1>8, <2>1, <2>3
    <3>2. \A g \in P : g.block_height = c + 1
      BY <1>3, <1>5, <2>1, <3>1
    <3>3. P \in SUBSET AtBlock(c + 1)
      BY <1>3, <3>2 DEF AtBlock
    <3>4. AtBlock(c + 1) \subseteq Events /\ f \in AtBlock(c + 1)
      BY <1>2, <3>1 DEF AtBlock
    <3>5. IsFiniteSet(AtBlock(c + 1)) /\ Cardinality(AtBlock(c + 1)) \in Nat
          /\ Cardinality(P) \in Nat
      BY <1>3, <3>4, EventFacts
    <3>6. Cardinality(AtBlock(c + 1)) <= PageLimit
      BY <1>5, <3>1, BlockFitsPage
    <3>7. Cardinality(P) <= Cardinality(AtBlock(c + 1))
      BY <3>3, <3>5, FS_Subset
    <3>8. ~(Cardinality(P) < PageLimit)
      BY <1>4, <1>8
    <3>9. Cardinality(AtBlock(c + 1)) = Cardinality(P)
      BY <3>5, <3>6, <3>7, <3>8, ConstantsAssumption
    <3>10. AtBlock(c + 1) = P
      BY <3>3, <3>5, <3>9, FS_Subset
    <3> QED
      BY <3>4, <3>10
  <2> QED
    BY <2>2, <2>3
<1> QED
  BY <1>6, <1>7, <1>8 DEF n

\* Reading a page (getEvents) keeps the invariant.
LEMMA PageStep ==
    ASSUME TypeOK, IndInv, getEvents
    PROVE  IndInv'
<1>1. Quiet /\ head' \in Nat /\ head \in 0..MaxBlock /\ head <= head' /\ head' = head
  BY ConstantsAssumption DEF TypeOK, Quiet, getEvents, history
<1>2. InvStore' /\ InvCur' /\ InvQueue'
  BY <1>1, QuietQueue
<1>3. \A f : Pending(f)' <=> Pending(f)
  BY <1>1, QuietKeeps
<1>4. /\ UNCHANGED <<link, from, nextBlock, ws, buffer, syncing, stopped>>
      /\ sync.at = "page"
  BY DEF getEvents, linkVars
<1>5. IndInv => InvRest /\ InvLink /\ InvBuffer /\ LiveCoversDelivered
  BY DEF IndInv
<1>6. PICK P \in Pages(sync.cursor) :
        sync' = [sync EXCEPT !.at = "loop", !.todo = P \cap Processable,
                             !.next = nextRestCursor(P, sync.cursor)]
  BY DEF getEvents
<1>7. /\ sync'.at = "loop" /\ sync'.cursor = sync.cursor
      /\ sync'.todo = P \cap Processable
      /\ sync'.next = nextRestCursor(P, sync.cursor)
  BY <1>6 DEF TypeOK, Syncs
<1>8. sync.cursor \in 0..MaxBlock /\ sync.cursor \in Nat
  BY SyncFields
<1>9. \A f \in Processable : f.block_height <= sync.cursor => Pending(f)
  BY <1>4, <1>5 DEF InvRest
<1>10. P \subseteq Events /\ \A e \in P : sync.cursor < e.block_height /\ e.block_height <= head
  BY DEF Pages
<1>11. nextBlock <= head + 1 /\ from <= nextBlock /\ nextBlock \in Nat /\ from \in Nat
  BY <1>4, <1>5, ConstantsAssumption DEF InvLink, InSync, TypeOK
<1>12. nextRestCursor(P, sync.cursor) \in [done : BOOLEAN, cursor : 0..MaxBlock]
  BY <1>8, <1>10, NextCursor
<1>13. ASSUME NEW f \in Processable, sync.cursor < f.block_height
       PROVE  /\ \A e \in P : f.block_height < e.block_height => f \in P
              /\ sync'.next.done => (f.block_height < from => f \in P)
              /\ ~sync'.next.done => (f.block_height < sync'.next.cursor + 1 => f \in P)
  <2>1. /\ \A e \in P : f.block_height < e.block_height => f \in P
        /\ sync'.next.done => (f.block_height <= head => f \in P)
        /\ ~sync'.next.done => (f.block_height <= sync'.next.cursor => f \in P)
    BY <1>1, <1>7, <1>8, <1>13, PageCovers
  <2>2. f.block_height \in Nat /\ sync'.next.cursor \in Nat
    BY <1>7, <1>12, Heights, ConstantsAssumption
  <2> QED
    BY <1>1, <1>11, <2>1, <2>2
<1>14. InvRest'
  <2>1. ASSUME NEW e \in sync'.todo, NEW f \in Processable, f.block_height < e.block_height
        PROVE  Pending(f)' \/ f \in sync'.todo
    BY <1>3, <1>7, <1>8, <1>9, <1>13, <2>1, Heights
  <2>2. ASSUME NEW f \in Processable,
               f.block_height < (IF sync'.next.done THEN from' ELSE sync'.next.cursor + 1)
        PROVE  Pending(f)' \/ f \in sync'.todo
    BY <1>3, <1>4, <1>7, <1>8, <1>9, <1>13, <2>2, Heights
  <2>3. \A e \in sync'.todo : e.block_height <= head'
    BY <1>1, <1>7, <1>10
  <2>4. \A f \in Processable : f.block_height <= sync'.cursor => Pending(f)'
    BY <1>3, <1>7, <1>9
  <2> QED
    BY <2>1, <2>2, <2>3, <2>4 DEF InvRest
<1>15. InvLink' /\ InvBuffer'
  BY <1>1, <1>4, <1>5, <1>7 DEF InvLink, InvBuffer, InSync
<1>16. LiveCoversDelivered'
  BY <1>4, <1>5 DEF InvLink, LiveCoversDelivered
<1> QED
  BY <1>2, <1>14, <1>15, <1>16 DEF IndInv

\* The steps that append to the queue.  s2 holds the appended items; each of
\* them must find every earlier event handled, applying, queued or before it.
LEMMA AppendKeeps ==
    ASSUME TypeOK, InvQueue, ~stopped, NEW s2 \in Seq(Items),
           queue' = queue \o s2,
           UNCHANGED <<stopped, generation, head, cur, handled>>,
           \A k \in 1..Len(s2) :
              /\ s2[k].gen = generation
              /\ s2[k].ev.block_height <= head
              /\ \A f \in Processable : f.block_height < s2[k].ev.block_height =>
                    Pending(f) \/ \E j \in 1..(k - 1) : s2[j].ev = f
    PROVE  /\ InvQueue'
           /\ \A f : Pending(f) => Pending(f)'
           /\ \A k \in 1..Len(s2) : Queued(s2[k].ev)'
<1> DEFINE m == Len(queue)
<1>1. /\ m \in Nat /\ Len(s2) \in Nat /\ Len(queue') = m + Len(s2)
      /\ \A i \in 1..m : queue'[i] = queue[i]
      /\ \A i \in (m + 1)..(m + Len(s2)) : queue'[i] = s2[i - m]
  <2>1. queue \in Seq(Items)
    BY DEF TypeOK
  <2> QED
    BY <2>1, ConcatProperties, LenProperties
<1> HIDE DEF m
<1>2. \A k \in 1..Len(s2) : queue'[m + k] = s2[k] /\ m + k \in 1..Len(queue')
  BY <1>1
<1>3. \A i \in 1..m : i \in 1..Len(queue')
  BY <1>1
<1>4. \A f : Queued(f) => Queued(f)'
  BY <1>1, <1>3 DEF Queued, m
<1>5. \A f : Pending(f) => Pending(f)'
  BY <1>4 DEF Pending, Applying
<1>6. \A k \in 1..Len(s2) : Queued(s2[k].ev)'
  BY <1>2 DEF Queued
<1>7. InvQueue'
  <2> DEFINE Good(i) ==
               /\ queue'[i].gen <= generation
               /\ queue'[i].ev.block_height <= head
               /\ queue'[i].gen = generation =>
                    \A f \in Processable : f.block_height < queue'[i].ev.block_height =>
                        \/ f \in handled
                        \/ Applying(f)
                        \/ \E j \in 1..(i - 1) : queue'[j].gen = generation /\ queue'[j].ev = f
  <2>0. ASSUME \A i \in 1..Len(queue') : Good(i) PROVE InvQueue'
    <3>1. ASSUME NEW i \in 1..Len(queue')
          PROVE  /\ queue'[i].gen <= generation'
                 /\ queue'[i].ev.block_height <= head'
                 /\ ~Stale(queue[i])' =>
                      \A f \in Processable : f.block_height < queue'[i].ev.block_height =>
                         \/ f \in handled'
                         \/ Applying(f)'
                         \/ \E j \in 1..(i - 1) : queue'[j].gen = generation' /\ queue'[j].ev = f
      <4>1. Good(i)
        BY <2>0
      <4>2. ~Stale(queue[i])' => queue'[i].gen = generation
        BY DEF Stale
      <4>3. \A f : Applying(f)' <=> Applying(f)
        BY DEF Applying
      <4> QED
        BY <4>1, <4>2, <4>3
    <3> QED
      BY <3>1 DEF InvQueue
  <2> SUFFICES ASSUME NEW i \in 1..Len(queue') PROVE Good(i)
    BY <2>0
  <2>1. CASE i \in 1..m
    <3>1. \A j \in 1..(i - 1) : queue'[j] = queue[j]
      BY <1>1, <2>1
    <3> QED
      BY <1>1, <2>1, <3>1 DEF InvQueue, Stale, m
  <2>2. CASE i \notin 1..m
    <3>0. i - m \in 1..Len(s2) /\ i = m + (i - m)
      BY <1>1, <2>2
    <3>1. PICK k \in 1..Len(s2) : i = m + k
      BY <3>0
    <3>2. queue'[i] = s2[k]
      BY <1>2, <3>1
    <3>3. ASSUME NEW f \in Processable, f.block_height < s2[k].ev.block_height
          PROVE  \/ f \in handled
                 \/ Applying(f)
                 \/ \E j \in 1..(i - 1) : queue'[j].gen = generation /\ queue'[j].ev = f
      <4>1. CASE \E j \in 1..(k - 1) : s2[j].ev = f
        <5>1. PICK j \in 1..(k - 1) : s2[j].ev = f
          BY <4>1
        <5>2. j \in 1..Len(s2) /\ m + j \in 1..(i - 1)
          BY <1>1, <3>1
        <5>3. queue'[m + j] = s2[j] /\ s2[j].gen = generation
          BY <1>2, <5>2
        <5> QED
          BY <5>1, <5>2, <5>3
      <4>2. CASE Queued(f)
        <5>1. PICK j \in 1..m : queue[j].gen = generation /\ queue[j].ev = f
          BY <4>2 DEF Queued, m
        <5>2. j \in 1..(i - 1) /\ queue'[j] = queue[j]
          BY <1>1, <3>1
        <5> QED
          BY <5>1, <5>2
      <4> QED
        BY <3>3, <4>1, <4>2 DEF Pending
    <3>4. generation \in Nat /\ s2[k].gen = generation /\ s2[k].ev.block_height <= head
      BY DEF TypeOK
    <3>5. queue'[i].gen <= generation /\ queue'[i].ev.block_height <= head
      BY <3>2, <3>4
    <3>6. ASSUME NEW f \in Processable, f.block_height < queue'[i].ev.block_height
          PROVE  \/ f \in handled
                 \/ Applying(f)
                 \/ \E j \in 1..(i - 1) : queue'[j].gen = generation /\ queue'[j].ev = f
      BY <3>2, <3>3, <3>6
    <3> QED
      BY <3>5, <3>6
  <2> QED
    BY <2>1, <2>2
<1> QED
  BY <1>5, <1>6, <1>7

\* Queueing the next event of a page keeps the invariant (syncRest).
LEMMA QueueNextStep ==
    ASSUME TypeOK, IndInv, queueNext
    PROVE  IndInv'
<1>1. IndInv => InvStore /\ InvCur /\ InvQueue /\ InvRest /\ InvLink /\ InvBuffer
  BY DEF IndInv
<1>2. PICK e \in sync.todo :
        /\ IsFirst(e, sync.todo)
        /\ queue' = Append(queue, Item(e, TRUE))
        /\ sync' = [sync EXCEPT !.at = "await", !.todo = @ \ {e}]
  BY DEF queueNext
<1>3. /\ sync.at = "loop"
      /\ UNCHANGED <<head, link, from, nextBlock, ws, stopped, syncing, generation,
                     buffer, cur, store, handled>>
  BY DEF queueNext, linkVars, history
<1>4. /\ sync'.at = "await" /\ sync'.cursor = sync.cursor /\ sync'.next = sync.next
      /\ sync'.todo = sync.todo \ {e}
  BY <1>2 DEF TypeOK, Syncs
<1>5. e \in Processable /\ e.block_height \in Nat /\ ~stopped /\ syncing
  BY <1>1, <1>3, SyncFields, Heights DEF InvLink
<1>6a. PICK x : x = Item(e, TRUE)
  OBVIOUS
<1>6. x \in Items /\ x.ev = e /\ x.gen = generation
  BY <1>5, <1>6a DEF Item, Items, TypeOK
<1>7a. <<x>> \in Seq(Items) /\ Len(<<x>>) = 1 /\ <<x>>[1] = x
  BY <1>6
<1>7. PICK s2 \in Seq(Items) : s2 = <<x>> /\ Len(s2) = 1 /\ s2[1] = x
  BY <1>7a
<1>8. queue' = queue \o s2
  BY <1>2, <1>6a, <1>6, <1>7, AppendIsConcat DEF TypeOK
<1>9. e.block_height <= head
  BY <1>1, <1>3 DEF InvRest
<1>10. ASSUME NEW f \in Processable, f.block_height < e.block_height
       PROVE  Pending(f)
  <2>1. Pending(f) \/ f \in sync.todo
    BY <1>1, <1>3, <1>10 DEF InvRest
  <2>2. f \notin sync.todo
    BY <1>2, <1>5, <1>10, Heights DEF IsFirst, Before
  <2> QED
    BY <2>1, <2>2
<1>11. \A k \in 1..Len(s2) :
          /\ s2[k].gen = generation
          /\ s2[k].ev.block_height <= head
          /\ \A f \in Processable : f.block_height < s2[k].ev.block_height =>
                Pending(f) \/ \E j \in 1..(k - 1) : s2[j].ev = f
  BY <1>6, <1>7, <1>9, <1>10
<1>12a. /\ InvQueue'
        /\ \A f : Pending(f) => Pending(f)'
        /\ \A k \in 1..Len(s2) : Queued(s2[k].ev)'
  BY <1>1, <1>3, <1>5, <1>8, <1>11, AppendKeeps
<1>12. /\ InvQueue'
       /\ \A f : Pending(f) => Pending(f)'
       /\ Queued(e)'
  BY <1>6, <1>7, <1>12a
<1>13. Pending(e)'
  BY <1>12 DEF Pending
<1>14. InvStore' /\ InvCur'
  BY <1>1, <1>3 DEF InvStore, NoEventLost, InvCur, Safe, Stale
<1>15. InvRest'
  BY <1>1, <1>3, <1>4, <1>12, <1>13 DEF InvRest
<1>16. InvLink' /\ InvBuffer'
  BY <1>1, <1>3, <1>4 DEF InvLink, InvBuffer, InSync
<1>17. LiveCoversDelivered'
  BY <1>3, <1>5 DEF LiveCoversDelivered
<1> QED
  BY <1>12, <1>14, <1>15, <1>16, <1>17 DEF IndInv

\* The buffer drains in order behind a complete catch-up.
LEMMA GoLiveStep ==
    ASSUME TypeOK, IndInv, goLive
    PROVE  IndInv'
<1>1. IndInv => InvStore /\ InvCur /\ InvQueue /\ InvRest /\ InvLink /\ InvBuffer
  BY DEF IndInv
<1> DEFINE B == {buffer[i] : i \in 1..Len(buffer)}
<1>2. PICK s \in sortEventsByPosition(B) : queue' = queue \o LiveItems(s)
  BY DEF goLive
<1>3. /\ sync.at = "loop" /\ sync.todo = {} /\ sync.next.done
      /\ sync' = Idle /\ sync'.at = "idle" /\ ~syncing'
      /\ UNCHANGED <<head, link, from, nextBlock, ws, stopped, generation,
                     cur, store, handled>>
  BY DEF goLive, linkVars, history, Idle
<1>4. ~stopped /\ syncing /\ link \in {"live", "none"} /\ from <= nextBlock
      /\ nextBlock <= head + 1
  BY <1>1, <1>3 DEF InvLink, InSync
<1>5. B \in SUBSET Processable
  BY BufferSet
<1>6. /\ \A b \in B : from <= b.block_height /\ b.block_height < nextBlock
      /\ \A f \in Processable : from <= f.block_height /\ f.block_height < nextBlock => f \in B
  BY <1>1, <1>3 DEF InvBuffer, InSync
<1> HIDE DEF B
<1>7. /\ s \in Seq(Processable) /\ Len(s) \in Nat
      /\ \A i \in 1..Len(s) : s[i] \in B
      /\ \A e \in B : \E i \in 1..Len(s) : s[i] = e
      /\ \A i, j \in 1..Len(s) : i < j => Before(s[i], s[j])
  BY <1>5, SortedSeq, LenProperties
<1>8a. generation \in Nat
  BY DEF TypeOK
<1>8b. PICK s2 : s2 = LiveItems(s)
  OBVIOUS
<1>8. /\ s2 \in Seq(Items) /\ Len(s2) = Len(s)
      /\ \A k \in 1..Len(s) : s2[k].ev = s[k] /\ s2[k].gen = generation
  <2>1. /\ LiveItems(s) \in Seq(Items) /\ Len(LiveItems(s)) = Len(s)
        /\ \A i \in 1..Len(s) :
              LiveItems(s)[i].ev = s[i] /\ LiveItems(s)[i].gen = generation
    BY <1>7, <1>8a, LiveItemsType
  <2> QED
    BY <1>8b, <2>1, Zenon
<1>9. head \in Nat /\ from \in Nat /\ nextBlock \in Nat
  BY ConstantsAssumption DEF TypeOK
<1>10. \A f \in Processable : f.block_height < from => Pending(f)
  BY <1>1, <1>3 DEF InvRest
<1>11. ASSUME NEW k \in 1..Len(s2)
       PROVE  /\ s2[k].gen = generation
              /\ s2[k].ev.block_height <= head
              /\ \A f \in Processable : f.block_height < s2[k].ev.block_height =>
                    Pending(f) \/ \E j \in 1..(k - 1) : s2[j].ev = f
  <2>1. k \in 1..Len(s) /\ s2[k].ev = s[k] /\ s2[k].gen = generation /\ s[k] \in B
    BY <1>7, <1>8
  <2>2. s[k].block_height < nextBlock /\ s[k].block_height \in Nat
    BY <1>5, <1>6, <2>1, Heights
  <2>3. s[k].block_height <= head
    BY <1>4, <1>9, <2>2
  <2>4. ASSUME NEW f \in Processable, f.block_height < s[k].block_height, ~(f.block_height < from)
        PROVE  \E j \in 1..(k - 1) : s2[j].ev = f
    <3>1. f.block_height \in Nat
      BY Heights
    <3>2. f \in B
      BY <1>6, <1>9, <2>2, <2>4, <3>1
    <3>3. PICK j \in 1..Len(s) : s[j] = f
      BY <1>7, <3>2
    <3>4. ~(k < j) /\ k # j
      BY <1>7, <2>1, <2>2, <2>4, <3>1, <3>3 DEF Before
    <3>5. j \in 1..(k - 1)
      BY <1>7, <2>1, <3>4
    <3> QED
      BY <1>8, <3>3, <3>5
  <2> QED
    BY <1>10, <2>1, <2>3, <2>4
<1>12. queue' = queue \o s2
  BY <1>2, <1>8b
<1>13. /\ InvQueue'
       /\ \A f : Pending(f) => Pending(f)'
       /\ \A k \in 1..Len(s2) : Queued(s2[k].ev)'
  BY <1>1, <1>3, <1>4, <1>8, <1>11, <1>12, AppendKeeps
<1>14. \A f \in Processable : f.block_height < nextBlock => Pending(f)'
  <2> SUFFICES ASSUME NEW f \in Processable, f.block_height < nextBlock PROVE Pending(f)'
    OBVIOUS
  <2>1. CASE f.block_height < from
    BY <1>10, <1>13, <2>1
  <2>2. CASE ~(f.block_height < from)
    <3>1. f \in B
      BY <1>6, <1>9, <2>2, Heights
    <3>2. PICK i \in 1..Len(s) : s[i] = f
      BY <1>7, <3>1
    <3>3. Queued(s2[i].ev)' /\ s2[i].ev = f
      BY <1>8, <1>13, <3>2
    <3> QED
      BY <3>3 DEF Pending
  <2> QED
    BY <2>1, <2>2
<1>15. LiveCoversDelivered'
  BY <1>3, <1>14 DEF LiveCoversDelivered, Pending
<1>16. InvStore' /\ InvCur'
  BY <1>1, <1>3 DEF InvStore, NoEventLost, InvCur, Safe, Stale
<1>17. InvRest' /\ InvBuffer'
  BY <1>3, <1>4 DEF InvRest, InvBuffer, InSync
<1>18. InvLink'
  BY <1>1, <1>3, <1>4 DEF InvLink, InSync
<1> QED
  BY <1>13, <1>15, <1>16, <1>17, <1>18 DEF IndInv

\* A block message: queued behind everything delivered before it, or buffered.
LEMMA BlockStep ==
    ASSUME TypeOK, TypeOK', IndInv, handleBlock
    PROVE  IndInv'
<1>1. IndInv => /\ InvStore /\ InvCur /\ InvQueue /\ InvRest /\ InvLink /\ InvBuffer
                /\ LiveCoversDelivered
  BY DEF IndInv
<1> DEFINE B == AtBlock(nextBlock) \cap Processable
<1>2. PICK s \in Orders(B) :
        \/ /\ ~syncing
           /\ queue' = queue \o LiveItems(s)
           /\ UNCHANGED <<phase, generation, ws, timer, link, sync, buffer>>
        \/ /\ syncing
           /\ Len(buffer) + Len(s) <= MaxSyncBuffer
           /\ buffer' = buffer \o s
           /\ UNCHANGED <<phase, generation, ws, timer, link, sync, queue>>
        \/ /\ syncing
           /\ Len(buffer) + Len(s) > MaxSyncBuffer
           /\ buffer' = buffer \o SubSeq(s, 1, MaxSyncBuffer - Len(buffer))
           /\ forceReconnect
           /\ UNCHANGED queue
  BY DEF handleBlock
<1>3. /\ ws = "open" /\ link \in {"active", "live"} /\ nextBlock <= head
      /\ nextBlock' = nextBlock + 1
      /\ UNCHANGED <<head, from, stopped, syncing, cur, store, handled>>
  BY DEF handleBlock, history
<1>4. ~stopped /\ from <= nextBlock
  BY <1>1, <1>3 DEF InvLink
<1>5. B \in SUBSET Processable
  BY SortedBlock
<1>6. \A b \in Processable : b \in B <=> b.block_height = nextBlock
  BY EventFacts DEF AtBlock
<1> HIDE DEF B
<1>7. /\ s \in Seq(Processable) /\ Len(s) \in Nat
      /\ \A i \in 1..Len(s) : s[i] \in B
      /\ \A e \in B : \E i \in 1..Len(s) : s[i] = e
  BY <1>5, OrderSeq, LenProperties
<1>8. head \in Nat /\ from \in Nat /\ nextBlock \in Nat /\ generation \in Nat
  BY ConstantsAssumption DEF TypeOK
<1>9. CASE /\ ~syncing
           /\ queue' = queue \o LiveItems(s)
           /\ UNCHANGED <<phase, generation, ws, timer, link, sync, buffer>>
  <2>1. sync.at = "idle" /\ link = "live"
    BY <1>1, <1>3, <1>9 DEF InvLink
  <2>2. \A f \in Processable : f.block_height < nextBlock => Pending(f)
    BY <1>1, <1>3, <1>4, <1>9, <2>1 DEF LiveCoversDelivered, Pending
  <2>3. PICK s2 : s2 = LiveItems(s)
    OBVIOUS
  <2>4. /\ s2 \in Seq(Items) /\ Len(s2) = Len(s)
        /\ \A k \in 1..Len(s) : s2[k].ev = s[k] /\ s2[k].gen = generation
    <3>1. /\ LiveItems(s) \in Seq(Items) /\ Len(LiveItems(s)) = Len(s)
          /\ \A i \in 1..Len(s) :
                LiveItems(s)[i].ev = s[i] /\ LiveItems(s)[i].gen = generation
      BY <1>7, <1>8, LiveItemsType
    <3> QED
      BY <2>3, <3>1, Zenon
  <2>5. ASSUME NEW k \in 1..Len(s2)
        PROVE  /\ s2[k].gen = generation
               /\ s2[k].ev.block_height <= head
               /\ \A f \in Processable : f.block_height < s2[k].ev.block_height =>
                     Pending(f) \/ \E j \in 1..(k - 1) : s2[j].ev = f
    <3>1. s2[k].gen = generation /\ s2[k].ev = s[k] /\ s[k] \in B /\ s[k] \in Processable
      BY <1>5, <1>7, <2>4
    <3>2. s[k].block_height = nextBlock
      BY <1>6, <3>1
    <3> QED
      BY <1>3, <2>2, <3>1, <3>2
  <2>6. queue' = queue \o s2
    BY <1>9, <2>3
  <2>7. /\ InvQueue'
        /\ \A f : Pending(f) => Pending(f)'
        /\ \A k \in 1..Len(s2) : Queued(s2[k].ev)'
    BY <1>1, <1>3, <1>4, <1>9, <2>4, <2>5, <2>6, AppendKeeps
  <2>8. \A f \in Processable : f.block_height < nextBlock' => Pending(f)'
    <3> SUFFICES ASSUME NEW f \in Processable, f.block_height < nextBlock' PROVE Pending(f)'
      OBVIOUS
    <3>1. CASE f.block_height < nextBlock
      BY <2>2, <2>7, <3>1
    <3>2. CASE ~(f.block_height < nextBlock)
      <4>1. f \in B
        BY <1>3, <1>6, <1>8, <3>2, Heights
      <4>2. PICK i \in 1..Len(s) : s[i] = f
        BY <1>7, <4>1
      <4>3. Queued(s2[i].ev)' /\ s2[i].ev = f
        BY <2>4, <2>7, <4>2
      <4> QED
        BY <4>3 DEF Pending
    <3> QED
      BY <3>1, <3>2
  <2>9. LiveCoversDelivered'
    BY <2>8 DEF LiveCoversDelivered, Pending
  <2>10. InvStore' /\ InvCur'
    BY <1>1, <1>3, <1>9 DEF InvStore, NoEventLost, InvCur, Safe, Stale
  <2>11. InvRest' /\ InvBuffer'
    BY <1>9, <2>1 DEF InvRest, InvBuffer, InSync
  <2>12. InvLink'
    BY <1>1, <1>3, <1>4, <1>8, <1>9, <2>1 DEF InvLink, InSync
  <2> QED
    BY <2>7, <2>9, <2>10, <2>11, <2>12 DEF IndInv
<1>10. CASE /\ syncing
            /\ buffer' = buffer \o s
            /\ UNCHANGED <<phase, generation, ws, timer, link, sync, queue>>
  <2>1. Quiet
    BY <1>3, <1>10 DEF Quiet
  <2>2. InvStore' /\ InvCur' /\ InvQueue'
    BY <1>3, <1>8, <2>1, QuietQueue
  <2>3. \A f : Pending(f)' <=> Pending(f)
    BY <2>1, QuietKeeps
  <2>4. InvRest'
    BY <1>1, <1>3, <1>10, <2>3 DEF InvRest
  <2>5. InvLink'
    BY <1>1, <1>3, <1>8, <1>10 DEF InvLink, InSync
  <2>6. LiveCoversDelivered'
    BY <1>3, <1>10 DEF LiveCoversDelivered
  <2>7. /\ Len(buffer) \in Nat /\ Len(buffer') = Len(buffer) + Len(s)
        /\ \A i \in 1..Len(buffer) : buffer'[i] = buffer[i]
        /\ \A i \in (Len(buffer) + 1)..(Len(buffer) + Len(s)) : buffer'[i] = s[i - Len(buffer)]
    <3>1. buffer \in Seq(Processable)
      BY DEF TypeOK
    <3> QED
      BY <1>7, <1>10, <3>1, ConcatProperties, LenProperties
  <2>8. InvBuffer'
    <3>1. ~(sync'.at = "waiting" /\ link' # "active")
      BY <1>1, <1>3, <1>10 DEF InvLink
    <3> SUFFICES ASSUME InSync' \/ link' = "active"
                 PROVE  /\ \A i \in 1..Len(buffer') :
                              from <= buffer'[i].block_height /\ buffer'[i].block_height < nextBlock'
                        /\ \A f \in Processable :
                              from <= f.block_height /\ f.block_height < nextBlock' =>
                                 \E i \in 1..Len(buffer') : buffer'[i] = f
      BY <1>3, <3>1 DEF InvBuffer
    <3>2. InSync \/ link = "active"
      BY <1>10 DEF InSync
    <3>3. ASSUME NEW i \in 1..Len(buffer')
          PROVE  from <= buffer'[i].block_height /\ buffer'[i].block_height < nextBlock'
      <4>1. CASE i \in 1..Len(buffer)
        <5>1. buffer[i] \in Processable
          BY <4>1, ElementOfSeq DEF TypeOK
        <5>2. from <= buffer[i].block_height /\ buffer[i].block_height < nextBlock
          BY <1>1, <3>2, <4>1 DEF InvBuffer
        <5> QED
          BY <1>3, <1>8, <2>7, <4>1, <5>1, <5>2, Heights
      <4>2. CASE i \notin 1..Len(buffer)
        <5>1. i - Len(buffer) \in 1..Len(s) /\ buffer'[i] = s[i - Len(buffer)]
          BY <1>7, <2>7, <4>2
        <5>2. s[i - Len(buffer)] \in B /\ s[i - Len(buffer)] \in Processable
          BY <1>5, <1>7, <5>1
        <5>3. buffer'[i].block_height = nextBlock
          BY <1>6, <5>1, <5>2
        <5> QED
          BY <1>3, <1>4, <1>8, <5>3
      <4> QED
        BY <4>1, <4>2
    <3>4. ASSUME NEW f \in Processable, from <= f.block_height, f.block_height < nextBlock'
          PROVE  \E i \in 1..Len(buffer') : buffer'[i] = f
      <4>1. CASE f.block_height < nextBlock
        <5>1. PICK i \in 1..Len(buffer) : buffer[i] = f
          BY <1>1, <3>2, <3>4, <4>1 DEF InvBuffer
        <5> QED
          BY <1>7, <2>7, <5>1
      <4>2. CASE ~(f.block_height < nextBlock)
        <5>1. f \in B
          BY <1>3, <1>6, <1>8, <3>4, <4>2, Heights
        <5>2. PICK i \in 1..Len(s) : s[i] = f
          BY <1>7, <5>1
        <5>3. /\ Len(buffer) + i \in 1..Len(buffer')
              /\ Len(buffer) + i \in (Len(buffer) + 1)..(Len(buffer) + Len(s))
              /\ (Len(buffer) + i) - Len(buffer) = i
          BY <1>7, <2>7
        <5>4. buffer'[Len(buffer) + i] = f
          BY <2>7, <5>2, <5>3
        <5> QED
          BY <5>3, <5>4
      <4> QED
        BY <4>1, <4>2
    <3> QED
      BY <3>3, <3>4
  <2> QED
    BY <2>2, <2>4, <2>5, <2>6, <2>8 DEF IndInv
<1>11. CASE syncing /\ forceReconnect /\ UNCHANGED queue
  BY <1>3, <1>4, <1>8, <1>11, ReconnectKeeps
<1> QED
  BY <1>2, <1>9, <1>10, <1>11

\* The failures that force a reconnect.
LEMMA FailureSteps ==
    ASSUME TypeOK, IndInv, watchdogFires \/ catchUpFails \/ applyFails
    PROVE  IndInv'
<1>1. nextBlock \in Nat /\ nextBlock <= nextBlock
  BY ConstantsAssumption DEF TypeOK
<1>2. CASE watchdogFires
  <2>1. ~stopped
    BY <1>2 DEF watchdogFires, IndInv, InvLink
  <2> QED
    BY <1>1, <1>2, <2>1, ReconnectKeeps DEF watchdogFires, history
<1>3. CASE catchUpFails
  <2>1. ~stopped
    BY <1>3 DEF catchUpFails, IndInv, InvLink
  <2> QED
    BY <1>1, <1>3, <2>1, ReconnectKeeps DEF catchUpFails, history
<1>4. CASE applyFails /\ ~stopped /\ cur.item.gen = generation
  BY <1>1, <1>4, ReconnectKeeps DEF applyFails
<1>5. CASE applyFails /\ (stopped \/ cur.item.gen # generation)
  <2>1. /\ cur' = NoEvent /\ ~Applying(cur.item.ev)' /\ (\A f : ~Applying(f)')
        /\ UNCHANGED <<head, link, from, nextBlock, ws, stopped, syncing, generation,
                       buffer, sync, queue, store, handled>>
    BY <1>5 DEF applyFails, forceReconnect, Applying
  <2>2. InvStore' /\ InvCur'
    BY <2>1 DEF IndInv, InvStore, NoEventLost, InvCur
  <2>3. ~stopped => \A f : ~Applying(f)
    BY <1>5 DEF Applying
  <2>4. InvQueue'
    BY <2>1, <2>3 DEF IndInv, InvQueue, Stale
  <2>5. ~stopped => \A f : Pending(f)' <=> Pending(f)
    BY <2>1, <2>3 DEF Pending, Queued
  <2>6. sync.at # "idle" => ~stopped
    BY DEF IndInv, InvLink
  <2>7. InvRest'
    BY <2>1, <2>5, <2>6 DEF IndInv, InvRest
  <2>8. InvLink' /\ InvBuffer'
    BY <2>1 DEF IndInv, InvLink, InvBuffer, InSync
  <2>9. LiveCoversDelivered'
    BY <2>1, <2>5 DEF IndInv, LiveCoversDelivered, Pending
  <2> QED
    BY <2>2, <2>4, <2>7, <2>8, <2>9 DEF IndInv
<1> QED
  BY <1>2, <1>3, <1>4, <1>5

\* What the return of an applied event does to the queue and the catch-up.
LEMMA ResumeFacts ==
    ASSUME TypeOK, NEW x, Resume(x) \/ sync' = sync
    PROVE  /\ sync'.cursor = sync.cursor /\ sync'.todo = sync.todo /\ sync'.next = sync.next
           /\ sync'.at = sync.at \/ (sync.at = "await" /\ sync'.at = "loop")
BY DEF TypeOK, Syncs, Resume

\* A step of applyEvent keeps the invariants of the catch-up and the sockets
\* as long as no event drops out of sight.
LEMMA ApplyKeeps ==
    ASSUME TypeOK, IndInv, NEW x, Resume(x) \/ sync' = sync,
           UNCHANGED <<head, link, from, nextBlock, ws, stopped, syncing,
                       generation, buffer>>,
           ~stopped => \A f \in Processable : Pending(f) => Pending(f)'
    PROVE  InvRest' /\ InvLink' /\ InvBuffer' /\ LiveCoversDelivered'
<1>1. /\ sync'.cursor = sync.cursor /\ sync'.todo = sync.todo /\ sync'.next = sync.next
      /\ sync'.at = sync.at \/ (sync.at = "await" /\ sync'.at = "loop")
  BY ResumeFacts
<1>2. sync.at # "idle" => ~stopped
  BY DEF IndInv, InvLink
<1>3. InvRest'
  <2>1. sync.todo \subseteq Processable
    BY SyncFields
  <2> QED
    BY <1>1, <1>2, <2>1 DEF IndInv, InvRest
<1>4. InvLink' /\ InvBuffer'
  BY <1>1 DEF IndInv, InvLink, InvBuffer, InSync
<1>5. LiveCoversDelivered'
  BY DEF IndInv, LiveCoversDelivered, Pending
<1> QED
  BY <1>3, <1>4, <1>5

\* Taking an event, skipped ones included, keeps the invariant (applyEvent).
LEMMA TakeStep ==
    ASSUME TypeOK, IndInv, takeEvent
    PROVE  IndInv'
<1>1. IndInv => InvStore /\ InvQueue
  BY DEF IndInv
<1>2. /\ cur = NoEvent /\ queue # <<>> /\ queue' = Tail(queue)
      /\ UNCHANGED <<head, link, from, nextBlock, ws, stopped, syncing, generation,
                     buffer, store, handled>>
  BY DEF takeEvent, linkVars, history
<1>3. PICK x : x = Head(queue)
  OBVIOUS
<1>4. /\ Len(queue) \in Nat \ {0} /\ x = queue[1] /\ Len(queue') = Len(queue) - 1
      /\ \A i \in 1..Len(queue') : queue'[i] = queue[i + 1]
  <2>1. queue \in Seq(Items)
    BY DEF TypeOK
  <2> QED
    BY <1>2, <1>3, <2>1, HeadTailProperties, EmptySeq
<1>5. x \in Items /\ x.ev \in Processable /\ x.gen <= generation
      /\ x.ev.block_height <= head /\ 1 \in 1..Len(queue)
  BY <1>1, <1>4, QueueFacts DEF InvQueue
<1>6. \/ (Stale(x) \/ AlreadyApplied(x.ev)) /\ cur' = NoEvent
      \/ /\ ~Stale(x) /\ ~AlreadyApplied(x.ev)
         /\ cur' = [step |-> "fetch", item |-> x] /\ cur' # NoEvent
  BY <1>3 DEF takeEvent, NoEvent
<1>7. Resume(x) \/ sync' = sync
  BY <1>3 DEF takeEvent
<1>8. ~Stale(x) => x.ev \in handled \/ Applying(x.ev)'
  <2>1. AlreadyApplied(x.ev) => x.ev \in handled
    BY <1>1, <1>5, AppliedIsHandled
  <2> QED
    BY <1>2, <1>6, <2>1 DEF Applying, Stale
<1>9. ~Stale(x) => Safe(x.ev)
  <2>1. \A f : ~Applying(f)
    BY <1>2 DEF Applying
  <2>2. \A j \in 1..(1 - 1) : FALSE
    OBVIOUS
  <2> QED
    BY <1>1, <1>4, <1>5, <2>1, <2>2 DEF InvQueue, Safe
<1>10. InvStore'
  BY <1>1, <1>2 DEF InvStore, NoEventLost
<1>11. InvCur'
  BY <1>2, <1>5, <1>6, <1>9 DEF InvCur, Safe, Stale
<1>12. InvQueue'
  <2> SUFFICES ASSUME NEW i \in 1..Len(queue')
               PROVE  /\ queue'[i].gen <= generation
                      /\ queue'[i].ev.block_height <= head
                      /\ ~Stale(queue'[i]) =>
                           \A f \in Processable : f.block_height < queue'[i].ev.block_height =>
                              \/ f \in handled
                              \/ Applying(f)'
                              \/ \E j \in 1..(i - 1) : queue'[j].gen = generation /\ queue'[j].ev = f
    <3>1. generation' = generation /\ head' = head /\ handled' = handled /\ stopped' = stopped
      BY <1>2
    <3>2. ASSUME NEW k \in 1..Len(queue'),
                 /\ queue'[k].gen <= generation
                 /\ queue'[k].ev.block_height <= head
                 /\ ~Stale(queue'[k]) =>
                      \A f \in Processable : f.block_height < queue'[k].ev.block_height =>
                         \/ f \in handled
                         \/ Applying(f)'
                         \/ \E j \in 1..(k - 1) : queue'[j].gen = generation /\ queue'[j].ev = f
          PROVE  /\ queue'[k].gen <= generation'
                 /\ queue'[k].ev.block_height <= head'
                 /\ ~Stale(queue[k])' =>
                      \A f \in Processable : f.block_height < queue'[k].ev.block_height =>
                         \/ f \in handled'
                         \/ Applying(f)'
                         \/ \E j \in 1..(k - 1) : queue'[j].gen = generation' /\ queue'[j].ev = f
      <4>1. ~Stale(queue[k])' => ~Stale(queue'[k])
        BY <3>1 DEF Stale
      <4> QED
        BY <3>1, <3>2, <4>1
    <3> QED
      BY <3>2 DEF InvQueue
  <2>1. i + 1 \in 1..Len(queue) /\ queue'[i] = queue[i + 1]
    BY <1>4
  <2>2. queue'[i].gen <= generation /\ queue'[i].ev.block_height <= head
    BY <1>1, <2>1 DEF InvQueue
  <2>3. ASSUME ~Stale(queue'[i]), NEW f \in Processable,
               f.block_height < queue'[i].ev.block_height
        PROVE  \/ f \in handled
               \/ Applying(f)'
               \/ \E j \in 1..(i - 1) : queue'[j].gen = generation /\ queue'[j].ev = f
    <3>1. \/ f \in handled
          \/ Applying(f)
          \/ \E j \in 1..((i + 1) - 1) : queue[j].gen = generation /\ queue[j].ev = f
      BY <1>1, <2>1, <2>3 DEF InvQueue
    <3>2. ~Applying(f)
      BY <1>2 DEF Applying
    <3>3. ASSUME NEW j \in 1..((i + 1) - 1), queue[j].gen = generation, queue[j].ev = f
          PROVE  \/ f \in handled
                 \/ Applying(f)'
                 \/ \E m \in 1..(i - 1) : queue'[m].gen = generation /\ queue'[m].ev = f
      <4>1. CASE j = 1
        <5>1. ~Stale(x) /\ x.ev = f
          BY <1>4, <2>3, <3>3, <4>1 DEF Stale
        <5> QED
          BY <1>8, <5>1
      <4>2. CASE j # 1
        <5>1. j - 1 \in 1..(i - 1) /\ j - 1 \in 1..Len(queue') /\ (j - 1) + 1 = j
          BY <1>4, <4>2
        <5>2. queue'[j - 1] = queue[j]
          BY <1>4, <5>1
        <5> QED
          BY <3>3, <5>1, <5>2
      <4> QED
        BY <4>1, <4>2
    <3> QED
      BY <3>1, <3>2, <3>3
  <2> QED
    BY <2>2, <2>3
<1>13. ~stopped => \A f \in Processable : Pending(f) => Pending(f)'
  <2> SUFFICES ASSUME ~stopped, NEW f \in Processable, Pending(f) PROVE Pending(f)'
    OBVIOUS
  <2>1. CASE f \in handled
    BY <1>2, <2>1 DEF Pending
  <2>2. CASE Queued(f)
    <3>1. PICK j \in 1..Len(queue) : queue[j].gen = generation /\ queue[j].ev = f
      BY <2>2 DEF Queued
    <3>2. CASE j = 1
      <4>1. ~Stale(x) /\ x.ev = f
        BY <1>4, <3>1, <3>2 DEF Stale
      <4> QED
        BY <1>2, <1>8, <4>1 DEF Pending
    <3>3. CASE j # 1
      <4>1. j - 1 \in 1..Len(queue') /\ (j - 1) + 1 = j
        BY <1>4, <3>3
      <4>2. queue'[j - 1] = queue[j]
        BY <1>4, <4>1
      <4> QED
        BY <1>2, <3>1, <4>1, <4>2 DEF Pending, Queued
    <3> QED
      BY <3>2, <3>3
  <2>3. ~Applying(f)
    BY <1>2 DEF Applying
  <2> QED
    BY <2>1, <2>2, <2>3 DEF Pending
<1>14. InvRest' /\ InvLink' /\ InvBuffer' /\ LiveCoversDelivered'
  BY <1>2, <1>7, <1>13, ApplyKeeps
<1> QED
  BY <1>10, <1>11, <1>12, <1>14 DEF IndInv

\* The later steps of applyEvent, up to the save, keep the invariant.
LEMMA CallSteps ==
    ASSUME TypeOK, IndInv, fetchActivity \/ applyChanges \/ saveSyncState
    PROVE  IndInv'
<1>1. IndInv => InvStore /\ InvCur /\ InvQueue
  BY DEF IndInv
<1>2. /\ cur.step \in {"fetch", "handle", "save"} /\ cur # NoEvent
      /\ UNCHANGED <<head, link, from, nextBlock, ws, stopped, syncing, generation,
                     buffer, queue>>
  BY CallFacts DEF fetchActivity, applyChanges, saveSyncState, linkVars
<1>3. PICK x : x = cur.item
  OBVIOUS
<1>4. PICK e : e = x.ev
  OBVIOUS
<1>5. /\ x.gen <= generation /\ e.block_height <= head /\ e \in Processable
      /\ cur.step # "fetch" \/ ~Stale(x) => Safe(e)
      /\ cur.step = "save" => e \in handled
  BY <1>1, <1>2, <1>3, <1>4, CallFacts DEF InvCur
<1>6. Resume(x) \/ sync' = sync
  BY <1>3 DEF fetchActivity, applyChanges, saveSyncState
<1>7. handled \subseteq handled'
  BY DEF fetchActivity, applyChanges, saveSyncState, history
<1>8. \A f : Applying(f) <=> (x.gen = generation /\ e = f)
  BY <1>2, <1>3, <1>4 DEF Applying
<1>9. ~stopped => \A f : Applying(f) => f \in handled' \/ Applying(f)'
  <2> SUFFICES ASSUME ~stopped, x.gen = generation PROVE e \in handled' \/ Applying(e)'
    BY <1>8
  <2>1. CASE fetchActivity
    <3>1. ~Stale(x)
      BY DEF Stale
    <3>2. cur' # NoEvent /\ cur'.item = x
      BY <1>3, <2>1, <3>1, CallFacts DEF fetchActivity, NoEvent, Calls
    <3> QED
      BY <1>2, <1>4, <3>2 DEF Applying
  <2>2. CASE applyChanges
    BY <1>3, <1>4, <2>2 DEF applyChanges
  <2>3. CASE saveSyncState
    BY <1>5, <1>7, <2>3 DEF saveSyncState
  <2> QED
    BY <2>1, <2>2, <2>3
<1>10. InvStore'
  <2>1. CASE fetchActivity
    BY <1>1, <2>1 DEF fetchActivity, InvStore, NoEventLost, history
  <2>2. CASE applyChanges
    BY <1>1, <2>2 DEF applyChanges, InvStore, NoEventLost
  <2>3. CASE saveSyncState
    <3>1. store' = Recorded(store, e) /\ handled' = handled /\ cur.step = "save"
      BY <1>3, <1>4, <2>3 DEF saveSyncState, history
    <3>2. e \in handled /\ Safe(e)
      BY <1>5, <3>1
    <3>3. store'.partialKeys \subseteq handled
      BY <1>1, <3>1, <3>2 DEF InvStore, Recorded
    <3>4. ASSUME NEW f \in Processable, f.block_height <= store'.lastBlockHeight
          PROVE  f \in handled
      <4>1. f.block_height <= store.lastBlockHeight \/ f.block_height <= e.block_height - 1
        BY <3>1, <3>4 DEF Recorded
      <4>2. f.block_height \in Nat /\ e.block_height \in Nat
        BY <1>5, Heights
      <4> QED
        BY <1>1, <3>2, <4>1, <4>2 DEF InvStore, NoEventLost, Safe
    <3> QED
      BY <3>1, <3>3, <3>4 DEF InvStore, NoEventLost
  <2> QED
    BY <2>1, <2>2, <2>3
<1>11. InvCur'
  <2>1. CASE fetchActivity
    <3>1. cur' = NoEvent \/ (~Stale(x) /\ cur'.item = x /\ cur'.step = "handle")
      BY <1>3, <2>1, CallFacts DEF fetchActivity, Calls
    <3>2. handled' = handled
      BY <2>1 DEF fetchActivity, history
    <3> QED
      BY <1>2, <1>4, <1>5, <3>1, <3>2 DEF InvCur, Safe, Stale
  <2>2. CASE applyChanges
    <3>1. cur'.item = x /\ cur'.step = "save" /\ handled' = handled \cup {e} /\ cur.step = "handle"
      BY <1>3, <1>4, <2>2, CallFacts DEF applyChanges, Calls
    <3> QED
      BY <1>2, <1>4, <1>5, <3>1 DEF InvCur, Safe, Stale
  <2>3. CASE saveSyncState
    BY <2>3 DEF saveSyncState, InvCur
  <2> QED
    BY <2>1, <2>2, <2>3
<1>12. InvQueue'
  <2> SUFFICES ASSUME NEW i \in 1..Len(queue)
               PROVE  /\ queue[i].gen <= generation
                      /\ queue[i].ev.block_height <= head
                      /\ ~Stale(queue[i]) =>
                           \A f \in Processable : f.block_height < queue[i].ev.block_height =>
                              \/ f \in handled'
                              \/ Applying(f)'
                              \/ \E j \in 1..(i - 1) : queue[j].gen = generation /\ queue[j].ev = f
    BY <1>2 DEF InvQueue, Stale
  <2> QED
    BY <1>1, <1>7, <1>9 DEF InvQueue, Stale
<1>13. ~stopped => \A f \in Processable : Pending(f) => Pending(f)'
  BY <1>2, <1>7, <1>9 DEF Pending, Queued
<1>14. InvRest' /\ InvLink' /\ InvBuffer' /\ LiveCoversDelivered'
  BY <1>2, <1>6, <1>13, ApplyKeeps
<1> QED
  BY <1>10, <1>11, <1>12, <1>14 DEF IndInv

\* Every step keeps the inductive invariant.
LEMMA InvNext ==
    ASSUME ~SubscribeMayTimeOut
    PROVE  TypeOK /\ TypeOK' /\ IndInv /\ [Next]_vars => IndInv'
<1> SUFFICES ASSUME TypeOK, TypeOK', IndInv, [Next]_vars PROVE IndInv'
  OBVIOUS
<1>1. CASE UNCHANGED vars
  BY <1>1 DEF vars, linkVars, history, IndInv, InvStore, NoEventLost, InvCur, InvQueue, InvRest,
     InvLink, InvBuffer, LiveCoversDelivered, Safe, Pending, Queued, Applying, Stale, InSync
<1>2. CASE Next
  BY <1>2, QuietSteps, ResetSteps, PageStep, QueueNextStep, GoLiveStep, BlockStep,
     FailureSteps, TakeStep, CallSteps DEF Next, SocketStep, SyncStep, ApplyStep, FaultStep
<1> QED
  BY <1>1, <1>2

\* The whole inductive invariant holds when every subscription is
\* acknowledged within SUBSCRIBE_TIMEOUT_MS.
THEOREM Invariance ==
    ASSUME ~SubscribeMayTimeOut
    PROVE  Spec => []IndInv
<1>1. Init => IndInv
  BY InvInit
<1>2. TypeOK /\ TypeOK' /\ IndInv /\ [Next]_vars => IndInv'
  BY InvNext
<1> QED
  BY <1>1, <1>2, TypeCorrect, PTL DEF Spec

\* The persisted height never covers an event whose handlers have not run,
\* whatever closes, failures, overflows, stops and crashes come between.
THEOREM NothingLost ==
    ASSUME ~SubscribeMayTimeOut
    PROVE  Spec => []NoEventLost
<1>1. IndInv => NoEventLost
  BY DEF IndInv, InvStore
<1> QED
  BY <1>1, Invariance, PTL

-----------------------------------------------------------------------------
\* Implementation of the feed.

\* Every step of the service is a step of the feed or a stutter.
LEMMA FeedStep ==
    ASSUME TypeOK, IndInv, [Next]_vars
    PROVE  [Feed!Next]_(Feed!vars)
<1>1. CASE Land
  BY <1>1 DEF Land, history, Feed!Next, Feed!Land
<1>2. CASE applyChanges
  <2>1. cur.step = "handle" /\ handled' = handled \cup {cur.item.ev} /\ head' = head
    BY <1>2 DEF applyChanges
  <2>2. PICK e : e = cur.item.ev
    OBVIOUS
  <2>3. e \in Processable /\ e.block_height <= head /\ Safe(e)
    BY <2>1, <2>2, CallFacts DEF IndInv, InvCur
  <2>4. CASE e \in handled
    BY <2>1, <2>2, <2>4 DEF Feed!vars
  <2>5. CASE e \notin handled
    <3>1. Feed!Handle(e)
      BY <2>1, <2>2, <2>3, <2>5 DEF Feed!Handle, Safe
    <3> QED
      BY <2>3, <3>1 DEF Feed!Next
  <2> QED
    BY <2>4, <2>5
<1>3. CASE UNCHANGED vars
  BY <1>3 DEF vars, history, Feed!vars
<1>4. CASE connect \/ Activate \/ subscribeTimeout \/ acceptDidComm
  BY <1>4 DEF connect, Activate, subscribeTimeout, acceptDidComm, history, Feed!vars
<1>5. CASE SocketStep
  BY <1>5 DEF SocketStep, handleReady, handleSubscribed, handleBlock, history, Feed!vars
<1>6. CASE SyncStep
  BY <1>6 DEF SyncStep, loadCursor, getEvents, queueNext, nextPage, goLive, history, Feed!vars
<1>7. CASE takeEvent \/ fetchActivity \/ saveSyncState
  BY <1>7 DEF takeEvent, fetchActivity, saveSyncState, history, Feed!vars
<1>8. CASE FaultStep
  BY <1>8 DEF FaultStep, socketClose, watchdogFires, catchUpFails, applyFails, stop,
     crashAndRestart, history, Feed!vars
<1> QED
  BY <1>1, <1>2, <1>3, <1>4, <1>5, <1>6, <1>7, <1>8 DEF Next, ApplyStep

\* The service implements the feed: the handlers see the events of the chain
\* block by block and miss none, through every reconnect and restart.
THEOREM ImplementsFeed ==
    ASSUME ~SubscribeMayTimeOut
    PROVE  Spec => FeedSpec
<1>1. Init => Feed!Init
  BY DEF Init, Feed!Init
<1>2. TypeOK /\ IndInv /\ [Next]_vars => [Feed!Next]_(Feed!vars)
  BY FeedStep
<1> QED
  BY <1>1, <1>2, TypeCorrect, Invariance, PTL DEF Spec, FeedSpec, Feed!Spec

-----------------------------------------------------------------------------
\* Handlers run once.

\* No event has been handled when the process starts.
LEMMA OnceInit == Init => InvOnce
BY DEF Init, InvOnce, RedoneOnlyIfInterrupted, emptyState

\* Recording an event keeps the earlier records: a block that is replaced as
\* the partial one drops below the height.
\* Recording an event keeps earlier ones recognised as applied (saveSyncState).
LEMMA RecordKeeps ==
    ASSUME TypeOK, NEW e \in Processable, ~AlreadyApplied(e),
           store.partialBlock <= store.lastBlockHeight + 1,
           store' = Recorded(store, e)
    PROVE  /\ \A d \in Processable : AlreadyApplied(d) => AlreadyApplied(d)'
           /\ AlreadyApplied(e)'
           /\ store'.partialBlock <= store'.lastBlockHeight + 1
<1>1. /\ store.lastBlockHeight \in Nat /\ store.partialBlock \in Nat
      /\ e.block_height \in Nat
  BY Heights, ConstantsAssumption DEF TypeOK, SyncStates
<1>2. store.lastBlockHeight < e.block_height
  BY <1>1 DEF AlreadyApplied
<1>3. store'.lastBlockHeight = e.block_height - 1
  BY <1>1, <1>2 DEF Recorded
<1>4. CASE e.block_height > store.partialBlock
  <2>1. store'.partialBlock = e.block_height /\ store'.partialKeys = {e}
    BY <1>4 DEF Recorded
  <2> QED
    BY <1>1, <1>2, <1>3, <1>4, <2>1, Heights DEF AlreadyApplied
<1>5. CASE ~(e.block_height > store.partialBlock)
  <2>1. store'.partialBlock = store.partialBlock /\ store'.partialKeys = store.partialKeys \cup {e}
    BY <1>5 DEF Recorded
  <2>2. e.block_height = store.partialBlock
    BY <1>1, <1>2, <1>5
  <2> QED
    BY <1>1, <1>2, <1>3, <2>1, <2>2, Heights DEF AlreadyApplied
<1> QED
  BY <1>4, <1>5

\* Every step keeps handled events recorded, in progress or interrupted.
LEMMA OnceNext == TypeOK /\ InvOnce /\ [Next]_vars => InvOnce'
<1> SUFFICES ASSUME TypeOK, InvOnce, [Next]_vars PROVE InvOnce'
  OBVIOUS
<1>1. ASSUME UNCHANGED <<cur, store, handled, redone, interrupted>> PROVE InvOnce'
  BY <1>1 DEF InvOnce, RedoneOnlyIfInterrupted, AlreadyApplied
<1>2. CASE Land \/ connect \/ Activate \/ subscribeTimeout \/ acceptDidComm
  BY <1>1, <1>2 DEF Land, connect, Activate, subscribeTimeout, acceptDidComm, history
<1>3. CASE SocketStep
  BY <1>1, <1>3 DEF SocketStep, handleReady, handleSubscribed, handleBlock, history
<1>4. CASE SyncStep
  BY <1>1, <1>4 DEF SyncStep, loadCursor, getEvents, queueNext, nextPage, goLive, history
<1>5. CASE socketClose \/ watchdogFires \/ catchUpFails \/ stop
  BY <1>1, <1>5 DEF socketClose, watchdogFires, catchUpFails, stop, history
<1>6. CASE UNCHANGED vars
  BY <1>1, <1>6 DEF vars, history
<1>7. CASE takeEvent
  <2>1. cur = NoEvent /\ UNCHANGED <<store, handled, redone, interrupted>>
    BY <1>7 DEF takeEvent, history
  <2>2. cur' # NoEvent => cur'.step = "fetch" /\ ~AlreadyApplied(cur'.item.ev)
    BY <1>7 DEF takeEvent
  <2> QED
    BY <2>1, <2>2 DEF InvOnce, RedoneOnlyIfInterrupted, AlreadyApplied
<1>8. CASE fetchActivity
  <2>1. cur.step = "fetch" /\ cur # NoEvent /\ UNCHANGED <<store, handled, redone, interrupted>>
    BY <1>8, CallFacts DEF fetchActivity, history
  <2>2. cur' # NoEvent => cur'.step = "handle" /\ cur'.item = cur.item
    BY <1>8, CallFacts DEF fetchActivity, Calls
  <2> QED
    BY <2>1, <2>2 DEF InvOnce, RedoneOnlyIfInterrupted, AlreadyApplied
<1>9. CASE applyChanges
  <2>1. PICK e : e = cur.item.ev
    OBVIOUS
  <2>2. /\ cur.step = "handle" /\ cur # NoEvent /\ e \in Processable
        /\ handled' = handled \cup {e} /\ redone' = redone \cup ({e} \cap handled)
        /\ UNCHANGED <<store, interrupted>>
        /\ cur'.step = "save" /\ cur'.item = cur.item /\ cur' # NoEvent
    BY <1>9, <2>1, CallFacts DEF applyChanges, Calls, NoEvent
  <2>3. ~AlreadyApplied(e)
    BY <2>1, <2>2 DEF InvOnce
  <2>4. e \in handled => e \in interrupted
    BY <2>2, <2>3 DEF InvOnce
  <2> QED
    BY <2>1, <2>2, <2>4 DEF InvOnce, RedoneOnlyIfInterrupted, AlreadyApplied
<1>10. CASE saveSyncState
  <2>1. PICK e : e = cur.item.ev
    OBVIOUS
  <2>2. /\ cur.step = "save" /\ cur # NoEvent /\ e \in Processable
        /\ store' = Recorded(store, e) /\ cur' = NoEvent
        /\ UNCHANGED <<handled, redone, interrupted>>
    BY <1>10, <2>1, CallFacts DEF saveSyncState, history
  <2>3. ~AlreadyApplied(e) /\ store.partialBlock <= store.lastBlockHeight + 1
    BY <2>1, <2>2 DEF InvOnce
  <2>4. /\ \A d \in Processable : AlreadyApplied(d) => AlreadyApplied(d)'
        /\ AlreadyApplied(e)'
        /\ store'.partialBlock <= store'.lastBlockHeight + 1
    BY <2>2, <2>3, RecordKeeps
  <2>5. handled \subseteq Processable
    BY DEF TypeOK
  <2> QED
    BY <2>1, <2>2, <2>4, <2>5 DEF InvOnce, RedoneOnlyIfInterrupted
<1>11. CASE applyFails \/ crashAndRestart
  <2>1. /\ cur' = NoEvent /\ interrupted' = interrupted \cup Unrecorded
        /\ UNCHANGED <<store, handled, redone>>
    BY <1>11 DEF applyFails, crashAndRestart
  <2> QED
    BY <2>1 DEF InvOnce, RedoneOnlyIfInterrupted, AlreadyApplied, Unrecorded
<1> QED
  BY <1>2, <1>3, <1>4, <1>5, <1>6, <1>7, <1>8, <1>9, <1>10, <1>11 DEF Next, ApplyStep, FaultStep

\* Handlers run again for an event only if a crash or a failed save hit it
\* between its handlers and its record: rewound pages, the overlap of pages
\* and live blocks, and reconnects never run them twice.  A subscription
\* acknowledged late makes no difference.
THEOREM HandledOnce == Spec => []RedoneOnlyIfInterrupted
<1>1. InvOnce => RedoneOnlyIfInterrupted
  BY DEF InvOnce
<1> QED
  BY <1>1, OnceInit, OnceNext, TypeCorrect, PTL DEF Spec

=============================================================================
