---------------------------- MODULE IndexerFeed ----------------------------
(***************************************************************************)
(* What the indexer subscription of the agent promises to the handlers it  *)
(* dispatches to, with sockets, pages, buffers and generations left out:   *)
(* the handlers see every event of the chain, block by block.  An event    *)
(* reaches the handlers only when every event of an earlier block already  *)
(* has.  Running the handlers a second time for one event is a stuttering  *)
(* step here (delivery is at least once).                                  *)
(***************************************************************************)
EXTENDS Integers

CONSTANTS
    Events,      \* the events the handlers must see
    MaxBlock     \* bound: the chain grows to this height

VARIABLES
    head,        \* height the indexer has indexed
    handled      \* events whose handlers have run

vars == <<head, handled>>

Init ==
    /\ head = 0
    /\ handled = {}

Land ==
    /\ head < MaxBlock
    /\ head' = head + 1
    /\ UNCHANGED handled

Handle(e) ==
    /\ e \notin handled
    /\ e.block_height <= head
    /\ \A f \in Events : f.block_height < e.block_height => f \in handled
    /\ handled' = handled \cup {e}
    /\ UNCHANGED head

Next == Land \/ \E e \in Events : Handle(e)

Spec == Init /\ [][Next]_vars
=============================================================================
