---------------------------- MODULE ClientEvents ----------------------------
(***************************************************************************)
(* From an agent's events to a service's callbacks. The agent posts each   *)
(* event to the webhook and never waits for the answer, so posts arrive in *)
(* any order, or not at all. The NestJS client discards a repeated         *)
(* envelope, keeps a row per connection, derives newConnection and         *)
(* closeConnection from it, and hands the envelope to onEvent. One         *)
(* connection is modelled; every database call is a step of its own.       *)
(***************************************************************************)
EXTENDS Naturals, Sequences, SequencesExt

CONSTANTS
    Emits,           \* the envelopes: "completed", "profile", "bare", "abandoned"
    Copies,          \* bound: arrivals of one envelope
    SeenLimit,       \* SEEN_LIMIT
    RequireProfile,  \* modules.connections.requireProfile
    Serial,          \* posts do not overlap
    MaxErrors,       \* bound: database calls and callbacks that throw
    MaxLost,         \* bound: posts that never arrive
    MaxCrashes       \* bound: restarts of the service

VARIABLES
    posts,           \* per envelope and copy: where the post is
    seen,            \* EventsService.seen, oldest first
    row,             \* the connection's row: its status, and a profile with a language
    calls,           \* calls of newConnection, closeConnection, onEvent that returned
    lost, errors, crashes

vars == <<posts, seen, row, calls, lost, errors, crashes>>
counters == <<lost, errors, crashes>>

Posts == Emits \X (1..Copies)
Busy == {"create", "profile", "find", "mark", "notify", "terminate", "close", "onEvent"}
Emitted(e) == e \in Emits /\ posts[<<e, 1>>] # "none"
At(p, step) == posts' = [posts EXCEPT ![p] = step]

Init ==
    /\ posts = [p \in Posts |-> "none"] /\ seen = <<>>
    /\ row = [status |-> "none", profile |-> FALSE]
    /\ calls = [opened |-> 0, closed |-> 0, served |-> [e \in Emits |-> 0]]
    /\ lost = 0 /\ errors = 0 /\ crashes = 0

\* The agent's listeners deliver an envelope of the state change.
emitState(e) ==
    /\ e \in {"completed", "abandoned"} \cap Emits /\ ~Emitted(e) /\ ~Emitted("abandoned")
    /\ At(<<e, 1>>, "net") /\ UNCHANGED <<seen, row, calls, counters>>

\* chatEvents asks the peer for its profile when the connection is completed;
\* the peer may also send one as soon as it has the response.
emitProfile(e) ==
    /\ e \in {"profile", "bare"} \cap Emits /\ ~Emitted(e)
    /\ At(<<e, 1>>, "net") /\ UNCHANGED <<seen, row, calls, counters>>

\* A post that fails is only logged.
lose(p) ==
    /\ posts[p] = "net" /\ lost < MaxLost /\ lost' = lost + 1
    /\ At(p, "lost") /\ UNCHANGED <<seen, row, calls, errors, crashes>>

\* The same envelope arrives again.
repeat(e, n) ==
    /\ n > 1 /\ posts[<<e, n>>] = "none" /\ posts[<<e, n - 1>>] # "none"
    /\ At(<<e, n>>, "net") /\ UNCHANGED <<seen, row, calls, counters>>

\* The id is remembered, and the oldest one forgotten at the limit.
Remember(e) ==
    LET all == Append(seen, e) IN IF Len(all) > SeenLimit THEN Tail(all) ELSE all

\* receive: the id is looked up and added in one synchronous step, before the
\* handlers run.
receive(p) ==
    LET e == p[1] IN
    /\ posts[p] = "net" /\ (Serial => \A q \in Posts : posts[q] \notin Busy)
    /\ IF e \in ToSet(seen) THEN At(p, "repeated") /\ UNCHANGED seen
       ELSE /\ At(p, IF e = "abandoned" THEN "terminate" ELSE "create")
            /\ seen' = Remember(e)
    /\ UNCHANGED <<row, calls, counters>>

\* create: insert or ignore.
create(p) ==
    /\ posts[p] = "create"
    /\ row' = IF row.status = "none" THEN [row EXCEPT !.status = "start"] ELSE row
    /\ At(p, IF p[1] = "completed" THEN "find" ELSE "profile") /\ UNCHANGED <<seen, calls, counters>>

\* updateUserProfile: an update of the row, if there is one.
updateUserProfile(p) ==
    /\ posts[p] = "profile"
    /\ row' = IF row.status = "none" THEN row ELSE [row EXCEPT !.profile = (p[1] = "profile")]
    /\ At(p, "find") /\ UNCHANGED <<seen, calls, counters>>

\* isCompleted: not yet announced, and with a profile where one is required.
ready == row.status # "completed" /\ (~RequireProfile \/ row.profile)
findById(p) ==
    /\ posts[p] = "find" /\ At(p, IF ready THEN "mark" ELSE "onEvent")
    /\ UNCHANGED <<seen, row, calls, counters>>

\* The status is written after the read it rests on.
markCompleted(p) ==
    /\ posts[p] = "mark" /\ row' = [row EXCEPT !.status = "completed"]
    /\ At(p, "notify") /\ UNCHANGED <<seen, calls, counters>>
newConnection(p) ==
    /\ posts[p] = "notify" /\ calls' = [calls EXCEPT !.opened = @ + 1]
    /\ At(p, "onEvent") /\ UNCHANGED <<seen, row, counters>>

\* An abandoned connection: the row, if there is one, is terminated.
terminate(p) ==
    /\ posts[p] = "terminate"
    /\ IF row.status = "none" THEN At(p, "onEvent") /\ UNCHANGED row
       ELSE At(p, "close") /\ row' = [row EXCEPT !.status = "terminated"]
    /\ UNCHANGED <<seen, calls, counters>>
closeConnection(p) ==
    /\ posts[p] = "close" /\ calls' = [calls EXCEPT !.closed = @ + 1]
    /\ At(p, "onEvent") /\ UNCHANGED <<seen, row, counters>>

\* A handler of the client throws: logged, and onEvent is still called.
handlerFails(p) ==
    /\ posts[p] \in Busy \ {"onEvent"} /\ errors < MaxErrors /\ errors' = errors + 1
    /\ At(p, "onEvent") /\ UNCHANGED <<seen, row, calls, lost, crashes>>

onEvent(p) ==
    /\ posts[p] = "onEvent" /\ At(p, "answered")
    /\ calls' = [calls EXCEPT !.served[p[1]] = @ + 1] /\ UNCHANGED <<seen, row, counters>>
\* onEvent throws: the id is forgotten, and the post answered with an error.
onEventFails(p) ==
    /\ posts[p] = "onEvent" /\ errors < MaxErrors /\ errors' = errors + 1
    /\ At(p, "failed") /\ seen' = SelectSeq(seen, LAMBDA e : e # p[1])
    /\ UNCHANGED <<row, calls, lost, crashes>>

\* A restart ends the posts under way and empties seen; the rows stay.
crash ==
    /\ crashes < MaxCrashes /\ crashes' = crashes + 1 /\ seen' = <<>>
    /\ posts' = [p \in Posts |-> IF posts[p] \in Busy THEN "failed" ELSE posts[p]]
    /\ UNCHANGED <<row, calls, lost, errors>>

Handle(p) ==
    \/ receive(p) \/ create(p) \/ updateUserProfile(p) \/ findById(p) \/ markCompleted(p)
    \/ newConnection(p) \/ terminate(p) \/ closeConnection(p) \/ onEvent(p)
Next ==
    \/ \E e \in Emits : emitState(e) \/ emitProfile(e)
    \/ \E e \in Emits, n \in 1..Copies : repeat(e, n)
    \/ \E p \in Posts : Handle(p) \/ lose(p) \/ handlerFails(p) \/ onEventFails(p)
    \/ crash
Spec == Init /\ [][Next]_vars
\* A post that arrives runs to its end.
Fairness == \A p \in Posts : WF_vars(Handle(p))

FairSpec == Spec /\ Fairness

-----------------------------------------------------------------------------
\* One connection's bookkeeping is well formed.
TypeOK ==
    /\ posts \in [Posts -> Busy \cup {"none", "net", "lost", "repeated", "answered", "failed"}]
    /\ seen \in Seq(Emits) /\ Len(seen) <= SeenLimit
    /\ row \in [status : {"none", "start", "completed", "terminated"}, profile : BOOLEAN]
    /\ calls \in [opened : Nat, closed : Nat, served : [Emits -> Nat]]

\* "A repeated envelope id is discarded before dispatch": onEvent accepts an
\* envelope once, whichever copies arrive together, and also when it threw and
\* the envelope comes again.
ServedOnce == \A e \in Emits : calls.served[e] <= 1

\* newConnection is called once for a connection, also when a handler threw
\* and its envelope is handled again (handleNewConnection).
NewConnectionOnce == calls.opened <= 1

\* A row marked completed has been announced or is about to be: nothing else
\* would ever announce it (isCompleted returns false from then on).
MarkedIsAnnounced ==
    row.status = "completed" => calls.opened > 0 \/ \E p \in Posts : posts[p] = "notify"

\* newConnection is for a completed connection: the completed event has made
\* it to the row first.
FiresWhenCompleted == calls.opened > 0 => \E n \in 1..Copies : posts[<<"completed", n>>] \notin {"none", "net", "lost"}

\* Once the completed event and the profile are sent and both arrive,
\* newConnection is called, in whichever order their steps interleave.
AnnouncedAtLast == (Emitted("completed") /\ Emitted("profile")) ~> (calls.opened > 0)
=============================================================================
