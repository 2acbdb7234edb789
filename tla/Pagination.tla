----------------------------- MODULE Pagination -----------------------------
(***************************************************************************)
(* The collection methods of the Admin API cut pages with a keyset cursor  *)
(* that holds all the next call needs: the agent keeps no cursor state. A  *)
(* client reads a list page by page while records are created, deleted and *)
(* change the field that the filter is about, and while the agent is       *)
(* replaced by one with another cursor format. A record is its creation    *)
(* time and its id; the key joins both.                                    *)
(***************************************************************************)
EXTENDS Integers, FiniteSets, Sequences, SequencesExt

CONSTANTS
    Ids,             \* bound: the records that can be made; an order of ids
    MaxTime,         \* bound on creation times
    Limits,          \* values of the query parameter limit, also invalid ones
    PAGE_LIMIT_MIN, PAGE_LIMIT_MAX,
    MaxUpgrades      \* bound: replacements of the agent

VARIABLES
    clock,           \* creation time of the next record
    records,         \* per id: creation time and whether the filter matches, or none
    version,         \* CURSOR_FORMAT_VERSION of the agent that runs
    client,          \* "idle", "reading", "done", "refused"
    filtered,        \* the client filters its list
    limit,           \* the limit it asks for
    cursor,          \* the cursor of its next call
    seen,            \* the pages it got, as one sequence of ids
    stayed           \* ids in the list at every moment since the first call (history)

state == <<clock, records, version>>
reading == <<client, filtered, limit, cursor, seen, stayed>>
vars == <<state, reading>>

Absent == [at |-> 0, matches |-> FALSE]
NoCursor == [v |-> 0, scope |-> FALSE, key |-> <<0, 0>>]
List(recs, f) == {i \in DOMAIN recs : recs[i] # Absent /\ (f => recs[i].matches)}

Init ==
    /\ clock = 1 /\ records = [i \in Ids |-> Absent] /\ version = 1
    /\ client = "idle" /\ filtered = FALSE /\ limit = 1 /\ cursor = NoCursor /\ seen = <<>> /\ stayed = {}

\* Whatever changes the records, the history keeps what never left the list.
Changed(recs) == records' = recs /\ stayed' = stayed \cap List(recs, filtered)

create(i, matches) ==
    /\ records[i] = Absent /\ i \notin stayed /\ \A k \in 1..Len(seen) : seen[k] # i
    /\ Changed([records EXCEPT ![i] = [at |-> clock, matches |-> matches]])
    /\ clock' \in {clock, IF clock < MaxTime THEN clock + 1 ELSE clock}
    /\ UNCHANGED <<version, client, filtered, limit, cursor, seen>>

delete(i) ==
    /\ records[i] # Absent /\ Changed([records EXCEPT ![i] = Absent])
    /\ UNCHANGED <<clock, version, client, filtered, limit, cursor, seen>>

changeState(i) ==
    /\ records[i] # Absent /\ Changed([records EXCEPT ![i].matches = ~@])
    /\ UNCHANGED <<clock, version, client, filtered, limit, cursor, seen>>

upgrade ==
    /\ version <= MaxUpgrades /\ version' = version + 1 /\ UNCHANGED <<clock, records, reading>>

-----------------------------------------------------------------------------
limitAtLeast(n) == Max({n, PAGE_LIMIT_MIN})
\* limitOf: an integer, within the bounds.
limitOf(n) == Min({Max({n, PAGE_LIMIT_MIN}), PAGE_LIMIT_MAX})

\* createdAtKey: the id keeps the key unique when two records share a time.
createdAtKey(i) == <<records[i].at, i>>

Before(k, l) == k[1] < l[1] \/ (k[1] = l[1] /\ k[2] < l[2])

\* The list in the order of its keys. Equal keys are refused by
\* assertUniqueKeys, so the order is total.
UniqueKeys(S) == \A i, j \in S : createdAtKey(i) = createdAtKey(j) => i = j
Sorted(S) == SetToSortSeq(S, LAMBDA i, j : Before(createdAtKey(i), createdAtKey(j)))

encodeCursor(key) == [v |-> version, scope |-> filtered, key |-> key]
\* decodeCursor refuses a cursor of another format or of another scope.
Refuses(c, f) == c # NoCursor /\ (c.v # version \/ c.scope # f)

\* The first key after the anchor, which may have been deleted.
startOf(s) ==
    IF cursor = NoCursor THEN 1
    ELSE LET after == {k \in 1..Len(s) : Before(cursor.key, createdAtKey(s[k]))}
         IN IF after = {} THEN Len(s) + 1 ELSE Min(after)

\* nextCursor: the key of the last record of the page, null on the last page.
nextCursor(s, from, page) ==
    IF from + limitOf(limit) <= Len(s) /\ page # <<>>
    THEN encodeCursor(createdAtKey(page[Len(page)])) ELSE NoCursor

\* One call of a collection method by the client; with a null nextCursor it
\* has the list.
paginate ==
    LET S == List(records, filtered)
        s == Sorted(S)
        from == startOf(s)
        page == SubSeq(s, from, Min({from + limitOf(limit) - 1, Len(s)}))
    IN /\ client = "reading"
       /\ IF Refuses(cursor, filtered) \/ ~UniqueKeys(S)
          THEN client' = "refused" /\ UNCHANGED <<cursor, seen>>
          ELSE /\ seen' = seen \o page /\ cursor' = nextCursor(s, from, page)
               /\ client' = IF cursor' = NoCursor THEN "done" ELSE "reading"
       /\ UNCHANGED <<state, filtered, limit, stayed>>

startList(f, n) ==
    /\ client = "idle" /\ client' = "reading" /\ filtered' = f /\ limit' = n
    /\ stayed' = List(records, f) /\ UNCHANGED <<state, cursor, seen>>

\* The client changes its filter and keeps the cursor.
changeFilter ==
    /\ client = "reading" /\ cursor # NoCursor /\ filtered' = ~filtered
    /\ stayed' = stayed \cap List(records, filtered')
    /\ UNCHANGED <<state, client, limit, cursor, seen>>

restartList ==
    /\ client \in {"done", "refused"} /\ client' = "idle" /\ cursor' = NoCursor /\ seen' = <<>> /\ stayed' = {}
    /\ UNCHANGED <<state, filtered, limit>>

Next ==
    \/ upgrade \/ paginate \/ changeFilter \/ restartList
    \/ \E i \in Ids : delete(i) \/ changeState(i) \/ \E b \in BOOLEAN : create(i, b)
    \/ \E f \in BOOLEAN, n \in Limits : startList(f, n)

Spec == Init /\ [][Next]_vars
\* The client goes on asking for the next page.
Fairness == WF_vars(paginate)

FairSpec == Spec /\ Fairness

-----------------------------------------------------------------------------
\* The types; a page that was cut has its cursor.
TypeOK ==
    /\ clock \in 1..MaxTime /\ records \in [Ids -> [at : 0..MaxTime, matches : BOOLEAN]]
    /\ version \in 1..(MaxUpgrades + 1) /\ client \in {"idle", "reading", "done", "refused"}
    /\ limit \in Limits \union {1} /\ limitOf(limit) \in PAGE_LIMIT_MIN..PAGE_LIMIT_MAX /\ stayed \subseteq Ids
    /\ (client \in {"idle", "done"} => cursor = NoCursor)

\* A client that reached the last page has every record that was in its list
\* from the first call to the last, whatever else came and went.
NothingSkipped ==
    client = "done" => \A i \in stayed : \E k \in 1..Len(seen) : seen[k] = i

\* No record comes twice.
NothingTwice == \A j, k \in 1..Len(seen) : seen[j] = seen[k] => j = k

\* A page of the list is within the limits, whatever the client asks for,
\* also when the list is longer.
PageBoundedStep ==
    LET n == Len(seen') - Len(seen) IN
    client = "reading" => n <= limitOf(limit) /\ n <= PAGE_LIMIT_MAX
PageBounded == [][PageBoundedStep]_vars

\* A client that keeps asking gets to an end.
ReadingEnds == (client = "reading") ~> (client # "reading")
=============================================================================
