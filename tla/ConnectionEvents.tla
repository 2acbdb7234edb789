--------------------------- MODULE ConnectionEvents ----------------------------
(***************************************************************************)
(* What the agent does when a connection changes:                          *)
(* agent-sdk/src/events/ConnectionEvents.ts.                               *)
(*                                                                         *)
(* Two listeners run for each state of a connection.  One announces the    *)
(* state (ConnectionStateUpdated), after the lookups, the feature query    *)
(* and the callbacks of the invitation's requests; the other accepts a     *)
(* request that addresses a DID of this agent.  A third one announces the  *)
(* features a peer discloses, a fourth the end of a connection.  Listeners *)
(* are never awaited: they catch what they await, because an unhandled     *)
(* rejection takes the process down.                                       *)
(*                                                                         *)
(* The second use of a single-use invitation, which discardExtraConnection *)
(* closes, is in Invitations; connections here are first uses.             *)
(***************************************************************************)
EXTENDS Naturals, Sequences, SequencesExt

CONSTANTS Conns,
          Discovery,    \* feature discovery is configured
          Targets,      \* what a request addresses: the public DID, an alternative
                        \* DID of its record, a DID of somebody else, or an
                        \* invitation, with or without a request in it
          MaxFailures   \* failed lookups, messages and updates

States == {"request-received", "response-sent", "completed"}

VARIABLES target,    \* what the request of each connection addresses
          state,     \* state of the connection record, "none" before the request
          pc,        \* the announcing listener, for each connection and state
          accept,    \* the accepting listener of each connection
          callbacks, \* connection and state pairs whose callbacks are in work
          query,     \* the feature query: "no", "sent", "answered"
          disclose,  \* the disclosure listener: "idle", "updating", "done"
          ended,     \* connections the peer ended
          events,    \* ConnectionStateUpdated of each connection, in order
          connected, \* requests whose callback was told CONNECTED
          failures,
          up

vars == <<target, state, pc, accept, callbacks, query, disclose, ended, events,
          connected, failures, up>>

\* The DIDs that name this agent.
publicDidsOf == {"public", "alternative"}

Announced(c, e) == e \in Range(events[c])

-----------------------------------------------------------------------------

Init ==
  /\ target \in [Conns -> Targets]
  /\ state = [c \in Conns |-> "none"]
  /\ pc = [c \in Conns |-> [s \in States |-> "idle"]]
  /\ accept = [c \in Conns |-> "idle"]
  /\ callbacks = {}
  /\ query = [c \in Conns |-> "no"]
  /\ disclose = [c \in Conns |-> "idle"]
  /\ ended = {}
  /\ events = [c \in Conns |-> <<>>]
  /\ connected = {}
  /\ failures = 0 /\ up = TRUE

\* The framework stores state s and raises the event: both listeners start.
StateChanged(c, s) ==
  /\ state' = [state EXCEPT ![c] = s]
  /\ pc' = [pc EXCEPT ![c][s] = "discard"]
  /\ accept' = [accept EXCEPT ![c] = IF s = "request-received" THEN "lookup" ELSE @]
  /\ UNCHANGED <<target, callbacks, query, disclose, ended, events, connected, failures, up>>

requestArrives(c) == up /\ state[c] = "none" /\ StateChanged(c, "request-received")

\* The module answers the request of an invitation by itself.
autoAccept(c) ==
  /\ up /\ state[c] = "request-received"
  /\ target[c] \in {"invitation", "withRequest"}
  /\ StateChanged(c, "response-sent")

peerCompletes(c) == up /\ state[c] = "response-sent" /\ StateChanged(c, "completed")

-----------------------------------------------------------------------------
(* The announcing listener.                                                *)

Goes(c, s, from, to) ==
  /\ up /\ pc[c][s] = from
  /\ pc' = [pc EXCEPT ![c][s] = to]

\* The lookups of discardExtraConnection end; a completed connection is queried.
discarded(c, s) ==
  /\ Goes(c, s, "discard", IF s = "completed" /\ Discovery THEN "query" ELSE "oob")
  /\ UNCHANGED <<target, state, accept, callbacks, query, disclose, ended, events,
                 connected, failures, up>>

\* The query leaves; the listener waits until the transport is done with it.
queryFeatures(c) ==
  /\ Goes(c, "completed", "query", "querying")
  /\ query' = [query EXCEPT ![c] = "sent"]
  /\ UNCHANGED <<target, state, accept, callbacks, disclose, ended, events,
                 connected, failures, up>>

queried(c) ==
  /\ Goes(c, "completed", "querying", "oob")
  /\ UNCHANGED <<target, state, accept, callbacks, query, disclose, ended, events,
                 connected, failures, up>>

\* The invitation is read; the callbacks of its requests are started, not
\* awaited, and the state is announced.
announce(c, s) ==
  /\ Goes(c, s, "oob", "end")
  /\ callbacks' = callbacks \cup (IF target[c] = "withRequest" THEN {<<c, s>>} ELSE {})
  /\ events' = [events EXCEPT ![c] = Append(@, s)]
  /\ UNCHANGED <<target, state, accept, query, disclose, ended, connected, failures, up>>

\* The proof record of a request is found: its callback is told of a request
\* received.
callback(c, s) ==
  /\ up /\ <<c, s>> \in callbacks
  /\ callbacks' = callbacks \ {<<c, s>>}
  /\ connected' = IF s = "request-received" THEN connected \cup {c} ELSE connected
  /\ UNCHANGED <<target, state, pc, accept, query, disclose, ended, events, failures, up>>

-----------------------------------------------------------------------------
(* The accepting listener.                                                 *)

\* A request for a DID of this agent is accepted; another stays unanswered.
acceptRequest(c) ==
  /\ up /\ accept[c] = "lookup"
  /\ accept' = [accept EXCEPT ![c] = "end"]
  /\ IF target[c] \in publicDidsOf
     THEN /\ state' = [state EXCEPT ![c] = "response-sent"]
          /\ pc' = [pc EXCEPT ![c]["response-sent"] = "discard"]
     ELSE UNCHANGED <<state, pc>>
  /\ UNCHANGED <<target, callbacks, query, disclose, ended, events, connected, failures, up>>

-----------------------------------------------------------------------------
(* The disclosure and the end of a connection.                             *)

\* The peer answers the query: the listener writes the features to the record.
disclosureReceived(c) ==
  /\ up /\ query[c] = "sent"
  /\ query' = [query EXCEPT ![c] = "answered"]
  /\ disclose' = [disclose EXCEPT ![c] = "updating"]
  /\ UNCHANGED <<target, state, pc, accept, callbacks, ended, events, connected, failures, up>>

featuresStored(c) ==
  /\ up /\ disclose[c] = "updating"
  /\ disclose' = [disclose EXCEPT ![c] = "done"]
  /\ events' = [events EXCEPT ![c] = Append(@, "updated")]
  /\ UNCHANGED <<target, state, pc, accept, callbacks, query, ended, connected, failures, up>>

\* The peer rotates its DID to nothing; any other rotation is not announced.
DidRotated(c) ==
  /\ up /\ state[c] = "completed" /\ c \notin ended
  /\ ended' = ended \cup {c}
  /\ events' = [events EXCEPT ![c] = Append(@, "terminated")]
  /\ UNCHANGED <<target, state, pc, accept, callbacks, query, disclose, connected, failures, up>>

-----------------------------------------------------------------------------
(* Failures of the wallet and of the transport.                            *)

Fail == up /\ failures < MaxFailures /\ failures' = failures + 1

\* What the announcing listener awaits fails: it is logged, nothing is announced.
announceFails(c, s) ==
  /\ Fail /\ pc[c][s] \in {"discard", "querying", "oob"}
  /\ pc' = [pc EXCEPT ![c][s] = "failed"]
  /\ UNCHANGED <<target, state, accept, callbacks, query, disclose, ended, events,
                 connected, up>>

acceptFails(c) ==
  /\ Fail /\ accept[c] = "lookup"
  /\ accept' = [accept EXCEPT ![c] = "failed"]
  /\ UNCHANGED <<target, state, pc, callbacks, query, disclose, ended, events, connected, up>>

discloseFails(c) ==
  /\ Fail /\ disclose[c] = "updating"
  /\ disclose' = [disclose EXCEPT ![c] = "failed"]
  /\ UNCHANGED <<target, state, pc, accept, callbacks, query, ended, events, connected, up>>

\* The lookup of a callback fails outside the listener's try: nobody handles it.
callbackFails(c, s) ==
  /\ Fail /\ <<c, s>> \in callbacks
  /\ callbacks' = callbacks \ {<<c, s>>}
  /\ up' = FALSE
  /\ UNCHANGED <<target, state, pc, accept, query, disclose, ended, events, connected>>

-----------------------------------------------------------------------------

Next ==
  \E c \in Conns :
    \/ requestArrives(c) \/ autoAccept(c) \/ peerCompletes(c)
    \/ queryFeatures(c) \/ queried(c) \/ acceptRequest(c) \/ acceptFails(c)
    \/ disclosureReceived(c) \/ featuresStored(c) \/ discloseFails(c) \/ DidRotated(c)
    \/ \E s \in States : \/ discarded(c, s) \/ announce(c, s) \/ callback(c, s)
                         \/ announceFails(c, s) \/ callbackFails(c, s)

Spec == Init /\ [][Next]_vars

\* A listener that was started goes on as the wallet and the transport answer.
\* Peers need not do anything.
Fairness ==
  \A c \in Conns :
    /\ WF_vars(acceptRequest(c)) /\ WF_vars(queryFeatures(c)) /\ WF_vars(queried(c))
    /\ \A s \in States : WF_vars(discarded(c, s)) /\ WF_vars(announce(c, s))

FairSpec == Spec /\ Fairness

-----------------------------------------------------------------------------
(* Properties.                                                             *)

\* Type invariant.
TypeOK ==
  /\ target \in [Conns -> Targets]
  /\ state \in [Conns -> States \cup {"none"}]
  /\ pc \in [Conns -> [States -> {"idle", "discard", "query", "querying", "oob",
                                  "end", "failed"}]]
  /\ accept \in [Conns -> {"idle", "lookup", "end", "failed"}]
  /\ callbacks \subseteq Conns \X States
  /\ query \in [Conns -> {"no", "sent", "answered"}]
  /\ disclose \in [Conns -> {"idle", "updating", "done", "failed"}]
  /\ ended \subseteq Conns /\ connected \subseteq Conns
  /\ events \in [Conns -> Seq(States \cup {"updated", "terminated"})]
  /\ failures \in 0..MaxFailures /\ up \in BOOLEAN
  /\ \A c \in Conns, s \in States : pc[c][s] \in {"query", "querying"} => s = "completed"

\* Each state of a connection is announced at most once, however its listeners
\* interleave.
EachStateOnce == \A c \in Conns : IsInjective(events[c])

\* No failure of the wallet or of the transport ends the process: the comment of
\* every listener says that a rejection "would surface as an unhandled rejection
\* and take the process down" (ConnectionEvents.ts:78), and the listeners catch.
ProcessSurvives == up

\* The features of a connection are announced after the connection: a completed
\* state is sent first "so that the recipient knows to expect async features"
\* (ConnectionEvents.ts:125).
FeaturesAfterCompleted ==
  \A c \in Conns : Announced(c, "updated") => Announced(c, "completed")

\* A request that addresses a DID of this agent, main or alternative, is answered:
\* this listener "is the only path that answers" it (ConnectionEvents.ts:202).
\* Excused are a failed lookup and a process that ended.
OwnRequestAnswered ==
  \A c \in Conns :
    (state[c] = "request-received" /\ target[c] \in {"public", "alternative"})
      ~> (state[c] # "request-received" \/ accept[c] = "failed" \/ ~up)

\* A connection that completes is announced, whatever runs beside it, unless its
\* own listener failed or the process ended.
CompletedAnnounced ==
  \A c \in Conns :
    (state[c] = "completed")
      ~> (Announced(c, "completed") \/ pc[c]["completed"] = "failed" \/ ~up)

=============================================================================
