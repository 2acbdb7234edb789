------------------------------ MODULE MCServices ----------------------------
(***************************************************************************)
(* Small instances of the parts around the agent: the admin API with its   *)
(* tokens and envelopes (AdminApi), its lists (Pagination), the            *)
(* announcement of messages (MessageEvents), and the client libraries that *)
(* consume the events and issue credentials (ClientEvents,                 *)
(* ClientIssuance).                                                        *)
(*                                                                         *)
(* The parts are checked side by side: a behaviour runs one scenario, an   *)
(* instance of one part with its bounds, and leaves the others alone, so   *)
(* that the state spaces add up and do not multiply.                       *)
(***************************************************************************)
EXTENDS AdminApi

CONSTANTS m1, m2, m3   \* distinct values

VARIABLES
    scenario,   \* what this behaviour runs
    \* Pagination
    pageClock, records, version, client, filtered, limit, cursor, pagesSeen, stayed,
    \* MessageEvents
    phase, msg, waiting, hooks, bus, sent, disclosed, cut, busStops, up,
    \* ClientEvents
    posts, eventsSeen, row, eventCalls, lost, errors, eventStops,
    \* ClientIssuance
    setup, current, rows, issueCalls, agent, revoking, issueFailures, issuerStops

paginationVars ==
    <<pageClock, records, version, client, filtered, limit, cursor, pagesSeen, stayed>>
messageEventsVars ==
    <<phase, msg, waiting, hooks, bus, sent, disclosed, cut, busStops, up>>
clientEventsVars ==
    <<posts, eventsSeen, row, eventCalls, lost, errors, eventStops>>
clientIssuanceVars ==
    <<setup, current, rows, issueCalls, agent, revoking, issueFailures, issuerStops>>

AllKinds ==
    {"text", "receipt", "reaction", "requestProfile", "profile", "requestMedia", "shareMedia", "call",
     "menuRequest", "perform", "answer", "mrz", "emrtd", "refused", "timeout", "otherReport"}

Pages == INSTANCE Pagination WITH
    Ids <- {1, 2, 3}, MaxTime <- 2, Limits <- {1, 3}, PAGE_LIMIT_MIN <- 1,
    PAGE_LIMIT_MAX <- 2, MaxUpgrades <- 0, seen <- pagesSeen, clock <- pageClock
Limited == INSTANCE Pagination WITH
    Ids <- {1, 2, 3}, MaxTime <- 1, Limits <- {0, 9}, PAGE_LIMIT_MIN <- 1,
    PAGE_LIMIT_MAX <- 2, MaxUpgrades <- 1, seen <- pagesSeen, clock <- pageClock

Messages == INSTANCE MessageEvents WITH
    Inbound <- {m1, m2}, Own <- {m3}, Kinds <- AllKinds, MaxCrashes <- 0,
    crashes <- busStops
Posted == INSTANCE MessageEvents WITH
    Inbound <- {m1, m2}, Own <- {m3},
    Kinds <- {"text", "reaction", "profile", "call", "mrz", "requestProfile"},
    MaxCrashes <- 0, crashes <- busStops

Deliveries == INSTANCE ClientEvents WITH
    Emits <- {"completed", "profile"}, SeenLimit <- 2, Serial <- FALSE,
    MaxErrors <- 1, MaxLost <- 0, MaxCrashes <- 0, Copies <- 2,
    RequireProfile <- TRUE, seen <- eventsSeen, calls <- eventCalls,
    crashes <- eventStops
Closing == INSTANCE ClientEvents WITH
    Emits <- {"completed", "profile", "bare", "abandoned"}, SeenLimit <- 3,
    Serial <- FALSE, MaxErrors <- 0, MaxLost <- 0, MaxCrashes <- 0, Copies <- 1,
    RequireProfile <- TRUE, seen <- eventsSeen, calls <- eventCalls,
    crashes <- eventStops
InTurn == INSTANCE ClientEvents WITH
    Emits <- {"completed", "profile"}, SeenLimit <- 2, Serial <- TRUE,
    MaxErrors <- 1, MaxLost <- 1, MaxCrashes <- 1, Copies <- 2,
    RequireProfile <- TRUE, seen <- eventsSeen, calls <- eventCalls,
    crashes <- eventStops
Lossy == INSTANCE ClientEvents WITH
    Emits <- {"completed", "profile"}, SeenLimit <- 3, Serial <- FALSE,
    MaxErrors <- 0, MaxLost <- 1, MaxCrashes <- 0, Copies <- 2,
    RequireProfile <- TRUE, seen <- eventsSeen, calls <- eventCalls,
    crashes <- eventStops
Reliable == INSTANCE ClientEvents WITH
    Emits <- {"completed", "profile"}, SeenLimit <- 3, Serial <- FALSE,
    MaxErrors <- 0, MaxLost <- 0, MaxCrashes <- 0, Copies <- 2,
    RequireProfile <- TRUE, seen <- eventsSeen, calls <- eventCalls,
    crashes <- eventStops

Issuing == INSTANCE ClientIssuance WITH
    Issues <- {m1, m2, m3}, Again <- {m3}, Maximum <- 2, MaxRegistries <- 4,
    Serial <- TRUE, MaxFailures <- 0, MaxCrashes <- 0, crashes <- issuerStops,
    calls <- issueCalls, failures <- issueFailures
Overlapping == INSTANCE ClientIssuance WITH
    Issues <- {m1, m2}, Again <- {m2}, Maximum <- 1, MaxRegistries <- 4,
    Serial <- FALSE, MaxFailures <- 1, MaxCrashes <- 1, crashes <- issuerStops,
    calls <- issueCalls, failures <- issueFailures

Scenarios ==
    {"admin", "pages", "limits", "messages", "posted messages",
     "deliveries", "closing", "deliveries in turn", "lossy", "reliable",
     "issuing", "overlapping issues"}

\* A part that is not run stays in one of its initial states.
MCInit ==
    /\ scenario \in Scenarios
    /\ Init
    /\ CASE scenario = "limits" -> Limited!Init
         [] OTHER -> Pages!Init
    /\ CASE scenario = "messages" -> Messages!Init
         [] scenario = "posted messages" -> Posted!Init
         [] OTHER -> Messages!Init /\ msg = [m \in {m1, m2} |-> [kind |-> "text", connected |-> TRUE, threaded |-> FALSE]]
    /\ CASE scenario = "closing" -> Closing!Init
         [] scenario = "deliveries in turn" -> InTurn!Init
         [] scenario = "lossy" -> Lossy!Init
         [] scenario = "reliable" -> Reliable!Init
         [] OTHER -> Deliveries!Init
    /\ CASE scenario = "overlapping issues" -> Overlapping!Init
         [] OTHER -> Issuing!Init

MCNext ==
    \/ /\ scenario = "admin" /\ Next
       /\ UNCHANGED <<scenario, paginationVars, messageEventsVars, clientEventsVars, clientIssuanceVars>>
    \/ /\ \/ scenario = "pages" /\ Pages!Next
          \/ scenario = "limits" /\ Limited!Next
       /\ UNCHANGED <<scenario, vars, messageEventsVars, clientEventsVars, clientIssuanceVars>>
    \/ /\ \/ scenario = "messages" /\ Messages!Next
          \/ scenario = "posted messages" /\ Posted!Next
       /\ UNCHANGED <<scenario, vars, paginationVars, clientEventsVars, clientIssuanceVars>>
    \/ /\ \/ scenario = "deliveries" /\ Deliveries!Next
          \/ scenario = "closing" /\ Closing!Next
          \/ scenario = "deliveries in turn" /\ InTurn!Next
          \/ scenario = "lossy" /\ Lossy!Next
          \/ scenario = "reliable" /\ Reliable!Next
       /\ UNCHANGED <<scenario, vars, paginationVars, messageEventsVars, clientIssuanceVars>>
    \/ /\ \/ scenario = "issuing" /\ Issuing!Next
          \/ scenario = "overlapping issues" /\ Overlapping!Next
       /\ UNCHANGED <<scenario, vars, paginationVars, messageEventsVars, clientEventsVars>>

allVars == <<scenario, vars, paginationVars, messageEventsVars, clientEventsVars, clientIssuanceVars>>

MCSpec == MCInit /\ [][MCNext]_allVars

\* Fairness as the parts state it, of the part that is run.
MCFairSpec ==
    /\ MCSpec
    /\ WF_paginationVars(scenario = "limits" /\ Limited!paginate)
    /\ \A m \in {m1, m2} :
         /\ WF_messageEventsVars(scenario = "posted messages" /\ Posted!middleware(m))
         /\ WF_messageEventsVars(scenario = "posted messages" /\ Posted!processed(m))
         /\ WF_messageEventsVars(scenario = "posted messages" /\ Posted!getRecordId(m))
    /\ \A p \in Reliable!Posts : WF_clientEventsVars(scenario = "reliable" /\ Reliable!Handle(p))

-----------------------------------------------------------------------------
\* The lists of the admin API, the announcement of messages and the client
\* libraries keep their types, and:
\* - paginate: a client that reached the last page has every record that was
\*   in its list from the first call to the last.
\* - paginate: no record comes twice, whatever is made or deleted between two
\*   pages.
\* - FROM_MODULE_EVENT: no message is announced twice on a channel, although
\*   three listeners look at each one.
\* - didcommModuleEvents: what the agent itself sends is announced on neither
\*   channel.
\* - webhookEvent: a message the framework finished with is on the webhook
\*   even when the bus listener behind it never resumed.
\* - EventsService: an envelope is served once, whichever copies arrive
\*   together and also after a handler threw.
\* - handleNewConnection: newConnection is called once, also when a handler
\*   threw, if posts do not overlap.
\* - isCompleted: a row marked completed has been announced or is about to
\*   be.
\* - issue: no two offers carry the same index of the same registry, if calls
\*   do not overlap.
\* - revoke: a credential its holder accepted is valid until it is revoked
\*   itself.
\* - revoke: what the service records as revoked is revoked at the agent,
\*   also after a restart in the middle.
\* - revoke: only a credential that its holder accepted is ever revoked at
\*   the agent.
ServicesSound ==
    /\ scenario = "pages" => Pages!TypeOK
    /\ scenario = "pages" => Pages!NothingSkipped
    /\ scenario = "pages" => Pages!NothingTwice
    /\ scenario = "messages" => Messages!TypeOK
    /\ scenario = "messages" => Messages!AnnouncedOnce
    /\ scenario = "messages" => Messages!OwnIsSilent
    /\ scenario = "messages" => Messages!PostedBeforeLookup
    /\ scenario = "deliveries in turn" => InTurn!TypeOK
    /\ scenario = "overlapping issues" => Overlapping!TypeOK
    /\ scenario = "deliveries" => Deliveries!ServedOnce
    /\ scenario = "closing" => Closing!ServedOnce
    /\ scenario = "deliveries in turn" => InTurn!NewConnectionOnce
    /\ scenario = "lossy" => Lossy!MarkedIsAnnounced
    /\ scenario = "issuing" => Issuing!DistinctIndexes
    /\ scenario = "issuing" => Issuing!AcceptedIsValid
    /\ scenario = "overlapping issues" => Overlapping!RevokedAtAgent
    /\ scenario = "overlapping issues" => Overlapping!RevokedWasAccepted

\* What no step does, and what happens in the end:
\* - limitOf: no page is empty or longer than PAGE_LIMIT_MAX while records
\*   are left, whatever limit is asked for.
\* - paginate: a client that keeps asking gets to an end.
\* - webhookEvent: a message a handler took on a connection is posted in the
\*   end.
\* - handleNewConnection: once completed event and profile arrived,
\*   newConnection is called, in whichever order their steps interleave.
ServicesProgress ==
    /\ [][scenario = "limits" => Limited!PageBoundedStep]_paginationVars
    /\ scenario = "limits" => Limited!ReadingEnds
    /\ scenario = "posted messages" => Posted!HandledIsPosted
    /\ scenario = "reliable" => Reliable!AnnouncedAtLast
=============================================================================
